-------------------------- MODULE Dri2Vblank_proof --------------------------
(***************************************************************************)
(* What is proved of Dri2Vblank for every number of clients, drawables,    *)
(* events, buffers and requests: events, queue and references stay in      *)
(* step; and, as long as the frame counts do not come near the kernel's 32 *)
(* bits, a request is answered once, in time, and not after its client or  *)
(* its drawable is gone, and the frame count that a client is told never   *)
(* goes back.                                                              *)
(***************************************************************************)
EXTENDS Dri2VblankInv, TLAPS, FiniteSetTheorems, WellFoundedInduction

-----------------------------------------------------------------------------
(* The queue without some of its entries.                                  *)

\* Induction over an interval, for a set instead of a predicate.
LEMMA UpTo ==
    ASSUME NEW N \in Nat, NEW A, 0 \in A, \A n \in 0..(N - 1) : n \in A => n + 1 \in A
    PROVE  0..N \subseteq A
<1>. DEFINE bad == (0..N) \ A
            R == {ss \in Nat \X Nat : ss[1] < ss[2]}
<1>1. SUFFICES ASSUME bad # {} PROVE FALSE
    OBVIOUS
<1>2. IsWellFoundedOn(R, Nat)
    BY NatLessThanWellFounded DEF OpToRel
<1>3. bad \subseteq Nat
    OBVIOUS
<1>4. PICK n \in bad : \A m \in bad : ~ (<<m, n>> \in R)
    <2>. HIDE DEF R, bad
    <2>. QED
        BY <1>1, <1>2, <1>3, WFMin
<1>5. n \in 1..N /\ n \notin A
    <2>1. n \in 0..N /\ n \notin A
        BY <1>4
    <2>. QED
        BY <2>1
<1>6. n - 1 \notin A
    BY <1>5
<1>7. n - 1 \in bad /\ <<n - 1, n>> \in R
    BY <1>5, <1>6
<1>. QED
    BY <1>4, <1>7

\* The recursive function of Without() exists.
LEMMA WithoutStep ==
    ASSUME NEW s, NEW Q, Len(s) \in Nat
    PROVE  \E k : /\ Without(s, Q) = k[Len(s)]
                  /\ k[0] = <<>>
                  /\ \A i \in 1..Len(s) :
                        k[i] = IF s[i] \in Q THEN k[i - 1] ELSE Append(k[i - 1], s[i])
<1>. DEFINE Step(k, i) == IF i = 0 THEN <<>>
                          ELSE IF s[i] \in Q THEN k[i - 1] ELSE Append(k[i - 1], s[i])
            A == {n \in Nat : \E k : k = [i \in 0..n |-> Step(k, i)]}
<1>1. 0 \in A
    <2>. DEFINE k == [i \in 0..0 |-> <<>>]
    <2>1. k = [i \in 0..0 |-> Step(k, i)]
        OBVIOUS
    <2>. QED
        BY <2>1
<1>2. ASSUME NEW n \in 0..(Len(s) - 1), n \in A PROVE n + 1 \in A
    <2>1. PICK k : k = [i \in 0..n |-> Step(k, i)]
        BY <1>2
    <2>. DEFINE g == [i \in 0..(n + 1) |-> IF i <= n THEN k[i] ELSE Step(k, i)]
    <2>2. ASSUME NEW i \in 0..(n + 1) PROVE g[i] = Step(g, i)
        <3>0. \A j \in 0..n : k[j] = Step(k, j)
            BY <2>1
        <3>1. g[i] = Step(k, i)
            BY <3>0
        <3>2. i # 0 => i - 1 \in 0..n
            OBVIOUS
        <3>3. i # 0 => g[i - 1] = k[i - 1]
            <4>1. SUFFICES ASSUME i # 0 PROVE g[i - 1] = k[i - 1]
                OBVIOUS
            <4>2. PICK j \in 0..n : j = i - 1
                BY <3>2, <4>1
            <4>3. j \in 0..(n + 1) /\ j <= n
                OBVIOUS
            <4>4. g[j] = k[j]
                BY <4>3
            <4>. QED
                BY <4>2, <4>4
        <3>. HIDE DEF g
        <3>. QED
            BY <3>1, <3>3
    <2>3. g = [i \in 0..(n + 1) |-> Step(g, i)]
        BY <2>2
    <2>. HIDE DEF g
    <2>. QED
        BY <2>3
<1>3. Len(s) \in A
    <2>. HIDE DEF A
    <2>1. 0..Len(s) \subseteq A
        BY <1>1, <1>2, UpTo
    <2>. QED
        BY <2>1
<1>. DEFINE f == CHOOSE k : k = [i \in 0..Len(s) |-> Step(k, i)]
<1>4. f = [i \in 0..Len(s) |-> Step(f, i)]
    BY <1>3
<1>5. Without(s, Q) = f[Len(s)]
    BY DEF Without
<1>. HIDE DEF f
<1>6. \A i \in 0..Len(s) : f[i] = Step(f, i)
    BY <1>4
<1>7. f[0] = <<>>
    BY <1>6
<1>8. \A i \in 1..Len(s) : f[i] = IF s[i] \in Q THEN f[i - 1] ELSE Append(f[i - 1], s[i])
    BY <1>6
<1>. QED
    BY <1>5, <1>7, <1>8

\* The entries that are not in Q, each once and in their order.
Picks(f, t, s, n, Q) ==
    /\ f \in [1..Len(t) -> 1..n]
    /\ \A i, j \in 1..Len(t) : i < j => f[i] < f[j]
    /\ \A i \in 1..Len(t) : t[i] = s[f[i]] /\ t[i] \notin Q
    /\ \A j \in 1..n : s[j] \notin Q => \E i \in 1..Len(t) : f[i] = j

\* One more entry is kept.
LEMMA PicksOneMore ==
    ASSUME NEW S, NEW s \in Seq(S), NEW Q, NEW n \in Nat, n + 1 <= Len(s), NEW t \in Seq(S),
           NEW f, Picks(f, t, s, n, Q), s[n + 1] \notin Q
    PROVE  \E g : Picks(g, Append(t, s[n + 1]), s, n + 1, Q)
<1>. DEFINE u == Append(t, s[n + 1])
            g == [i \in 1..(Len(t) + 1) |-> IF i <= Len(t) THEN f[i] ELSE n + 1]
<1>1. /\ Len(t) \in Nat /\ Len(u) = Len(t) + 1
      /\ \A i \in 1..Len(t) : u[i] = t[i]
      /\ u[Len(t) + 1] = s[n + 1]
    OBVIOUS
<1>2. /\ \A i \in 1..Len(t) : g[i] = f[i] /\ f[i] \in 1..n
      /\ g[Len(t) + 1] = n + 1
    <2>. HIDE DEF u
    <2>1. PICK m \in Nat : m = Len(t)
        BY <1>1
    <2>2. f \in [1..m -> 1..n]
        BY <2>1 DEF Picks
    <2>3. g = [i \in 1..(m + 1) |-> IF i <= m THEN f[i] ELSE n + 1]
        BY <2>1
    <2>. HIDE DEF g
    <2>4. ASSUME NEW i \in 1..m PROVE g[i] = f[i] /\ f[i] \in 1..n
        <3>1. i \in 1..(m + 1) /\ i <= m
            BY <2>4
        <3>. QED
            BY <2>2, <2>3, <3>1
    <2>5. g[m + 1] = n + 1
        <3>1. m + 1 \in 1..(m + 1) /\ ~ (m + 1 <= m)
            OBVIOUS
        <3>. QED
            BY <2>3, <3>1
    <2>. QED
        BY <2>1, <2>4, <2>5
<1>3. g \in [1..Len(u) -> 1..(n + 1)]
    <2>1. ASSUME NEW i \in 1..(Len(t) + 1) PROVE g[i] \in 1..(n + 1)
        <3>. HIDE DEF g
        <3>1. CASE i \in 1..Len(t)
            BY <1>2, <3>1
        <3>2. CASE i = Len(t) + 1
            BY <1>2, <3>2
        <3>. QED
            BY <1>1, <3>1, <3>2
    <2>2. g \in [1..(Len(t) + 1) -> 1..(n + 1)]
        BY <2>1
    <2>. QED
        BY <1>1, <2>2
<1>. HIDE DEF u, g
<1>4. ASSUME NEW i \in 1..Len(u), NEW j \in 1..Len(u), i < j PROVE g[i] < g[j]
    <2>1. i \in 1..Len(t)
        BY <1>1, <1>4
    <2>2. CASE j \in 1..Len(t)
        BY <1>2, <1>4, <2>1, <2>2 DEF Picks
    <2>3. CASE j = Len(t) + 1
        BY <1>2, <2>1, <2>3
    <2>. QED
        BY <1>1, <2>2, <2>3
<1>5. ASSUME NEW i \in 1..Len(u) PROVE u[i] = s[g[i]] /\ u[i] \notin Q
    <2>1. CASE i \in 1..Len(t)
        BY <1>1, <1>2, <2>1 DEF Picks
    <2>2. CASE i = Len(t) + 1
        BY <1>1, <1>2, <2>2
    <2>. QED
        BY <1>1, <2>1, <2>2
<1>6. ASSUME NEW j \in 1..(n + 1), s[j] \notin Q PROVE \E i \in 1..Len(u) : g[i] = j
    <2>1. CASE j = n + 1
        BY <1>1, <1>2, <2>1
    <2>2. CASE j \in 1..n
        <3>1. PICK i \in 1..Len(t) : f[i] = j
            BY <1>6, <2>2 DEF Picks
        <3>. QED
            BY <1>1, <1>2, <3>1
    <2>. QED
        BY <2>1, <2>2
<1>7. Picks(g, u, s, n + 1, Q)
    BY <1>3, <1>4, <1>5, <1>6 DEF Picks
<1>. QED
    BY <1>7 DEF u

\* Without(s, Q) is what is left of s.
LEMMA WithoutFact ==
    ASSUME NEW S, NEW s \in Seq(S), NEW Q
    PROVE  /\ Without(s, Q) \in Seq(S)
           /\ \E f : Picks(f, Without(s, Q), s, Len(s), Q)
<1>1. PICK k : /\ Without(s, Q) = k[Len(s)]
               /\ k[0] = <<>>
               /\ \A i \in 1..Len(s) :
                     k[i] = IF s[i] \in Q THEN k[i - 1] ELSE Append(k[i - 1], s[i])
    BY WithoutStep
<1>. DEFINE A == {n \in Nat : k[n] \in Seq(S) /\ \E f : Picks(f, k[n], s, n, Q)}
<1>2. 0 \in A
    <2>1. Picks(<<>>, <<>>, s, 0, Q)
        BY DEF Picks
    <2>2. \E f : Picks(f, k[0], s, 0, Q)
        BY <1>1, <2>1
    <2>3. k[0] \in Seq(S)
        BY <1>1
    <2>. QED
        BY <2>2, <2>3
<1>3. ASSUME NEW n \in 0..(Len(s) - 1), n \in A PROVE n + 1 \in A
    <2>1. PICK f : Picks(f, k[n], s, n, Q)
        BY <1>3
    <2>. DEFINE m == n + 1
                t == k[n]
    <2>2. t \in Seq(S) /\ Len(t) \in Nat /\ s[m] \in S /\ m \in 1..Len(s) /\ m - 1 = n
        BY <1>3
    <2>3. CASE s[m] \in Q
        <3>1. k[m] = t
            BY <1>1, <2>2, <2>3
        <3>2. Picks(f, t, s, m, Q)
            BY <2>1, <2>2, <2>3 DEF Picks
        <3>. QED
            BY <2>2, <3>1, <3>2
    <2>4. CASE s[m] \notin Q
        <3>1. k[m] = Append(t, s[m])
            BY <1>1, <2>2, <2>4
        <3>2. \E g : Picks(g, Append(t, s[m]), s, m, Q)
            BY <2>1, <2>2, <2>4, PicksOneMore
        <3>3. k[n + 1] \in Seq(S) /\ \E g : Picks(g, k[n + 1], s, n + 1, Q)
            BY <2>2, <3>1, <3>2
        <3>. QED
            BY <3>3
    <2>. QED
        BY <2>3, <2>4
<1>4. Len(s) \in A
    <2>1. Len(s) \in Nat
        OBVIOUS
    <2>. HIDE DEF A
    <2>2. 0..Len(s) \subseteq A
        BY <1>2, <1>3, <2>1, UpTo
    <2>. QED
        BY <2>1, <2>2
<1>. QED
    BY <1>1, <1>4

-----------------------------------------------------------------------------
(* The entries of the queue, which have numbers and events of their own.   *)

\* Two entries differ in their numbers and in what they lead to.
Distinct(s) == \A i, j \in DOMAIN s : i # j => s[i].seq # s[j].seq /\ s[i].data # s[j].data

\* What the entries of s lead to.
DataOf(s) == {s[i].data : i \in DOMAIN s}

\* An event has one entry, and an abort finds it.
LEMMA EntryFact ==
    ASSUME queue \in Seq(Entries), Distinct(queue), NEW e \in DataOf(queue)
    PROVE  \E i \in DOMAIN queue : queue[i].data = e /\ Entry(e) = {queue[i]}
<1>. DEFINE I == {i \in DOMAIN queue : queue[i].data = e}
<1>1. PICK i \in DOMAIN queue : queue[i].data = e
    BY DEF DataOf
<1>2. I = {i}
    BY <1>1 DEF Distinct
<1>3. Entry(e) = Newest(I)
    BY DEF Entry
<1>4. Newest({i}) = {queue[i]}
    <2>1. i <= i
        OBVIOUS
    <2>. QED
        BY <2>1 DEF Newest
<1>. QED
    BY <1>1, <1>2, <1>3, <1>4

\* What tegra_drm_handler() finds is the one entry with the number, if any.
LEMMA NumberFact ==
    ASSUME queue \in Seq(Entries), Distinct(queue), NEW n,
           Newest({i \in DOMAIN queue : queue[i].seq = n}) # {}
    PROVE  \E i \in DOMAIN queue :
              /\ queue[i].seq = n
              /\ Newest({j \in DOMAIN queue : queue[j].seq = n}) = {queue[i]}
<1>. DEFINE I == {i \in DOMAIN queue : queue[i].seq = n}
<1>1. I # {}
    BY DEF Newest
<1>2. PICK i \in DOMAIN queue : queue[i].seq = n
    BY <1>1
<1>3. I = {i}
    BY <1>2 DEF Distinct
<1>4. Newest({i}) = {queue[i]}
    <2>1. i <= i
        OBVIOUS
    <2>. QED
        BY <2>1 DEF Newest
<1>. QED
    BY <1>2, <1>3, <1>4

\* The queue without the entries Q: what they lead to is gone, and nothing
\* else is.
LEMMA RemoveFact ==
    ASSUME queue \in Seq(Entries), Distinct(queue),
           NEW Q, Q \subseteq {queue[i] : i \in DOMAIN queue}, queue' = Without(queue, Q)
    PROVE  /\ queue' \in Seq(Entries)
           /\ Distinct(queue')
           /\ DataOf(queue') = DataOf(queue) \ {q.data : q \in Q}
           /\ \A i \in DOMAIN queue' : \E j \in DOMAIN queue : queue'[i] = queue[j]
<1>1. queue' \in Seq(Entries)
    BY WithoutFact
<1>2. PICK f : Picks(f, queue', queue, Len(queue), Q)
    BY WithoutFact
<1>3. /\ DOMAIN queue = 1..Len(queue) /\ DOMAIN queue' = 1..Len(queue')
      /\ Len(queue) \in Nat /\ Len(queue') \in Nat
    BY <1>1
<1>4. ASSUME NEW i \in DOMAIN queue'
      PROVE f[i] \in DOMAIN queue /\ queue'[i] = queue[f[i]] /\ queue'[i] \notin Q
    BY <1>2, <1>3 DEF Picks
<1>5. ASSUME NEW i \in DOMAIN queue', NEW j \in DOMAIN queue', i # j PROVE f[i] # f[j]
    <2>1. CASE i < j
        BY <1>2, <1>3, <1>4, <2>1 DEF Picks
    <2>2. CASE j < i
        BY <1>2, <1>3, <1>4, <2>2 DEF Picks
    <2>. QED
        BY <1>3, <1>5, <2>1, <2>2
<1>6. Distinct(queue')
    BY <1>4, <1>5 DEF Distinct
<1>7. ASSUME NEW i \in DOMAIN queue' PROVE queue'[i].data \notin {q.data : q \in Q}
    <2>1. ASSUME NEW q \in Q, q.data = queue'[i].data PROVE FALSE
        <3>1. PICK j \in DOMAIN queue : q = queue[j]
            OBVIOUS
        <3>2. j = f[i]
            BY <1>4, <2>1, <3>1 DEF Distinct
        <3>. QED
            BY <1>4, <3>1, <3>2
    <2>. QED
        BY <2>1
<1>8. DataOf(queue') \subseteq DataOf(queue) \ {q.data : q \in Q}
    BY <1>4, <1>7 DEF DataOf
<1>9. ASSUME NEW x \in DataOf(queue) \ {q.data : q \in Q} PROVE x \in DataOf(queue')
    <2>1. PICK j \in DOMAIN queue : queue[j].data = x
        BY DEF DataOf
    <2>2. queue[j] \notin Q
        BY <1>9, <2>1
    <2>3. PICK i \in 1..Len(queue') : f[i] = j
        BY <1>2, <1>3, <2>2 DEF Picks
    <2>. QED
        BY <1>3, <1>4, <2>1, <2>3 DEF DataOf
<1>. QED
    BY <1>1, <1>4, <1>6, <1>8, <1>9

\* A new entry comes first.
LEMMA EnqueueFact ==
    ASSUME NEW s \in Seq(Entries), Distinct(s), NEW x \in Entries,
           \A i \in DOMAIN s : s[i].seq # x.seq /\ s[i].data # x.data
    PROVE  /\ <<x>> \o s \in Seq(Entries)
           /\ Distinct(<<x>> \o s)
           /\ DataOf(<<x>> \o s) = DataOf(s) \cup {x.data}
           /\ \A i \in DOMAIN (<<x>> \o s) :
                 (<<x>> \o s)[i] = x \/ \E j \in DOMAIN s : (<<x>> \o s)[i] = s[j]
<1>. DEFINE t == <<x>> \o s
<1>1. /\ t \in Seq(Entries) /\ Len(s) \in Nat /\ DOMAIN s = 1..Len(s)
      /\ DOMAIN t = 1..(Len(s) + 1)
      /\ t[1] = x /\ \A i \in 2..(Len(s) + 1) : t[i] = s[i - 1]
    OBVIOUS
<1>. HIDE DEF t
<1>2. ASSUME NEW i \in DOMAIN t PROVE i = 1 \/ (i - 1 \in DOMAIN s /\ t[i] = s[i - 1])
    BY <1>1
<1>3. ASSUME NEW i \in DOMAIN t, NEW j \in DOMAIN t, i # j
      PROVE  t[i].seq # t[j].seq /\ t[i].data # t[j].data
    <2>1. CASE i = 1
        BY <1>1, <1>2, <1>3, <2>1
    <2>2. CASE j = 1
        BY <1>1, <1>2, <1>3, <2>2
    <2>3. CASE i # 1 /\ j # 1
        <3>1. i - 1 # j - 1
            BY <1>1, <1>3
        <3>. QED
            BY <1>2, <2>3, <3>1 DEF Distinct
    <2>. QED
        BY <2>1, <2>2, <2>3
<1>4. Distinct(t)
    BY <1>3 DEF Distinct
<1>5. ASSUME NEW j \in DOMAIN s PROVE j + 1 \in DOMAIN t /\ t[j + 1] = s[j]
    <2>1. j + 1 \in 2..(Len(s) + 1) /\ (j + 1) - 1 = j
        BY <1>1
    <2>. QED
        BY <1>1, <2>1
<1>6. DataOf(t) = DataOf(s) \cup {x.data}
    <2>1. DataOf(t) \subseteq DataOf(s) \cup {x.data}
        BY <1>1, <1>2 DEF DataOf
    <2>2. 1 \in DOMAIN t
        BY <1>1
    <2>3. x.data \in DataOf(t)
        BY <1>1, <2>2 DEF DataOf
    <2>4. DataOf(s) \subseteq DataOf(t)
        BY <1>5 DEF DataOf
    <2>. QED
        BY <2>1, <2>3, <2>4
<1>7. \A i \in DOMAIN t : t[i] = x \/ \E j \in DOMAIN s : t[i] = s[j]
    BY <1>1, <1>2
<1>. QED
    BY <1>1, <1>4, <1>6, <1>7 DEF t

-----------------------------------------------------------------------------
(* References to buffers.                                                  *)

\* Sets of events, of places at drawables and of buffers are finite.
LEMMA FiniteHolders ==
    /\ \A b : IsFiniteSet(HeldBy(b)) /\ IsFiniteSet(AttachedTo(b))
    /\ \A d : IsFiniteSet(BuffersOf(d))
    /\ \A b : Cardinality(HeldBy(b)) \in Nat /\ Cardinality(AttachedTo(b)) \in Nat
    /\ \A d : Cardinality(BuffersOf(d)) \in Nat
<1>1. IsFiniteSet(Ends)
    <2>1. Ends = {"front"} \cup {"back"}
        BY DEF Ends
    <2>2. IsFiniteSet({"front"})
        BY FS_Singleton
    <2>. QED
        BY <2>1, <2>2, FS_AddElement
<1>2. IsFiniteSet(Drawables \X Ends)
    BY <1>1, Dri2Assumption, FS_Product
<1>3. ASSUME NEW b PROVE IsFiniteSet(HeldBy(b)) /\ IsFiniteSet(AttachedTo(b))
    <2>1. HeldBy(b) \in SUBSET Events
        BY DEF HeldBy, Live
    <2>2. AttachedTo(b) \in SUBSET (Drawables \X Ends)
        BY DEF AttachedTo
    <2>. QED
        BY <1>2, <2>1, <2>2, Dri2Assumption, FS_Subset
<1>4. ASSUME NEW d PROVE IsFiniteSet(BuffersOf(d))
    <2>1. BuffersOf(d) \in SUBSET Buffers
        BY DEF BuffersOf
    <2>. QED
        BY <2>1, Dri2Assumption, FS_Subset
<1>. QED
    BY <1>3, <1>4, FS_CardinalityType

\* What is taken from a set is no longer counted.
LEMMA CountLess ==
    ASSUME NEW S, NEW F, IsFiniteSet(S)
    PROVE  /\ Cardinality(S) \in Nat /\ Cardinality(S \cap F) \in Nat
           /\ Cardinality(S \cap F) <= Cardinality(S)
           /\ Cardinality(S \ F) = Cardinality(S) - Cardinality(S \cap F)
<1>1. S \cap F \in SUBSET S
    OBVIOUS
<1>2. IsFiniteSet(S \cap F) /\ Cardinality(S \cap F) <= Cardinality(S)
    BY <1>1, FS_Subset
<1>. QED
    BY <1>2, FS_CardinalityType, FS_Difference

\* Dropping references keeps the counts exact: PutBuffers().
LEMMA PutFact ==
    ASSUME BufferInv, NEW F, NEW B \in SUBSET Buffers, NEW W \in SUBSET windows,
           windows \subseteq Drawables,
           PutBuffers(F, B, W), windows' = windows \ W,
           \A b \in Buffers : HeldBy(b)' = HeldBy(b) \ F,
           \A b \in Buffers : {e \in F : b \in Held(e)} = HeldBy(b) \cap F,
           \A b \in Buffers : Cardinality(AttachedTo(b)') =
              Cardinality(AttachedTo(b)) - (IF b \in B THEN 1 ELSE 0),
           \A b \in B : Cardinality(AttachedTo(b)) > 0,
           \A d \in Drawables : attached'[d]["front"] # None =>
              attached'[d]["front"] # attached'[d]["back"]
    PROVE  BufferInv'
<1>. DEFINE held(b) == Cardinality(HeldBy(b) \cap F)
            put(b) == held(b) + (IF b \in B THEN 1 ELSE 0)
<1>1. /\ buffer' = [b \in Buffers |->
              IF Final(b, put(b)) THEN NoBuffer ELSE [buffer[b] EXCEPT !.refcnt = @ - put(b)]]
      /\ pixmap_refcnt' = [d \in Drawables |-> pixmap_refcnt[d]
              - Cardinality({b \in Buffers : Final(b, put(b)) /\ buffer[b].window = d})
              - (IF d \in W THEN 1 ELSE 0)]
    BY DEF PutBuffers
<1>2. ASSUME NEW b \in Buffers
      PROVE  /\ held(b) \in Nat /\ put(b) \in Nat
             /\ Cardinality(HeldBy(b)) \in Nat /\ Cardinality(AttachedTo(b)) \in Nat
             /\ put(b) <= Cardinality(HeldBy(b)) + Cardinality(AttachedTo(b))
             /\ Cardinality(HeldBy(b)') = Cardinality(HeldBy(b)) - held(b)
    <2>1. /\ IsFiniteSet(HeldBy(b)) /\ Cardinality(HeldBy(b)) \in Nat
          /\ Cardinality(AttachedTo(b)) \in Nat
        BY FiniteHolders
    <2>2. /\ held(b) \in Nat /\ held(b) <= Cardinality(HeldBy(b))
          /\ Cardinality(HeldBy(b) \ F) = Cardinality(HeldBy(b)) - held(b)
        BY <2>1, CountLess
    <2>3. Cardinality(HeldBy(b)') = Cardinality(HeldBy(b)) - held(b)
        BY <2>2
    <2>. HIDE DEF held
    <2>4. b \in B => Cardinality(AttachedTo(b)) > 0
        OBVIOUS
    <2>5. put(b) \in Nat /\ put(b) <= Cardinality(HeldBy(b)) + Cardinality(AttachedTo(b))
        BY <2>1, <2>2, <2>4
    <2>. QED
        BY <2>1, <2>2, <2>3, <2>5
<1>. HIDE DEF held
<1>3. ASSUME NEW b \in Buffers
      PROVE  /\ buffer[b].refcnt \in Nat /\ put(b) <= buffer[b].refcnt
             /\ buffer'[b] \in [refcnt : Nat, window : Drawables \cup {None}]
             /\ buffer'[b].refcnt = buffer[b].refcnt - put(b)
             /\ buffer'[b].refcnt = 0 => buffer'[b] = NoBuffer
             /\ buffer'[b].window = IF Final(b, put(b)) THEN None ELSE buffer[b].window
    <2>1. /\ buffer[b] \in [refcnt : Nat, window : Drawables \cup {None}]
          /\ buffer[b].refcnt = Cardinality(AttachedTo(b)) + Cardinality(HeldBy(b))
          /\ buffer[b].refcnt = 0 => buffer[b] = NoBuffer
        BY DEF BufferInv
    <2>2. put(b) \in Nat /\ put(b) <= buffer[b].refcnt
        BY <1>2, <2>1
    <2>. HIDE DEF put
    <2>3. CASE Final(b, put(b))
        <3>1. buffer'[b] = NoBuffer /\ buffer[b].refcnt = put(b)
            BY <1>1, <2>3 DEF Final
        <3>. QED
            BY <2>1, <2>2, <2>3, <3>1 DEF NoBuffer
    <2>4. CASE ~ Final(b, put(b))
        <3>1. buffer'[b] = [buffer[b] EXCEPT !.refcnt = @ - put(b)]
            BY <1>1, <2>4
        <3>2. buffer'[b].refcnt = buffer[b].refcnt - put(b) /\ buffer'[b].window = buffer[b].window
            BY <2>1, <3>1
        <3>3. buffer[b].refcnt = put(b) => put(b) = 0
            BY <2>2, <2>4 DEF Final
        <3>4. put(b) = 0 => buffer'[b] = buffer[b]
            BY <2>1, <3>1
        <3>. QED
            BY <2>1, <2>2, <2>4, <3>1, <3>2, <3>3, <3>4
    <2>. QED
        BY <2>3, <2>4
<1>4. ASSUME NEW b \in Buffers
      PROVE buffer'[b].refcnt = Cardinality(AttachedTo(b)') + Cardinality(HeldBy(b)')
    BY <1>2, <1>3 DEF BufferInv
<1>5. ASSUME NEW d \in Drawables
      PROVE  /\ pixmap_refcnt'[d] \in Nat
             /\ pixmap_refcnt'[d] =
                   Cardinality(BuffersOf(d)') + (IF d \in windows' THEN 1 ELSE 0)
    <2>. DEFINE G == {b \in Buffers : Final(b, put(b))}
    <2>1. {b \in Buffers : Final(b, put(b)) /\ buffer[b].window = d} = BuffersOf(d) \cap G
        BY DEF BuffersOf
    <2>2. BuffersOf(d)' = BuffersOf(d) \ G
        BY <1>3, Dri2Assumption DEF BuffersOf
    <2>. HIDE DEF G, put
    <2>3. /\ Cardinality(BuffersOf(d)) \in Nat /\ Cardinality(BuffersOf(d) \cap G) \in Nat
          /\ Cardinality(BuffersOf(d) \cap G) <= Cardinality(BuffersOf(d))
          /\ Cardinality(BuffersOf(d) \ G) =
                Cardinality(BuffersOf(d)) - Cardinality(BuffersOf(d) \cap G)
        BY CountLess, FiniteHolders
    <2>4. pixmap_refcnt[d] = Cardinality(BuffersOf(d)) + (IF d \in windows THEN 1 ELSE 0)
        BY DEF BufferInv
    <2>5. pixmap_refcnt'[d] = pixmap_refcnt[d] - Cardinality(BuffersOf(d) \cap G)
             - (IF d \in W THEN 1 ELSE 0)
        BY <1>1, <2>1
    <2>6. (d \in windows') <=> (d \in windows /\ d \notin W)
        OBVIOUS
    <2>. QED
        BY <2>2, <2>3, <2>4, <2>5, <2>6
<1>6. /\ buffer' \in [Buffers -> [refcnt : Nat, window : Drawables \cup {None}]]
      /\ pixmap_refcnt' \in [Drawables -> Nat]
    <2>1. DOMAIN buffer' = Buffers /\ DOMAIN pixmap_refcnt' = Drawables
        BY <1>1
    <2>2. buffer' = [b \in Buffers |-> buffer'[b]] /\ pixmap_refcnt' = [d \in Drawables |-> pixmap_refcnt'[d]]
        BY <1>1
    <2>. QED
        BY <1>3, <1>5, <2>2
<1>. QED
    BY <1>3, <1>4, <1>5, <1>6 DEF BufferInv

-----------------------------------------------------------------------------
(* The types of what the conversions of frame counts compute.              *)

LEMMA ModFact ==
    ASSUME NEW x \in Int
    PROVE  x % Wrap \in 0..(Wrap - 1) /\ Signed(x) \in Int
<1>1. x % Wrap \in 0..(Wrap - 1)
    BY Dri2Assumption
<1>2. Signed(x) = x % Wrap \/ Signed(x) = (x % Wrap) - Wrap
    BY DEF Signed
<1>. QED
    BY <1>1, <1>2, Dri2Assumption

LEMMA CrtcType ==
    ASSUME NEW k \in Crtcs, NEW x \in Int
    PROVE  ToCrtcMsc(k, x).crtc \in Crtcs /\ ToCrtcMsc(k, x).msc \in Int
<1>. DEFINE s == (x + k.offset) % Wrap
            h == IF Signed(s - k.prev) < - (Wrap \div 4) THEN k.high + Wrap ELSE k.high
<1>1. s \in 0..(Wrap - 1)
    BY ModFact DEF Crtcs
<1>2. h \in Nat
    BY Dri2Assumption DEF Crtcs
<1>3. ToCrtcMsc(k, x) = [crtc |-> [k EXCEPT !.prev = s, !.high = h], msc |-> h + s]
    BY DEF ToCrtcMsc
<1>. HIDE DEF s, h
<1>4. [k EXCEPT !.prev = s, !.high = h] \in Crtcs
    BY <1>1, <1>2 DEF Crtcs
<1>5. h + s \in Int
    BY <1>1, <1>2
<1>. QED
    BY <1>3, <1>4, <1>5

LEMMA KernelType ==
    ASSUME NEW k \in Crtcs, NEW x \in Int, frame \in Nat
    PROVE  ToKernelMsc(k, x).crtc \in Crtcs /\ ToKernelMsc(k, x).sequence \in 0..(Wrap - 1)
<1>. DEFINE now   == ToCrtcMsc(k, frame % Wrap)
            diff  == x - now.msc
            moved == now.crtc.offset + Signed(diff)
            kept  == IF moved > - MaxOffset /\ moved < MaxOffset THEN 0 ELSE moved
            c     == IF diff < - MaxOffset \/ diff > MaxOffset
                     THEN [now.crtc EXCEPT !.offset = kept] ELSE now.crtc
<1>1. frame % Wrap \in Int
    BY ModFact
<1>2. now.crtc \in Crtcs /\ now.msc \in Int
    BY <1>1, CrtcType
<1>3. ToKernelMsc(k, x) = [crtc |-> c, sequence |-> (x - c.offset) % Wrap]
    BY DEF ToKernelMsc
<1>. HIDE DEF now
<1>4. diff \in Int /\ Signed(diff) \in Int
    BY <1>2, ModFact
<1>5. now.crtc.offset \in Int
    BY <1>2 DEF Crtcs
<1>. HIDE DEF diff
<1>6. kept \in Int
    BY <1>4, <1>5
<1>. HIDE DEF moved, kept
<1>7. c \in Crtcs
    BY <1>2, <1>6 DEF Crtcs
<1>8. x - c.offset \in Int
    BY <1>7 DEF Crtcs
<1>. HIDE DEF c
<1>. QED
    BY <1>3, <1>7, <1>8, ModFact

LEMMA RequestedType ==
    ASSUME NEW kind \in {"wait", "swap"}, NEW current \in Int, NEW target \in Int,
           NEW eq \in Equations
    PROVE  Requested(kind, current, target, eq) \in Int
<1>1. eq.divisor \in Nat /\ eq.remainder \in Nat
    BY Dri2Assumption
<1>2. CASE current < target
    BY <1>2 DEF Requested
<1>3. CASE ~ (current < target) /\ eq.divisor = 0
    <2>1. Requested(kind, current, target, eq) = current
        BY <1>3 DEF Requested
    <2>. QED
        BY <2>1
<1>4. CASE ~ (current < target) /\ eq.divisor # 0
    <2>. DEFINE m == current % eq.divisor
                first == current - m + eq.remainder
    <2>1. m \in Int
        BY <1>1, <1>4
    <2>. HIDE DEF m
    <2>2. first \in Int /\ first + eq.divisor \in Int
        BY <1>1, <2>1
    <2>3. Requested(kind, current, target, eq) \in {first, first + eq.divisor}
        BY <1>4 DEF Requested, m
    <2>. QED
        BY <2>2, <2>3
<1>. QED
    BY <1>2, <1>3, <1>4

LEMMA TimingType ==
    ASSUME crtc \in Crtcs, frame \in Nat, NEW kind \in {"wait", "swap"}, NEW t \in Targets,
           NEW eq \in Equations
    PROVE  /\ Target(t) \in Nat
           /\ Timing(kind, Target(t), eq).crtc \in Crtcs
           /\ Timing(kind, Target(t), eq).at \in Nat
<1>1. frame % Wrap \in Int
    BY ModFact
<1>2. ToCrtcMsc(crtc, frame % Wrap).crtc \in Crtcs /\ ToCrtcMsc(crtc, frame % Wrap).msc \in Int
    BY <1>1, CrtcType
<1>3. Target(t) \in Nat
    <2>1. t \in Int
        BY Dri2Assumption
    <2>. QED
        BY <1>2, <2>1 DEF Target
<1>. DEFINE r == Requested(kind, ToCrtcMsc(crtc, frame % Wrap).msc, Target(t), eq)
            k == ToKernelMsc(ToCrtcMsc(crtc, frame % Wrap).crtc, r)
<1>4. r \in Int
    <2>1. Target(t) \in Int
        BY <1>3
    <2>. QED
        BY <1>2, <2>1, RequestedType
<1>. HIDE DEF r
<1>5. k.crtc \in Crtcs /\ k.sequence \in 0..(Wrap - 1)
    BY <1>2, <1>4, KernelType
<1>6. Timing(kind, Target(t), eq) = [crtc |-> k.crtc, at |-> SentAt(kind, k.sequence)]
    BY DEF Timing, r
<1>. HIDE DEF k
<1>7. SentAt(kind, k.sequence) \in Nat
    <2>1. Signed(k.sequence - frame) \in Int
        BY <1>5, ModFact
    <2>. QED
        BY <2>1 DEF SentAt
<1>. QED
    BY <1>3, <1>5, <1>6, <1>7

-----------------------------------------------------------------------------
(* Pieces of the steps.                                                    *)

\* Steps that leave events, buffers and drawables alone.
LEMMA Calm ==
    ASSUME EventsTracked, BufferInv, clients \subseteq clients',
           UNCHANGED <<links, buffers, windows, after_free>>
    PROVE  EventsTracked' /\ BufferInv'
<1>1. /\ Live' = Live
      /\ \A e : Held(e)' = Held(e)
    BY DEF links, Live, Held
<1>2. EventsTracked'
    BY <1>1 DEF EventsTracked, links
<1>3. /\ \A b : HeldBy(b)' = HeldBy(b) /\ AttachedTo(b)' = AttachedTo(b)
      /\ \A d : BuffersOf(d)' = BuffersOf(d)
    BY <1>1 DEF HeldBy, AttachedTo, BuffersOf, buffers
<1>4. BufferInv'
    BY <1>3 DEF BufferInv, buffers
<1>. QED
    BY <1>2, <1>4

\* Nothing is held by an address that is free.
LEMMA LiveFact ==
    ASSUME info \in [Events -> FrameEvents \cup {None}]
    PROVE  /\ \A e \in Events : e \in Live <=> info[e] \in FrameEvents
           /\ \A e \in Events \ Live : info[e] = None /\ Held(e) = {}
           /\ \A e \in Live : Held(e) \subseteq Buffers
<1>1. None \notin FrameEvents
    BY Dri2Assumption
<1>2. \A e \in Live : Held(e) \subseteq Buffers
    BY DEF Held, Live, FrameEvents
<1>. QED
    BY <1>1, <1>2 DEF Live, Held

\* The events F go: the lists, and the references they held.
LEMMA DelFact ==
    ASSUME TypeInv, EventsTracked, BufferInv, NEW F \in SUBSET Live,
           NEW C \in SUBSET F, DelFrameEvents(F, C), UNCHANGED windows
    PROVE  /\ info' \in [Events -> FrameEvents \cup {None}]
           /\ client_list' \in [Clients -> SUBSET Events]
           /\ drawable_list' \in [Drawables -> SUBSET Events]
           /\ Live' = Live \ F /\ \A e \in Live' : info'[e] = info[e]
           /\ "free" \notin after_free' /\ after_free' \subseteq {"free", "write"}
           /\ \A c \in Clients : client_list'[c] = {e \in Live' : info'[e].client = c}
           /\ \A d \in Drawables : drawable_list'[d] = {e \in Live' : info'[e].drawable = d}
           /\ BufferInv'
<1>1. /\ info' = [e \in Events |-> IF e \in F THEN None ELSE info[e]]
      /\ client_list' = [c \in Clients |-> client_list[c] \ F]
      /\ drawable_list' = [d \in Drawables |-> drawable_list[d] \ F]
      /\ after_free' = after_free \cup {"free" : e \in {e \in F : info[e] = None}}
                                  \cup {"write" : e \in F \cap C}
      /\ PutBuffers(F, {}, {}) /\ UNCHANGED attached
    <2>1. F \cup C = F /\ \A e : e \in C => e \in F
        OBVIOUS
    <2>. QED
        BY <2>1 DEF DelFrameEvents
<1>2. /\ info \in [Events -> FrameEvents \cup {None}]
      /\ client_list \in [Clients -> SUBSET Events]
      /\ drawable_list \in [Drawables -> SUBSET Events]
    BY DEF TypeInv
<1>3. /\ info' \in [Events -> FrameEvents \cup {None}]
      /\ client_list' \in [Clients -> SUBSET Events]
      /\ drawable_list' \in [Drawables -> SUBSET Events]
    BY <1>1, <1>2
<1>4. Live' = Live \ F /\ \A e \in Live' : info'[e] = info[e]
    BY <1>1 DEF Live
<1>5. "free" \notin after_free' /\ after_free' \subseteq {"free", "write"}
    <2>1. {e \in F : info[e] = None} = {}
        BY DEF Live
    <2>2. after_free \subseteq {"free", "write"} /\ "free" \notin after_free
        BY DEF TypeInv, EventsTracked
    <2>. QED
        BY <1>1, <2>1, <2>2
<1>6. \A c \in Clients : client_list'[c] = {e \in Live' : info'[e].client = c}
    BY <1>1, <1>4 DEF EventsTracked
<1>7. \A d \in Drawables : drawable_list'[d] = {e \in Live' : info'[e].drawable = d}
    BY <1>1, <1>4 DEF EventsTracked
<1>8. \A e \in Live' : Held(e)' = Held(e)
    BY <1>4 DEF Held
<1>9. \A b \in Buffers : /\ HeldBy(b)' = HeldBy(b) \ F
                         /\ {e \in F : b \in Held(e)} = HeldBy(b) \cap F
                         /\ AttachedTo(b)' = AttachedTo(b)
                         /\ Cardinality(AttachedTo(b)) \in Nat
    BY <1>1, <1>4, <1>8, FiniteHolders DEF HeldBy, AttachedTo
<1>10. BufferInv'
    <2>1. windows \subseteq Drawables /\ windows' = windows \ {}
        BY DEF TypeInv
    <2>2. \A d \in Drawables : attached'[d]["front"] # None =>
             attached'[d]["front"] # attached'[d]["back"]
        BY <1>1 DEF BufferInv
    <2>3. \A b \in Buffers : Cardinality(AttachedTo(b)') =
             Cardinality(AttachedTo(b)) - (IF b \in {} THEN 1 ELSE 0)
        BY <1>9
    <2>. QED
        BY <1>1, <1>9, <2>1, <2>2, <2>3, PutFact
<1>. QED
    BY <1>3, <1>4, <1>5, <1>6, <1>7, <1>10

-----------------------------------------------------------------------------
(* The steps keep TrackInv.                                                *)

\* The number of the next entry is new.
LEMMA NextFact ==
    ASSUME TypeInv, NumbersInv, EnoughNumbers, MoreToCome
    PROVE  /\ NextSeq \in 1..(Wrap - 1) /\ NextSeq <= Len(asked) + 1
           /\ (NextSeq + 1) % Wrap = NextSeq + 1 /\ NextSeq + 1 \in 0..(Wrap - 1)
           /\ Len(asked) \in Nat
<1>1. /\ drm_seq \in 0..(Wrap - 1) /\ Len(asked) \in Nat /\ drm_seq <= Len(asked) + 1
      /\ Len(asked) < MaxRequests /\ MaxRequests + 1 < Wrap
    BY DEF TypeInv, NumbersInv, EnoughNumbers, MoreToCome
<1>2. NextSeq \in 1..(Wrap - 1) /\ NextSeq <= Len(asked) + 1
    BY <1>1, Dri2Assumption DEF NextSeq
<1>3. NextSeq + 1 \in 0..(Wrap - 1)
    BY <1>1, <1>2, Dri2Assumption
<1>4. \A x \in 0..(Wrap - 1) : x % Wrap = x
    BY Dri2Assumption
<1>. QED
    BY <1>1, <1>2, <1>3, <1>4

LEMMA EntryType ==
    ASSUME NEW s \in Seq(Entries), NEW i \in DOMAIN s
    PROVE  s[i] \in Entries /\ s[i].seq \in Nat /\ s[i].data \in Events
<1>1. s[i] \in Entries
    OBVIOUS
<1>. QED
    BY <1>1, Dri2Assumption DEF Entries

\* One more request is kept.
LEMMA AskFact ==
    ASSUME asked \in Seq(Requests), NEW x \in Requests, asked' = Append(asked, x)
    PROVE  /\ asked' \in Seq(Requests) /\ Len(asked') = Len(asked) + 1 /\ Len(asked) \in Nat
           /\ DOMAIN asked' = DOMAIN asked \cup {Len(asked) + 1}
           /\ \A r \in DOMAIN asked : asked'[r] = asked[r]
           /\ asked'[Len(asked) + 1] = x
<1>1. /\ asked' \in Seq(Requests) /\ Len(asked') = Len(asked) + 1 /\ Len(asked) \in Nat
      /\ \A r \in 1..Len(asked) : asked'[r] = asked[r]
      /\ asked'[Len(asked) + 1] = x
    OBVIOUS
<1>. QED
    BY <1>1

LEMMA OverType ==
    /\ \A s \in {"over", "astray", "early"} : Over(s) \in Requests
    /\ \A kind \in {"wait", "swap"}, c \in Clients, d \in Drawables, t \in Int :
          Pending(kind, c, d, t) \in Requests
BY DEF Over, Pending, Requests

\* The address of the next frame event is free.
LEMMA CallocFact ==
    ASSUME NEW e \in Calloc
    PROVE  e \in Events /\ info[e] = None
<1>. DEFINE F == {x \in Events : info[x] = None}
<1>1. F # {} /\ e = CHOOSE x \in F : TRUE
    BY DEF Calloc
<1>2. e \in F
    BY <1>1
<1>. QED
    BY <1>2

LEMMA ScheduleTracked ==
    ASSUME TrackInv, EnoughNumbers, NEW kind \in {"wait", "swap"}, NEW c \in Clients,
           NEW d \in Drawables, NEW t \in Targets, NEW eq \in Equations,
           Schedule(kind, c, d, t, eq)
    PROVE  TrackInv'
<1>. DEFINE new == FrameEvent(kind, c, d)
            x == Timing(kind, Target(t), eq)
            q(e) == [seq |-> NextSeq, data |-> e]
<1>1. PICK e \in Calloc :
         /\ info' = [info EXCEPT ![e] = new]
         /\ client_list' = [client_list EXCEPT ![c] = @ \cup {e}]
         /\ drawable_list' = [drawable_list EXCEPT ![d] = @ \cup {e}]
         /\ queue' = <<q(e)>> \o queue
         /\ buffer' = [b \in Buffers |-> [buffer[b] EXCEPT !.refcnt =
               IF b \in {new.front, new.back} THEN @ + 1 ELSE @]]
    BY DEF Schedule, Enqueue
<1>2. /\ MayAsk(kind, c, d)
      /\ drm_seq' = (NextSeq + 1) % Wrap
      /\ kernel' = kernel \cup {[seq |-> NextSeq, at |-> x.at]}
      /\ crtc' = ToCrtcMsc(x.crtc, x.at % Wrap).crtc
      /\ asked' = Append(asked, Pending(kind, c, d, Target(t)))
      /\ UNCHANGED <<attached, pixmap_refcnt, clients, windows, frame, after_free>>
    BY DEF Schedule
<1>3. TypeInv /\ NumbersInv /\ EventsTracked /\ BufferInv
    BY DEF TrackInv
<1>4. MoreToCome /\ c \in clients /\ d \in windows
    BY <1>2 DEF MayAsk
<1>5. /\ NextSeq \in 1..(Wrap - 1) /\ NextSeq <= Len(asked) + 1
      /\ drm_seq' = NextSeq + 1 /\ drm_seq' \in 0..(Wrap - 1) /\ Len(asked) \in Nat
    BY <1>2, <1>3, <1>4, NextFact
<1>6. /\ e \in Events /\ e \notin Live /\ info[e] = None
    BY CallocFact DEF Live
<1>7. new \in FrameEvents /\ new.client = c /\ new.drawable = d
    <2>1. /\ attached[d]["front"] \in Buffers \cup {None} /\ attached[d]["back"] \in Buffers \cup {None}
        BY <1>3 DEF TypeInv, Ends
    <2>2. Len(asked) + 1 \in Nat
        BY <1>5
    <2>. QED
        BY <2>1, <2>2 DEF FrameEvent, FrameEvents
<1>8. None \notin FrameEvents /\ None \notin Buffers /\ None \notin Drawables
    BY Dri2Assumption
<1>9. /\ Target(t) \in Nat /\ x.at \in Nat /\ x.crtc \in Crtcs
    BY <1>3, TimingType DEF TypeInv
<1>. HIDE DEF new, x
<1>10. /\ info' \in [Events -> FrameEvents \cup {None}]
       /\ info'[e] = new /\ \A f \in Events \ {e} : info'[f] = info[f]
       /\ client_list' \in [Clients -> SUBSET Events]
       /\ drawable_list' \in [Drawables -> SUBSET Events]
    BY <1>1, <1>3, <1>6, <1>7 DEF TypeInv
<1>11. Live' = Live \cup {e}
    BY <1>6, <1>7, <1>8, <1>10 DEF Live
<1>12. /\ queue' \in Seq(Entries) /\ Distinct(queue')
       /\ DataOf(queue') = Live'
       /\ \A i \in DOMAIN queue' : queue'[i].seq <= NextSeq
    <2>1. queue \in Seq(Entries) /\ Distinct(queue) /\ DataOf(queue) = Live
        BY <1>3 DEF TypeInv, EventsTracked, Distinct, DataOf
    <2>2. q(e) \in Entries /\ q(e).seq = NextSeq /\ q(e).data = e
        BY <1>5, <1>6 DEF Entries
    <2>3. ASSUME NEW i \in DOMAIN queue
          PROVE  queue[i].seq # NextSeq /\ queue[i].data # e /\ queue[i].seq <= NextSeq
        <3>1. queue[i].seq \in Nat
            BY <2>1, EntryType
        <3>2. queue[i].seq < NextSeq /\ queue[i].data \in Live
            BY <1>3, <2>1 DEF NumbersInv, DataOf
        <3>3. queue[i].data # e
            BY <1>6, <3>2
        <3>4. NextSeq \in Nat
            BY <1>5
        <3>. QED
            BY <3>1, <3>2, <3>3, <3>4
    <2>. HIDE DEF q
    <2>4. /\ queue' \in Seq(Entries)
          /\ Distinct(queue')
          /\ DataOf(queue') = DataOf(queue) \cup {q(e).data}
          /\ \A i \in DOMAIN queue' : queue'[i] = q(e) \/ \E j \in DOMAIN queue : queue'[i] = queue[j]
        <3>1. PICK y \in Entries : y = q(e)
            BY <2>2
        <3>2. queue' = <<y>> \o queue
            BY <1>1, <3>1 DEF q
        <3>3. \A i \in DOMAIN queue : queue[i].seq # y.seq /\ queue[i].data # y.data
            BY <2>2, <2>3, <3>1
        <3>4. /\ <<y>> \o queue \in Seq(Entries)
              /\ Distinct(<<y>> \o queue)
              /\ DataOf(<<y>> \o queue) = DataOf(queue) \cup {y.data}
              /\ \A i \in DOMAIN (<<y>> \o queue) :
                    (<<y>> \o queue)[i] = y \/ \E j \in DOMAIN queue : (<<y>> \o queue)[i] = queue[j]
            BY <2>1, <3>3, EnqueueFact
        <3>5. /\ queue' \in Seq(Entries)
              /\ DataOf(queue') = DataOf(queue) \cup {y.data}
              /\ \A i \in DOMAIN queue' : queue'[i] = y \/ \E j \in DOMAIN queue : queue'[i] = queue[j]
            BY <3>2, <3>4
        <3>6. Distinct(queue')
            BY <3>2, <3>4
        <3>. QED
            BY <3>1, <3>5, <3>6
    <2>5. ASSUME NEW i \in DOMAIN queue' PROVE queue'[i].seq <= NextSeq
        <3>1. NextSeq \in Nat
            BY <1>5
        <3>2. CASE queue'[i] = q(e)
            BY <2>2, <3>1, <3>2
        <3>3. CASE \E j \in DOMAIN queue : queue'[i] = queue[j]
            BY <2>3, <3>3
        <3>. QED
            BY <2>4, <3>2, <3>3
    <2>. QED
        BY <1>11, <2>1, <2>2, <2>4, <2>5
<1>13. /\ asked' \in Seq(Requests) /\ Len(asked') = Len(asked) + 1
    <2>1. Pending(kind, c, d, Target(t)) \in Requests
        BY <1>9, OverType
    <2>. QED
        BY <1>2, <1>3, <2>1, AskFact DEF TypeInv
<1>14. TypeInv'
    <2>1. crtc' \in Crtcs
        <3>1. x.at % Wrap \in Int
            BY <1>9, ModFact
        <3>. QED
            BY <1>2, <1>9, <3>1, CrtcType
    <2>2. kernel' \subseteq [seq : 1..(Wrap - 1), at : Nat]
        BY <1>2, <1>3, <1>5, <1>9 DEF TypeInv
    <2>3. frame' \in Nat /\ after_free' \subseteq {"free", "write"} /\ clients' \subseteq Clients
          /\ windows' \subseteq Drawables /\ attached' \in [Drawables -> [Ends -> Buffers \cup {None}]]
        BY <1>2, <1>3 DEF TypeInv
    <2>. QED
        BY <1>5, <1>10, <1>12, <1>13, <2>1, <2>2, <2>3 DEF TypeInv
<1>15. NumbersInv'
    <2>1. Len(asked') <= MaxRequests
        BY <1>4, <1>5, <1>13, Dri2Assumption DEF MoreToCome
    <2>2. NextSeq' = NextSeq + 1
        BY <1>5 DEF NextSeq
    <2>3. ASSUME NEW v \in kernel' PROVE v.seq < NextSeq + 1
        <3>1. CASE v \in kernel
            <4>1. v.seq \in Nat /\ v.seq < NextSeq
                BY <1>3, <3>1 DEF TypeInv, NumbersInv
            <4>. QED
                BY <1>5, <4>1
        <3>2. CASE v \notin kernel
            <4>1. v.seq = NextSeq
                BY <1>2, <3>2
            <4>. QED
                BY <1>5, <4>1
        <3>. QED
            BY <3>1, <3>2
    <2>4. ASSUME NEW i \in DOMAIN queue' PROVE queue'[i].seq < NextSeq + 1
        <3>1. queue'[i].seq \in Nat
            BY <1>12, EntryType
        <3>. QED
            BY <1>5, <1>12, <3>1
    <2>5. drm_seq' <= Len(asked') + 1
        BY <1>5, <1>13
    <2>. QED
        BY <2>1, <2>2, <2>3, <2>4, <2>5 DEF NumbersInv
<1>16. EventsTracked'
    <2>1. "free" \notin after_free'
        BY <1>2, <1>3 DEF EventsTracked
    <2>2. ASSUME NEW k \in Clients PROVE client_list'[k] = {f \in Live' : info'[f].client = k}
        <3>1. client_list[k] = {f \in Live : info[f].client = k}
            BY <1>3 DEF EventsTracked
        <3>2. client_list'[k] = IF k = c THEN client_list[k] \cup {e} ELSE client_list[k]
            BY <1>1, <1>3 DEF TypeInv
        <3>3. \A f \in Live : f # e /\ info'[f] = info[f]
            BY <1>6, <1>10 DEF Live
        <3>. QED
            BY <1>7, <1>10, <1>11, <3>1, <3>2, <3>3
    <2>3. ASSUME NEW k \in Drawables PROVE drawable_list'[k] = {f \in Live' : info'[f].drawable = k}
        <3>1. drawable_list[k] = {f \in Live : info[f].drawable = k}
            BY <1>3 DEF EventsTracked
        <3>2. drawable_list'[k] = IF k = d THEN drawable_list[k] \cup {e} ELSE drawable_list[k]
            BY <1>1, <1>3 DEF TypeInv
        <3>3. \A f \in Live : f # e /\ info'[f] = info[f]
            BY <1>6, <1>10 DEF Live
        <3>. QED
            BY <1>7, <1>10, <1>11, <3>1, <3>2, <3>3
    <2>4. ASSUME NEW f \in Live'
          PROVE  info'[f].client \in clients' /\ info'[f].drawable \in windows' \cup {None}
        <3>1. CASE f = e
            BY <1>2, <1>4, <1>7, <1>10, <3>1
        <3>2. CASE f # e
            <4>1. f \in Live /\ info'[f] = info[f]
                BY <1>10, <1>11, <3>2 DEF Live
            <4>. QED
                BY <1>2, <1>3, <4>1 DEF EventsTracked
        <3>. QED
            BY <3>1, <3>2
    <2>. QED
        BY <1>12, <2>1, <2>2, <2>3, <2>4 DEF EventsTracked, Distinct, DataOf
<1>17. BufferInv'
    <2>1. \A f \in Live : f # e /\ Held(f)' = Held(f)
        BY <1>6, <1>10 DEF Live, Held
    <2>2. Held(e)' = {new.front, new.back} \ {None}
        BY <1>7, <1>8, <1>10 DEF Held
    <2>3. ASSUME NEW b \in Buffers
          PROVE  /\ buffer'[b] \in [refcnt : Nat, window : Drawables \cup {None}]
                 /\ buffer'[b].window = buffer[b].window
                 /\ buffer'[b].refcnt = 0 => buffer'[b] = NoBuffer
                 /\ buffer'[b].refcnt = Cardinality(AttachedTo(b)') + Cardinality(HeldBy(b)')
        <3>1. /\ buffer[b] \in [refcnt : Nat, window : Drawables \cup {None}]
              /\ buffer[b].refcnt = Cardinality(AttachedTo(b)) + Cardinality(HeldBy(b))
              /\ buffer[b].refcnt = 0 => buffer[b] = NoBuffer
            BY <1>3 DEF BufferInv
        <3>2. /\ IsFiniteSet(HeldBy(b)) /\ Cardinality(HeldBy(b)) \in Nat
              /\ Cardinality(AttachedTo(b)) \in Nat
            BY FiniteHolders
        <3>3. AttachedTo(b)' = AttachedTo(b)
            BY <1>2 DEF AttachedTo
        <3>4. CASE b \in {new.front, new.back}
            <4>1. buffer'[b] = [buffer[b] EXCEPT !.refcnt = @ + 1]
                BY <1>1, <3>4
            <4>2. HeldBy(b)' = HeldBy(b) \cup {e}
                BY <1>8, <1>11, <2>1, <2>2, <3>4 DEF HeldBy
            <4>3. e \notin HeldBy(b)
                BY <1>6 DEF HeldBy
            <4>4. Cardinality(HeldBy(b)') = Cardinality(HeldBy(b)) + 1
                BY <3>2, <4>2, <4>3, FS_AddElement
            <4>. QED
                BY <3>1, <3>2, <3>3, <4>1, <4>4
        <3>5. CASE b \notin {new.front, new.back}
            <4>1. buffer'[b] = [buffer[b] EXCEPT !.refcnt = @]
                BY <1>1, <3>5
            <4>2. HeldBy(b)' = HeldBy(b)
                BY <1>11, <2>1, <2>2, <3>5 DEF HeldBy
            <4>. QED
                BY <3>1, <3>3, <4>1, <4>2
        <3>. QED
            BY <3>4, <3>5
    <2>4. buffer' \in [Buffers -> [refcnt : Nat, window : Drawables \cup {None}]]
        <3>1. buffer' = [b \in Buffers |-> buffer'[b]]
            BY <1>1
        <3>. QED
            BY <2>3, <3>1
    <2>5. \A k : BuffersOf(k)' = BuffersOf(k)
        BY <2>3 DEF BuffersOf
    <2>. QED
        BY <1>2, <1>3, <2>3, <2>4, <2>5 DEF BufferInv
<1>. QED
    BY <1>14, <1>15, <1>16, <1>17 DEF TrackInv

LEMMA CreateBuffersTracked ==
    ASSUME TrackInv, NEW d \in Drawables, CreateBuffers(d)
    PROVE  TrackInv'
<1>. DEFINE unused == {b \in Buffers : buffer[b] = NoBuffer}
            new == CHOOSE f \in [Ends -> unused] : IsInjective(f)
<1>1. /\ d \in windows /\ \A x \in Ends : attached[d][x] = None
      /\ Cardinality(unused) >= Cardinality(Ends)
      /\ attached' = [attached EXCEPT ![d] = new]
      /\ buffer' = [buffer EXCEPT ![new["front"]] = [refcnt |-> 1, window |-> d],
                                  ![new["back"]] = [refcnt |-> 1, window |-> None]]
      /\ pixmap_refcnt' = [pixmap_refcnt EXCEPT ![d] = @ + 1]
      /\ UNCHANGED <<links, drm_seq, crtc, outside, asked, after_free>>
    BY DEF CreateBuffers, FrontRef
<1>2. TypeInv /\ NumbersInv /\ EventsTracked /\ BufferInv
    BY DEF TrackInv
<1>3. new \in [Ends -> unused] /\ IsInjective(new)
    <2>1. IsFiniteSet(unused)
        BY Dri2Assumption, FS_Subset
    <2>2. IsFiniteSet(Ends) /\ Cardinality(Ends) = 2
        <3>1. Ends = {"front"} \cup {"back"} /\ "back" \notin {"front"}
            BY DEF Ends
        <3>2. IsFiniteSet({"front"}) /\ Cardinality({"front"}) = 1
            BY FS_Singleton
        <3>. QED
            BY <3>1, <3>2, FS_AddElement
    <2>3. \E f \in [Ends -> unused] : IsInjective(f)
        <3>1. unused # {}
            <4>1. Cardinality(unused) # 0
                BY <1>1, <2>2
            <4>. HIDE DEF unused
            <4>. QED
                BY <2>1, <4>1, FS_EmptySet
        <3>2. PICK a \in unused : TRUE
            BY <3>1
        <3>3. unused # {a}
            <4>1. Cardinality({a}) = 1
                BY FS_Singleton
            <4>2. Cardinality(unused) >= 2
                BY <1>1, <2>2
            <4>. QED
                BY <4>1, <4>2
        <3>4. PICK b \in unused : b # a
            BY <3>2, <3>3
        <3>. DEFINE f == [x \in Ends |-> IF x = "front" THEN a ELSE b]
        <3>5. f \in [Ends -> unused] /\ IsInjective(f)
            BY <3>2, <3>4 DEF Ends, IsInjective
        <3>. QED
            BY <3>5
    <2>. HIDE DEF unused
    <2>. QED
        BY <2>3
<1>. HIDE DEF new
<1>. DEFINE f == new["front"]
            b == new["back"]
<1>4. /\ f \in Buffers /\ b \in Buffers /\ f # b
      /\ buffer[f] = NoBuffer /\ buffer[b] = NoBuffer
    BY <1>3 DEF Ends, IsInjective
<1>5. None \notin Buffers /\ None \notin Drawables
    BY Dri2Assumption
<1>6. /\ attached \in [Drawables -> [Ends -> Buffers \cup {None}]]
      /\ buffer \in [Buffers -> [refcnt : Nat, window : Drawables \cup {None}]]
      /\ pixmap_refcnt \in [Drawables -> Nat]
    BY <1>2 DEF TypeInv, BufferInv
<1>7. /\ attached'[d] = new /\ \A k \in Drawables \ {d} : attached'[k] = attached[k]
      /\ attached' \in [Drawables -> [Ends -> Buffers \cup {None}]]
    BY <1>1, <1>3, <1>6
<1>. HIDE DEF f, b
<1>8. /\ buffer'[f] = [refcnt |-> 1, window |-> d]
      /\ buffer'[b] = [refcnt |-> 1, window |-> None]
      /\ \A x \in Buffers \ {f, b} : buffer'[x] = buffer[x]
      /\ buffer' \in [Buffers -> [refcnt : Nat, window : Drawables \cup {None}]]
    BY <1>1, <1>4, <1>6 DEF f, b
<1>9. TypeInv'
    BY <1>1, <1>2, <1>7 DEF TypeInv, links, outside
<1>10. NumbersInv'
    BY <1>1, <1>2 DEF NumbersInv, links, outside, NextSeq
<1>11. EventsTracked' /\ Live' = Live /\ \A x \in Buffers : HeldBy(x)' = HeldBy(x)
    <2>1. Live' = Live /\ \A e : Held(e)' = Held(e)
        BY <1>1 DEF links, Live, Held
    <2>2. EventsTracked'
        BY <1>1, <1>2, <2>1 DEF EventsTracked, links, outside
    <2>. QED
        BY <2>1, <2>2 DEF HeldBy
<1>12. ASSUME NEW x \in Buffers
       PROVE  buffer'[x].refcnt = Cardinality(AttachedTo(x)') + Cardinality(HeldBy(x)')
    <2>1. /\ buffer[x].refcnt = Cardinality(AttachedTo(x)) + Cardinality(HeldBy(x))
          /\ IsFiniteSet(AttachedTo(x)) /\ Cardinality(AttachedTo(x)) \in Nat
          /\ Cardinality(HeldBy(x)) \in Nat
        BY <1>2, FiniteHolders DEF BufferInv
    <2>2. ASSUME NEW y \in Ends PROVE attached'[d][y] = new[y] /\ attached[d][y] = None
        BY <1>1, <1>7
    <2>3. CASE x \notin {f, b}
        <3>1. AttachedTo(x)' = AttachedTo(x)
            <4>1. new["front"] # x /\ new["back"] # x
                BY <2>3 DEF f, b
            <4>2. \A p \in Drawables \X Ends : attached'[p[1]][p[2]] = x <=> attached[p[1]][p[2]] = x
                BY <1>5, <1>7, <2>2, <4>1 DEF Ends
            <4>. QED
                BY <4>2 DEF AttachedTo
        <3>. QED
            BY <1>8, <1>11, <2>1, <2>3, <3>1
    <2>4. ASSUME NEW y \in Ends, x = new[y]
          PROVE  Cardinality(AttachedTo(x)') = 1 /\ Cardinality(HeldBy(x)) = 0
        <3>1. buffer[x].refcnt = 0
            BY <1>3, <2>4 DEF NoBuffer
        <3>2. Cardinality(AttachedTo(x)) = 0 /\ Cardinality(HeldBy(x)) = 0
            BY <2>1, <3>1
        <3>3. AttachedTo(x) = {}
            BY <2>1, <3>2, FS_EmptySet
        <3>4. \A p \in Drawables \X Ends : attached'[p[1]][p[2]] = x <=> p = <<d, y>>
            <4>1. ASSUME NEW k \in Drawables, NEW z \in Ends PROVE attached[k][z] # x
                <5>1. <<k, z>> \notin AttachedTo(x)
                    BY <3>3
                <5>. QED
                    BY <5>1 DEF AttachedTo
            <4>2. \A z \in Ends : new[z] = x <=> z = y
                BY <1>3, <2>4 DEF IsInjective
            <4>3. ASSUME NEW k \in Drawables, NEW z \in Ends
                  PROVE  attached'[k][z] = x <=> (k = d /\ z = y)
                BY <1>7, <4>1, <4>2
            <4>. QED
                BY <4>3
        <3>5. AttachedTo(x)' = {<<d, y>>}
            BY <3>4 DEF AttachedTo
        <3>. QED
            BY <3>2, <3>5, FS_Singleton
    <2>5. CASE x \in {f, b}
        <3>1. Cardinality(AttachedTo(x)') = 1 /\ Cardinality(HeldBy(x)) = 0
            BY <2>4, <2>5 DEF f, b, Ends
        <3>2. buffer'[x].refcnt = 1
            BY <1>8, <2>5
        <3>. QED
            BY <1>11, <3>1, <3>2
    <2>. QED
        BY <2>3, <2>5
<1>13. \A x \in Buffers : buffer'[x].refcnt = 0 => buffer'[x] = NoBuffer
    BY <1>2, <1>8 DEF BufferInv
<1>14. ASSUME NEW k \in Drawables
       PROVE  /\ pixmap_refcnt'[k] \in Nat
              /\ pixmap_refcnt'[k] = Cardinality(BuffersOf(k)') + (IF k \in windows' THEN 1 ELSE 0)
    <2>1. /\ pixmap_refcnt[k] = Cardinality(BuffersOf(k)) + (IF k \in windows THEN 1 ELSE 0)
          /\ pixmap_refcnt[k] \in Nat /\ windows' = windows
          /\ IsFiniteSet(BuffersOf(k)) /\ Cardinality(BuffersOf(k)) \in Nat
        BY <1>1, <1>2, <1>6, FiniteHolders DEF BufferInv, outside
    <2>2. f \notin BuffersOf(k) /\ b \notin BuffersOf(k)
        BY <1>4, <1>5 DEF BuffersOf, NoBuffer
    <2>3. CASE k = d
        <3>1. BuffersOf(k)' = BuffersOf(k) \cup {f}
            BY <1>4, <1>5, <1>8, <2>2, <2>3 DEF BuffersOf
        <3>2. Cardinality(BuffersOf(k)') = Cardinality(BuffersOf(k)) + 1
            BY <2>1, <2>2, <3>1, FS_AddElement
        <3>3. pixmap_refcnt'[k] = pixmap_refcnt[k] + 1
            BY <1>1, <1>6, <2>3
        <3>. QED
            BY <2>1, <3>2, <3>3
    <2>4. CASE k # d
        <3>1. BuffersOf(k)' = BuffersOf(k)
            BY <1>4, <1>5, <1>8, <2>2, <2>4 DEF BuffersOf
        <3>2. pixmap_refcnt'[k] = pixmap_refcnt[k]
            BY <1>1, <1>6, <2>4
        <3>. QED
            BY <2>1, <3>1, <3>2
    <2>. QED
        BY <2>3, <2>4
<1>15. pixmap_refcnt' \in [Drawables -> Nat]
    BY <1>1, <1>6
<1>16. \A k \in Drawables : attached'[k]["front"] # None =>
          attached'[k]["front"] # attached'[k]["back"]
    BY <1>2, <1>4, <1>7 DEF BufferInv, f, b
<1>17. BufferInv'
    BY <1>8, <1>12, <1>13, <1>14, <1>15, <1>16 DEF BufferInv
<1>. QED
    BY <1>9, <1>10, <1>11, <1>17 DEF TrackInv

\* A drawable without its buffers.
LEMMA DetachFact ==
    ASSUME BufferInv, attached \in [Drawables -> [Ends -> Buffers \cup {None}]],
           NEW d \in Drawables, attached' = [attached EXCEPT ![d] = [x \in Ends |-> None]],
           NEW B, B = {attached[d][x] : x \in Ends} \ {None}
    PROVE  /\ B \in SUBSET Buffers
           /\ \A b \in Buffers : Cardinality(AttachedTo(b)') =
                 Cardinality(AttachedTo(b)) - (IF b \in B THEN 1 ELSE 0)
           /\ \A b \in B : Cardinality(AttachedTo(b)) > 0
           /\ \A k \in Drawables : attached'[k]["front"] # None =>
                 attached'[k]["front"] # attached'[k]["back"]
           /\ attached' \in [Drawables -> [Ends -> Buffers \cup {None}]]
<1>1. B \in SUBSET Buffers
    OBVIOUS
<1>2. /\ \A x \in Ends : attached'[d][x] = None
      /\ \A k \in Drawables \ {d} : attached'[k] = attached[k]
      /\ attached' \in [Drawables -> [Ends -> Buffers \cup {None}]]
    OBVIOUS
<1>3. None \notin Buffers
    BY Dri2Assumption
<1>4. ASSUME NEW b \in Buffers
      PROVE  /\ Cardinality(AttachedTo(b)') =
                   Cardinality(AttachedTo(b)) - (IF b \in B THEN 1 ELSE 0)
             /\ b \in B => Cardinality(AttachedTo(b)) > 0
    <2>1. IsFiniteSet(AttachedTo(b)) /\ Cardinality(AttachedTo(b)) \in Nat
        BY FiniteHolders
    <2>2. ASSUME NEW k \in Drawables, NEW z \in Ends
          PROVE  attached'[k][z] = b <=> (k # d /\ attached[k][z] = b)
        BY <1>2, <1>3
    <2>3. CASE b \notin B
        <3>1. \A z \in Ends : attached[d][z] # b
            BY <1>3, <2>3
        <3>2. \A k \in Drawables, z \in Ends : attached'[k][z] = b <=> attached[k][z] = b
            BY <2>2, <3>1
        <3>3. AttachedTo(b)' = AttachedTo(b)
            BY <3>2 DEF AttachedTo
        <3>. QED
            BY <2>1, <2>3, <3>3
    <2>4. CASE b \in B
        <3>1. PICK y \in Ends : attached[d][y] = b
            BY <2>4
        <3>2. \A z \in Ends : z # y => attached[d][z] # b
            BY <1>3, <3>1 DEF BufferInv, Ends
        <3>3. ASSUME NEW p \in Drawables \X Ends
              PROVE  attached'[p[1]][p[2]] = b <=> (p # <<d, y>> /\ attached[p[1]][p[2]] = b)
            <4>1. PICK k \in Drawables, z \in Ends : p = <<k, z>>
                OBVIOUS
            <4>. QED
                BY <2>2, <3>1, <3>2, <4>1
        <3>4. AttachedTo(b)' = AttachedTo(b) \ {<<d, y>>}
            BY <3>3 DEF AttachedTo
        <3>5. <<d, y>> \in AttachedTo(b)
            BY <3>1 DEF AttachedTo
        <3>6. Cardinality(AttachedTo(b)') = Cardinality(AttachedTo(b)) - 1
            BY <2>1, <3>4, <3>5, FS_RemoveElement
        <3>7. Cardinality(AttachedTo(b)) # 0
            BY <2>1, <3>5, FS_EmptySet
        <3>. QED
            BY <2>1, <2>4, <3>6, <3>7
    <2>. QED
        BY <2>3, <2>4
<1>5. \A k \in Drawables : attached'[k]["front"] # None =>
         attached'[k]["front"] # attached'[k]["back"]
    BY <1>2 DEF BufferInv, Ends
<1>. QED
    BY <1>1, <1>2, <1>4, <1>5

LEMMA DestroyBuffersTracked ==
    ASSUME TrackInv, NEW d \in Drawables, DestroyBuffers(d)
    PROVE  TrackInv'
<1>. DEFINE B == {attached[d][x] : x \in Ends} \ {None}
<1>1. /\ PutBuffers({}, B, {})
      /\ attached' = [attached EXCEPT ![d] = [x \in Ends |-> None]]
      /\ UNCHANGED <<links, drm_seq, crtc, outside, asked, after_free>>
    BY DEF DestroyBuffers
<1>2. TypeInv /\ NumbersInv /\ EventsTracked /\ BufferInv
    BY DEF TrackInv
<1>3. /\ B \in SUBSET Buffers
      /\ \A b \in Buffers : Cardinality(AttachedTo(b)') =
            Cardinality(AttachedTo(b)) - (IF b \in B THEN 1 ELSE 0)
      /\ \A b \in B : Cardinality(AttachedTo(b)) > 0
      /\ \A k \in Drawables : attached'[k]["front"] # None =>
            attached'[k]["front"] # attached'[k]["back"]
      /\ attached' \in [Drawables -> [Ends -> Buffers \cup {None}]]
    BY <1>1, <1>2, DetachFact DEF TypeInv
<1>4. Live' = Live /\ \A e : Held(e)' = Held(e)
    BY <1>1 DEF links, Live, Held
<1>5. BufferInv'
    <2>1. \A b : HeldBy(b)' = HeldBy(b) \ {} /\ {e \in {} : b \in Held(e)} = HeldBy(b) \cap {}
        BY <1>4 DEF HeldBy
    <2>2. windows \subseteq Drawables /\ windows' = windows \ {}
        BY <1>1, <1>2 DEF TypeInv, outside
    <2>. HIDE DEF B
    <2>. QED
        BY <1>1, <1>2, <1>3, <2>1, <2>2, PutFact
<1>6. TypeInv'
    BY <1>1, <1>2, <1>3 DEF TypeInv, links, outside
<1>7. NumbersInv'
    BY <1>1, <1>2 DEF NumbersInv, links, outside, NextSeq
<1>8. EventsTracked'
    BY <1>1, <1>2, <1>4 DEF EventsTracked, links, outside
<1>. QED
    BY <1>5, <1>6, <1>7, <1>8 DEF TrackInv

\* The requests of a client or of a drawable that goes are over.
LEMMA GoneType ==
    ASSUME asked \in Seq(Requests), NEW key, NEW x, asked' = GoneBy(key, x)
    PROVE  /\ asked' \in Seq(Requests) /\ DOMAIN asked' = DOMAIN asked /\ Len(asked') = Len(asked)
           /\ \A r \in DOMAIN asked : asked'[r] =
                 IF asked[r].state = "pending" /\ asked[r][key] = x THEN Over("over") ELSE asked[r]
<1>1. Over("over") \in Requests
    BY OverType
<1>2. DOMAIN asked = 1..Len(asked) /\ Len(asked) \in Nat
    OBVIOUS
<1>3. /\ DOMAIN asked' = DOMAIN asked
      /\ \A r \in DOMAIN asked : asked'[r] =
            IF asked[r].state = "pending" /\ asked[r][key] = x THEN Over("over") ELSE asked[r]
    BY DEF GoneBy
<1>4. \A r \in DOMAIN asked : asked'[r] \in Requests
    BY <1>1, <1>3
<1>5. asked' \in [1..Len(asked) -> Requests]
    BY <1>2, <1>4 DEF GoneBy
<1>. QED
    BY <1>2, <1>3, <1>5

LEMMA DrawableGoneTracked ==
    ASSUME TrackInv, NEW d \in Drawables, DrawableGone(d)
    PROVE  TrackInv'
<1>. DEFINE B == {attached[d][x] : x \in Ends} \ {None}
<1>1. /\ d \in windows /\ windows' = windows \ {d}
      /\ info' = [e \in Events |-> IF e \in drawable_list[d]
                    THEN [info[e] EXCEPT !.drawable = None] ELSE info[e]]
      /\ drawable_list' = [drawable_list EXCEPT ![d] = {}]
      /\ PutBuffers({}, B, {d})
      /\ attached' = [attached EXCEPT ![d] = [x \in Ends |-> None]]
      /\ asked' = GoneBy("drawable", d)
      /\ UNCHANGED <<client_list, queue, drm_seq, crtc, clients, kernel, frame, after_free>>
    BY DEF DrawableGone
<1>2. TypeInv /\ NumbersInv /\ EventsTracked /\ BufferInv
    BY DEF TrackInv
<1>3. /\ B \in SUBSET Buffers
      /\ \A b \in Buffers : Cardinality(AttachedTo(b)') =
            Cardinality(AttachedTo(b)) - (IF b \in B THEN 1 ELSE 0)
      /\ \A b \in B : Cardinality(AttachedTo(b)) > 0
      /\ \A k \in Drawables : attached'[k]["front"] # None =>
            attached'[k]["front"] # attached'[k]["back"]
      /\ attached' \in [Drawables -> [Ends -> Buffers \cup {None}]]
    BY <1>1, <1>2, DetachFact DEF TypeInv
<1>. HIDE DEF B
<1>4. /\ info \in [Events -> FrameEvents \cup {None}]
      /\ drawable_list[d] = {e \in Live : info[e].drawable = d}
      /\ None \notin FrameEvents /\ None \notin Drawables
    BY <1>2, Dri2Assumption DEF TypeInv, EventsTracked
<1>5. ASSUME NEW e \in Live
      PROVE  /\ e \in Events /\ info[e] \in FrameEvents
             /\ info'[e] \in FrameEvents
             /\ info'[e].client = info[e].client
             /\ info'[e].front = info[e].front /\ info'[e].back = info[e].back
             /\ info'[e].request = info[e].request
             /\ info'[e].drawable = IF info[e].drawable = d THEN None ELSE info[e].drawable
    <2>1. e \in Events /\ info[e] \in FrameEvents
        BY <1>4 DEF Live
    <2>2. CASE info[e].drawable = d
        <3>1. info'[e] = [info[e] EXCEPT !.drawable = None]
            BY <1>1, <1>4, <2>1, <2>2
        <3>. QED
            BY <2>1, <2>2, <3>1 DEF FrameEvents
    <2>3. CASE info[e].drawable # d
        <3>1. info'[e] = info[e]
            BY <1>1, <1>4, <2>1, <2>3
        <3>. QED
            BY <2>1, <2>3, <3>1
    <2>. QED
        BY <2>2, <2>3
<1>6. \A e \in Events \ Live : info'[e] = None
    BY <1>1, <1>4 DEF Live
<1>7. Live' = Live
    <2>1. \A e \in Events : e \in Live <=> info'[e] # None
        BY <1>4, <1>5, <1>6
    <2>. QED
        BY <2>1 DEF Live
<1>8. info' \in [Events -> FrameEvents \cup {None}]
    <2>1. \A e \in Events : info'[e] \in FrameEvents \cup {None}
        BY <1>5, <1>6
    <2>2. info' = [e \in Events |-> info'[e]]
        BY <1>1
    <2>. QED
        BY <2>1, <2>2
<1>9. \A e \in Live : Held(e)' = Held(e)
    BY <1>4, <1>5 DEF Held
<1>10. BufferInv'
    <2>1. \A b : HeldBy(b)' = HeldBy(b) \ {} /\ {e \in {} : b \in Held(e)} = HeldBy(b) \cap {}
        BY <1>7, <1>9 DEF HeldBy
    <2>2. windows \subseteq Drawables /\ {d} \in SUBSET windows
        BY <1>1, <1>2 DEF TypeInv
    <2>. QED
        BY <1>1, <1>2, <1>3, <2>1, <2>2, PutFact
<1>11. asked' \in Seq(Requests) /\ Len(asked') = Len(asked)
    BY <1>1, <1>2, GoneType DEF TypeInv
<1>12. TypeInv'
    <2>1. drawable_list' \in [Drawables -> SUBSET Events] /\ windows' \subseteq Drawables
        BY <1>1, <1>2 DEF TypeInv
    <2>. QED
        BY <1>1, <1>2, <1>3, <1>8, <1>11, <2>1 DEF TypeInv
<1>13. NumbersInv'
    <2>1. queue' = queue /\ drm_seq' = drm_seq /\ kernel' = kernel
        BY <1>1
    <2>2. NumbersInv
        BY <1>2
    <2>. QED
        BY <1>11, <2>1, <2>2 DEF NumbersInv, NextSeq
<1>14. EventsTracked'
    <2>1. \A k \in Clients : client_list'[k] = {e \in Live' : info'[e].client = k}
        <3>1. \A k \in Clients : client_list[k] = {e \in Live : info[e].client = k}
            BY <1>2 DEF EventsTracked
        <3>2. \A e \in Live : info'[e].client = info[e].client
            BY <1>5
        <3>3. client_list' = client_list
            BY <1>1
        <3>. QED
            BY <1>7, <3>1, <3>2, <3>3
    <2>2. ASSUME NEW k \in Drawables
          PROVE  drawable_list'[k] = {e \in Live' : info'[e].drawable = k}
        <3>1. drawable_list'[k] = IF k = d THEN {} ELSE {e \in Live : info[e].drawable = k}
            BY <1>1, <1>2 DEF TypeInv, EventsTracked
        <3>2. \A e \in Live : info'[e].drawable = k <=> (info[e].drawable = k /\ k # d)
            BY <1>4, <1>5
        <3>. QED
            BY <1>7, <3>1, <3>2
    <2>3. ASSUME NEW e \in Live
          PROVE  info'[e].client \in clients' /\ info'[e].drawable \in windows' \cup {None}
        <3>1. info[e].client \in clients /\ info[e].drawable \in windows \cup {None}
            BY <1>2 DEF EventsTracked
        <3>2. clients' = clients /\ windows' = windows \ {d}
            BY <1>1
        <3>3. /\ info'[e].client = info[e].client
              /\ info'[e].drawable = IF info[e].drawable = d THEN None ELSE info[e].drawable
            BY <1>5
        <3>. QED
            BY <3>1, <3>2, <3>3
    <2>4. /\ "free" \notin after_free'
          /\ {queue'[i].data : i \in DOMAIN queue'} = Live'
          /\ \A i, j \in DOMAIN queue' : i # j =>
                queue'[i].seq # queue'[j].seq /\ queue'[i].data # queue'[j].data
        BY <1>1, <1>2, <1>7 DEF EventsTracked
    <2>. QED
        BY <1>7, <2>1, <2>2, <2>3, <2>4 DEF EventsTracked
<1>. QED
    BY <1>10, <1>12, <1>13, <1>14 DEF TrackInv

LEMMA CompleteAtOnceTracked ==
    ASSUME TrackInv, NEW kind, NEW c, NEW d, CompleteAtOnce(kind, c, d)
    PROVE  TrackInv'
<1>1. /\ MoreToCome /\ asked' = Append(asked, Over("over"))
      /\ UNCHANGED <<links, drm_seq, crtc, buffers, outside, after_free>>
    BY DEF CompleteAtOnce, MayAsk
<1>2. TypeInv /\ NumbersInv /\ EventsTracked /\ BufferInv
    BY DEF TrackInv
<1>3. asked' \in Seq(Requests) /\ Len(asked') = Len(asked) + 1 /\ Len(asked) \in Nat
    BY <1>1, <1>2, OverType, AskFact DEF TypeInv
<1>4. TypeInv'
    BY <1>1, <1>2, <1>3 DEF TypeInv, links, buffers, outside
<1>5. NumbersInv'
    <2>1. drm_seq \in Int
        BY <1>2 DEF TypeInv
    <2>. QED
        BY <1>1, <1>2, <1>3, <2>1, Dri2Assumption
        DEF NumbersInv, links, outside, NextSeq, MoreToCome
<1>6. EventsTracked' /\ BufferInv'
    <2>1. clients \subseteq clients' /\ UNCHANGED <<links, buffers, windows, after_free>>
        BY <1>1 DEF outside
    <2>. QED
        BY <1>2, <2>1, Calm
<1>. QED
    BY <1>4, <1>5, <1>6 DEF TrackInv

LEMMA RefusedTracked ==
    ASSUME TrackInv, EnoughNumbers, NoRefusedWait, NEW kind \in {"wait", "swap"}, NEW c, NEW d,
           NEW t \in Targets, NEW eq \in Equations, Refused(kind, c, d, t, eq)
    PROVE  TrackInv'
<1>1. /\ MoreToCome /\ queue' = queue /\ drm_seq' = (NextSeq + 1) % Wrap
      /\ crtc' = Timing(kind, Target(t), eq).crtc
      /\ asked' = Append(asked, Over("over"))
      /\ UNCHANGED <<info, client_list, drawable_list, buffers, outside, after_free>>
    BY DEF Refused, MayAsk, Leftover, NoRefusedWait
<1>2. TypeInv /\ NumbersInv /\ EventsTracked /\ BufferInv
    BY DEF TrackInv
<1>3. asked' \in Seq(Requests) /\ Len(asked') = Len(asked) + 1 /\ Len(asked) \in Nat
    BY <1>1, <1>2, OverType, AskFact DEF TypeInv
<1>4. /\ NextSeq \in 1..(Wrap - 1) /\ NextSeq <= Len(asked) + 1
      /\ drm_seq' = NextSeq + 1 /\ drm_seq' \in 0..(Wrap - 1)
    BY <1>1, <1>2, NextFact
<1>5. crtc' \in Crtcs
    BY <1>1, <1>2, TimingType DEF TypeInv, outside
<1>6. TypeInv'
    BY <1>1, <1>2, <1>3, <1>4, <1>5 DEF TypeInv, buffers, outside
<1>7. NumbersInv'
    <2>1. NextSeq' = NextSeq + 1
        BY <1>4 DEF NextSeq
    <2>2. ASSUME NEW i \in DOMAIN queue PROVE queue[i].seq < NextSeq + 1
        <3>1. queue[i].seq < NextSeq /\ queue[i].seq \in Nat
            BY <1>2, EntryType DEF NumbersInv, TypeInv
        <3>. QED
            BY <1>4, <3>1
    <2>3. ASSUME NEW v \in kernel PROVE v.seq < NextSeq + 1
        <3>1. v.seq < NextSeq /\ v.seq \in Nat
            BY <1>2 DEF NumbersInv, TypeInv
        <3>. QED
            BY <1>4, <3>1
    <2>4. Len(asked') <= MaxRequests /\ drm_seq' <= Len(asked') + 1
        BY <1>1, <1>3, <1>4, Dri2Assumption DEF MoreToCome
    <2>. QED
        BY <1>1, <2>1, <2>2, <2>3, <2>4 DEF NumbersInv, outside
<1>8. EventsTracked' /\ BufferInv'
    <2>1. clients \subseteq clients' /\ UNCHANGED <<links, buffers, windows, after_free>>
        BY <1>1 DEF links, outside
    <2>. QED
        BY <1>2, <2>1, Calm
<1>. QED
    BY <1>6, <1>7, <1>8 DEF TrackInv

LEMMA GetMscTracked ==
    ASSUME TrackInv, GetMsc
    PROVE  TrackInv'
<1>1. /\ crtc' = ToCrtcMsc(crtc, frame % Wrap).crtc
      /\ UNCHANGED <<links, drm_seq, buffers, outside, asked, after_free>>
    BY DEF GetMsc
<1>2. TypeInv /\ NumbersInv /\ EventsTracked /\ BufferInv
    BY DEF TrackInv
<1>3. crtc' \in Crtcs
    <2>1. frame % Wrap \in Int
        BY <1>2, ModFact DEF TypeInv
    <2>. QED
        BY <1>1, <1>2, <2>1, CrtcType DEF TypeInv
<1>4. TypeInv'
    BY <1>1, <1>2, <1>3 DEF TypeInv, links, buffers, outside
<1>5. NumbersInv'
    BY <1>1, <1>2 DEF NumbersInv, links, outside, NextSeq
<1>6. EventsTracked' /\ BufferInv'
    <2>1. clients \subseteq clients' /\ UNCHANGED <<links, buffers, windows, after_free>>
        BY <1>1 DEF outside
    <2>. QED
        BY <1>2, <2>1, Calm
<1>. QED
    BY <1>4, <1>5, <1>6 DEF TrackInv

LEMMA VblankTracked ==
    ASSUME TrackInv, Vblank
    PROVE  TrackInv'
<1>1. TypeInv /\ NumbersInv /\ EventsTracked /\ BufferInv
    BY DEF TrackInv
<1>2. TypeInv'
    BY <1>1 DEF Vblank, TypeInv, links, buffers
<1>3. NumbersInv'
    BY <1>1 DEF Vblank, NumbersInv, links, NextSeq
<1>4. EventsTracked' /\ BufferInv'
    BY <1>1, Calm DEF Vblank
<1>. QED
    BY <1>2, <1>3, <1>4 DEF TrackInv

LEMMA ConnectTracked ==
    ASSUME TrackInv, NEW c \in Clients, Connect(c)
    PROVE  TrackInv'
<1>1. TypeInv /\ NumbersInv /\ EventsTracked /\ BufferInv
    BY DEF TrackInv
<1>2. TypeInv'
    BY <1>1 DEF Connect, TypeInv, links, buffers
<1>3. NumbersInv'
    BY <1>1 DEF Connect, NumbersInv, links, NextSeq
<1>4. EventsTracked' /\ BufferInv'
    BY <1>1, Calm DEF Connect
<1>. QED
    BY <1>2, <1>3, <1>4 DEF TrackInv

LEMMA CreateWindowTracked ==
    ASSUME TrackInv, NEW d \in Drawables, CreateWindow(d)
    PROVE  TrackInv'
<1>1. /\ d \notin windows /\ pixmap_refcnt[d] = 0
      /\ windows' = windows \cup {d}
      /\ pixmap_refcnt' = [pixmap_refcnt EXCEPT ![d] = 1]
      /\ UNCHANGED <<links, drm_seq, crtc, buffer, attached, clients, kernel, frame, asked,
                     after_free>>
    BY DEF CreateWindow
<1>2. TypeInv /\ NumbersInv /\ EventsTracked /\ BufferInv
    BY DEF TrackInv
<1>3. TypeInv'
    BY <1>1, <1>2 DEF TypeInv, links
<1>4. NumbersInv'
    BY <1>1, <1>2 DEF NumbersInv, links, NextSeq
<1>5. Live' = Live /\ \A e : Held(e)' = Held(e)
    BY <1>1 DEF links, Live, Held
<1>6. EventsTracked'
    BY <1>1, <1>2, <1>5 DEF EventsTracked, links
<1>7. BufferInv'
    <2>1. /\ \A b : HeldBy(b)' = HeldBy(b) /\ AttachedTo(b)' = AttachedTo(b)
          /\ \A k : BuffersOf(k)' = BuffersOf(k)
        BY <1>1, <1>5 DEF HeldBy, AttachedTo, BuffersOf
    <2>2. pixmap_refcnt \in [Drawables -> Nat]
        BY <1>2 DEF BufferInv
    <2>3. ASSUME NEW k \in Drawables
          PROVE  pixmap_refcnt'[k] = Cardinality(BuffersOf(k)') + (IF k \in windows' THEN 1 ELSE 0)
        <3>1. /\ pixmap_refcnt[k] = Cardinality(BuffersOf(k)) + (IF k \in windows THEN 1 ELSE 0)
              /\ Cardinality(BuffersOf(k)) \in Nat
            BY <1>2, FiniteHolders DEF BufferInv
        <3>2. CASE k = d
            BY <1>1, <2>1, <2>2, <3>1, <3>2
        <3>3. CASE k # d
            BY <1>1, <2>1, <2>2, <3>1, <3>3
        <3>. QED
            BY <3>2, <3>3
    <2>4. pixmap_refcnt' \in [Drawables -> Nat]
        BY <1>1, <2>2
    <2>. QED
        BY <1>1, <1>2, <2>1, <2>3, <2>4 DEF BufferInv
<1>. QED
    BY <1>3, <1>4, <1>6, <1>7 DEF TrackInv

\* Events that go together with their entries.
LEMMA GoTogether ==
    ASSUME TypeInv, NumbersInv, EventsTracked, BufferInv, NEW F \in SUBSET Live,
           NEW C \in SUBSET F, DelFrameEvents(F, C), UNCHANGED <<windows, drm_seq>>, kernel' \subseteq kernel,
           Len(asked') = Len(asked),
           queue' \in Seq(Entries), Distinct(queue'), DataOf(queue') = Live \ F,
           \A i \in DOMAIN queue' : \E j \in DOMAIN queue : queue'[i] = queue[j],
           \A e \in Live \ F : info[e].client \in clients'
    PROVE  /\ NumbersInv' /\ EventsTracked' /\ BufferInv'
           /\ info' \in [Events -> FrameEvents \cup {None}]
           /\ client_list' \in [Clients -> SUBSET Events]
           /\ drawable_list' \in [Drawables -> SUBSET Events]
           /\ attached' = attached /\ after_free' \subseteq {"free", "write"}
           /\ Live' = Live \ F /\ \A e \in Live' : info'[e] = info[e]
<1>1. /\ info' \in [Events -> FrameEvents \cup {None}]
      /\ client_list' \in [Clients -> SUBSET Events]
      /\ drawable_list' \in [Drawables -> SUBSET Events]
      /\ Live' = Live \ F /\ \A e \in Live' : info'[e] = info[e]
      /\ "free" \notin after_free' /\ after_free' \subseteq {"free", "write"}
      /\ \A c \in Clients : client_list'[c] = {e \in Live' : info'[e].client = c}
      /\ \A d \in Drawables : drawable_list'[d] = {e \in Live' : info'[e].drawable = d}
      /\ BufferInv'
    BY DelFact
<1>2. NumbersInv'
    BY DEF NumbersInv, NextSeq
<1>3. \A e \in Live' : info'[e].client \in clients' /\ info'[e].drawable \in windows' \cup {None}
    BY <1>1 DEF EventsTracked
<1>4. EventsTracked'
    BY <1>1, <1>3 DEF EventsTracked, Distinct, DataOf
<1>5. attached' = attached
    BY DEF DelFrameEvents
<1>. QED
    BY <1>1, <1>2, <1>4, <1>5

\* The answer to a request is of the type of a request.
LEMMA AnsweredType ==
    ASSUME asked \in Seq(Requests), NEW r, NEW msc
    PROVE  /\ Answered(r, msc) \in Seq(Requests) /\ Len(Answered(r, msc)) = Len(asked)
           /\ DOMAIN Answered(r, msc) = DOMAIN asked
           /\ \A k \in DOMAIN asked : k # r => Answered(r, msc)[k] = asked[k]
           /\ r \in DOMAIN asked => Answered(r, msc)[r] =
                 IF asked[r].state # "pending" THEN Over("astray")
                 ELSE IF msc < asked[r].target THEN Over("early") ELSE Over("over")
<1>. DEFINE x == IF asked[r].state # "pending" THEN Over("astray")
                 ELSE IF msc < asked[r].target THEN Over("early") ELSE Over("over")
<1>1. x \in Requests
    BY OverType
<1>2. Answered(r, msc) = [asked EXCEPT ![r] = x]
    BY DEF Answered
<1>. HIDE DEF x
<1>3. DOMAIN asked = 1..Len(asked) /\ Len(asked) \in Nat /\ asked \in [1..Len(asked) -> Requests]
    OBVIOUS
<1>4. Answered(r, msc) \in [1..Len(asked) -> Requests]
    BY <1>1, <1>2, <1>3
<1>5. Answered(r, msc) \in Seq(Requests) /\ Len(Answered(r, msc)) = Len(asked)
    BY <1>3, <1>4
<1>6. r \in DOMAIN asked => Answered(r, msc)[r] = x
    BY <1>2
<1>7. \A k \in DOMAIN asked : k # r => Answered(r, msc)[k] = asked[k]
    BY <1>2
<1>. QED
    BY <1>3, <1>5, <1>6, <1>7 DEF x

\* What tegra_drm_handler() does when it finds an entry.
LEMMA FoundFact ==
    ASSUME TypeInv, EventsTracked, NEW v \in kernel, HandleEvent(v),
           Newest({i \in DOMAIN queue : queue[i].seq = v.seq}) # {}
    PROVE  \E i \in DOMAIN queue :
              LET e == queue[i].data
                  k == ToCrtcMsc(crtc, v.at % Wrap)
              IN  /\ queue[i].seq = v.seq /\ e \in Live
                  /\ crtc' = k.crtc
                  /\ queue' = Without(queue, {queue[i]})
                  /\ DelFrameEvents({e}, {})
                  /\ asked' = IF None \in {info[e].drawable, info[e].client}
                              THEN asked ELSE Answered(info[e].request, k.msc)
<1>. DEFINE Q == Newest({i \in DOMAIN queue : queue[i].seq = v.seq})
            k == ToCrtcMsc(crtc, v.at % Wrap)
<1>1. queue \in Seq(Entries) /\ Distinct(queue)
    BY DEF TypeInv, EventsTracked, Distinct
<1>2. PICK i \in DOMAIN queue : queue[i].seq = v.seq /\ Q = {queue[i]}
    BY <1>1, NumberFact
<1>. DEFINE e == (CHOOSE q \in Q : TRUE).data
<1>3. e = queue[i].data
    BY <1>2
<1>4. /\ crtc' = k.crtc /\ queue' = Without(queue, Q) /\ DelFrameEvents({e}, {})
      /\ asked' = IF info[e] = None \/ None \in {info[e].drawable, info[e].client}
                  THEN asked ELSE Answered(info[e].request, k.msc)
    BY DEF HandleEvent
<1>5. queue[i].data \in Live
    BY <1>2 DEF EventsTracked
<1>6. info[queue[i].data] # None
    BY <1>5 DEF Live
<1>. HIDE DEF Q, k, e
<1>. QED
    BY <1>2, <1>3, <1>4, <1>5, <1>6 DEF k

LEMMA HandleEventTracked ==
    ASSUME TrackInv, NEW v \in kernel, HandleEvent(v)
    PROVE  TrackInv'
<1>1. TypeInv /\ NumbersInv /\ EventsTracked /\ BufferInv
    BY DEF TrackInv
<1>2. kernel' = kernel \ {v} /\ UNCHANGED <<drm_seq, clients, windows, frame>>
    BY DEF HandleEvent
<1>3. CASE Newest({i \in DOMAIN queue : queue[i].seq = v.seq}) = {}
    <2>1. UNCHANGED <<links, crtc, buffers, asked, after_free>>
        BY <1>3 DEF HandleEvent
    <2>2. TypeInv' /\ NumbersInv'
        BY <1>1, <1>2, <2>1 DEF TypeInv, NumbersInv, links, buffers, NextSeq
    <2>3. EventsTracked' /\ BufferInv'
        BY <1>1, <1>2, <2>1, Calm
    <2>. QED
        BY <2>2, <2>3 DEF TrackInv
<1>4. CASE Newest({i \in DOMAIN queue : queue[i].seq = v.seq}) # {}
    <2>1. PICK i \in DOMAIN queue :
              LET e == queue[i].data
                  k == ToCrtcMsc(crtc, v.at % Wrap)
              IN  /\ queue[i].seq = v.seq /\ e \in Live
                  /\ crtc' = k.crtc
                  /\ queue' = Without(queue, {queue[i]})
                  /\ DelFrameEvents({e}, {})
                  /\ asked' = IF None \in {info[e].drawable, info[e].client}
                              THEN asked ELSE Answered(info[e].request, k.msc)
        BY <1>1, <1>4, FoundFact
    <2>. DEFINE e == queue[i].data
    <2>2. queue \in Seq(Entries) /\ Distinct(queue) /\ DataOf(queue) = Live
        BY <1>1 DEF TypeInv, EventsTracked, Distinct, DataOf
    <2>3. /\ queue' \in Seq(Entries) /\ Distinct(queue')
          /\ DataOf(queue') = Live \ {e}
          /\ \A n \in DOMAIN queue' : \E j \in DOMAIN queue : queue'[n] = queue[j]
        <3>1. {queue[i]} \subseteq {queue[j] : j \in DOMAIN queue}
            OBVIOUS
        <3>2. {q.data : q \in {queue[i]}} = {e}
            OBVIOUS
        <3>3. /\ queue' \in Seq(Entries) /\ Distinct(queue')
              /\ DataOf(queue') = DataOf(queue) \ {q.data : q \in {queue[i]}}
              /\ \A n \in DOMAIN queue' : \E j \in DOMAIN queue : queue'[n] = queue[j]
            BY <2>1, <2>2, <3>1, RemoveFact
        <3>. QED
            BY <2>2, <3>2, <3>3
    <2>4. asked' \in Seq(Requests) /\ Len(asked') = Len(asked)
        BY <1>1, <2>1, AnsweredType DEF TypeInv
    <2>5. crtc' \in Crtcs
        <3>1. v.at % Wrap \in Int
            BY <1>1, ModFact DEF TypeInv
        <3>. QED
            BY <1>1, <2>1, <3>1, CrtcType DEF TypeInv
    <2>6. \A f \in Live \ {e} : info[f].client \in clients'
        BY <1>1, <1>2 DEF EventsTracked
    <2>7. {e} \in SUBSET Live /\ DelFrameEvents({e}, {}) /\ kernel' \subseteq kernel
        BY <1>2, <2>1
    <2>. HIDE DEF e
    <2>8. /\ NumbersInv' /\ EventsTracked' /\ BufferInv'
          /\ info' \in [Events -> FrameEvents \cup {None}]
          /\ client_list' \in [Clients -> SUBSET Events]
          /\ drawable_list' \in [Drawables -> SUBSET Events]
          /\ attached' = attached /\ after_free' \subseteq {"free", "write"}
        BY <1>1, <1>2, <2>3, <2>4, <2>6, <2>7, GoTogether
    <2>9. TypeInv'
        BY <1>1, <1>2, <2>3, <2>4, <2>5, <2>8 DEF TypeInv
    <2>. QED
        BY <2>8, <2>9 DEF TrackInv
<1>. QED
    BY <1>3, <1>4

LEMMA ClientGoneTracked ==
    ASSUME TrackInv, NEW c \in Clients, ClientGone(c)
    PROVE  TrackInv'
<1>. DEFINE F == {e \in Live : info[e].client = c}
            Q == UNION {Entry(e) : e \in client_list[c]}
<1>1. TypeInv /\ NumbersInv /\ EventsTracked /\ BufferInv
    BY DEF TrackInv
<1>2. /\ clients' = clients \ {c} /\ queue' = Without(queue, Q)
      /\ DelFrameEvents({q.data : q \in Q}, client_list[c]) /\ asked' = GoneBy("client", c)
      /\ UNCHANGED <<drm_seq, crtc, windows, kernel, frame>>
    BY DEF ClientGone
<1>3. client_list[c] = F
    BY <1>1 DEF EventsTracked
<1>4. queue \in Seq(Entries) /\ Distinct(queue) /\ DataOf(queue) = Live
    BY <1>1 DEF TypeInv, EventsTracked, Distinct, DataOf
<1>5. ASSUME NEW e \in Live PROVE \E i \in DOMAIN queue : queue[i].data = e /\ Entry(e) = {queue[i]}
    BY <1>4, EntryFact
<1>6. Q \subseteq {queue[i] : i \in DOMAIN queue} /\ {q.data : q \in Q} = F
    BY <1>3, <1>5
<1>. HIDE DEF Q
<1>7. /\ queue' \in Seq(Entries) /\ Distinct(queue') /\ DataOf(queue') = Live \ F
      /\ \A n \in DOMAIN queue' : \E j \in DOMAIN queue : queue'[n] = queue[j]
    BY <1>2, <1>4, <1>6, RemoveFact
<1>8. asked' \in Seq(Requests) /\ Len(asked') = Len(asked)
    BY <1>1, <1>2, GoneType DEF TypeInv
<1>9. \A f \in Live \ F : info[f].client \in clients'
    BY <1>1, <1>2 DEF EventsTracked
<1>10. F \in SUBSET Live /\ DelFrameEvents(F, F)
    BY <1>2, <1>3, <1>6
<1>. HIDE DEF F
<1>11. /\ NumbersInv' /\ EventsTracked' /\ BufferInv'
       /\ info' \in [Events -> FrameEvents \cup {None}]
       /\ client_list' \in [Clients -> SUBSET Events]
       /\ drawable_list' \in [Drawables -> SUBSET Events]
       /\ attached' = attached /\ after_free' \subseteq {"free", "write"}
    BY <1>1, <1>2, <1>7, <1>8, <1>9, <1>10, GoTogether
<1>12. TypeInv'
    BY <1>1, <1>2, <1>7, <1>8, <1>11 DEF TypeInv
<1>. QED
    BY <1>11, <1>12 DEF TrackInv

LEMMA ScreenExitTracked ==
    ASSUME TrackInv, ScreenExit
    PROVE  TrackInv'
<1>1. TypeInv /\ NumbersInv /\ EventsTracked /\ BufferInv
    BY DEF TrackInv
<1>2. /\ DelFrameEvents({queue[i].data : i \in DOMAIN queue}, {}) /\ queue' = <<>>
      /\ UNCHANGED <<drm_seq, crtc, outside, asked>>
    BY DEF ScreenExit
<1>3. DelFrameEvents(Live, {})
    BY <1>1, <1>2 DEF EventsTracked
<1>4. /\ queue' \in Seq(Entries) /\ Distinct(queue') /\ DataOf(queue') = Live \ Live
      /\ \A n \in DOMAIN queue' : \E j \in DOMAIN queue : queue'[n] = queue[j]
    BY <1>2 DEF Distinct, DataOf
<1>5. /\ NumbersInv' /\ EventsTracked' /\ BufferInv'
      /\ info' \in [Events -> FrameEvents \cup {None}]
      /\ client_list' \in [Clients -> SUBSET Events]
      /\ drawable_list' \in [Drawables -> SUBSET Events]
      /\ attached' = attached /\ after_free' \subseteq {"free", "write"}
    <2>1. /\ Live \in SUBSET Live /\ UNCHANGED <<windows, drm_seq>> /\ kernel' \subseteq kernel
          /\ Len(asked') = Len(asked) /\ \A e \in Live \ Live : info[e].client \in clients'
        BY <1>2 DEF outside
    <2>. QED
        BY <1>1, <1>3, <1>4, <2>1, GoTogether
<1>6. TypeInv'
    BY <1>1, <1>2, <1>4, <1>5 DEF TypeInv, outside
<1>. QED
    BY <1>5, <1>6 DEF TrackInv

LEMMA InitTracked ==
    ASSUME Init
    PROVE  TrackInv
<1>1. None \notin Drawables
    BY Dri2Assumption
<1>2. TypeInv
    <2>1. [offset |-> 0, prev |-> 0, high |-> 0] \in Crtcs /\ 0 \in 0..(Wrap - 1)
        BY Dri2Assumption DEF Crtcs
    <2>2. attached \in [Drawables -> [Ends -> Buffers \cup {None}]]
        BY DEF Init
    <2>3. info \in [Events -> FrameEvents \cup {None}] /\ after_free \subseteq {"free", "write"}
        BY DEF Init
    <2>4. /\ client_list \in [Clients -> SUBSET Events]
          /\ drawable_list \in [Drawables -> SUBSET Events]
          /\ clients \subseteq Clients /\ windows \subseteq Drawables
        BY DEF Init
    <2>5. /\ queue \in Seq(Entries) /\ asked \in Seq(Requests)
          /\ kernel \subseteq [seq : 1..(Wrap - 1), at : Nat]
        BY DEF Init
    <2>6. drm_seq \in 0..(Wrap - 1) /\ crtc \in Crtcs /\ frame \in Nat
        BY <2>1, Dri2Assumption DEF Init
    <2>. QED
        BY <2>2, <2>3, <2>4, <2>5, <2>6 DEF TypeInv
<1>3. NumbersInv
    BY Dri2Assumption DEF Init, NumbersInv
<1>4. Live = {}
    BY DEF Init, Live
<1>5. EventsTracked
    BY <1>4 DEF Init, EventsTracked
<1>6. BufferInv
    <2>1. \A b \in Buffers : AttachedTo(b) = {} /\ HeldBy(b) = {}
        <3>1. ASSUME NEW b \in Buffers, NEW d \in Drawables, NEW x \in Ends PROVE attached[d][x] # b
            BY Dri2Assumption DEF Init
        <3>. QED
            BY <1>4, <3>1 DEF AttachedTo, HeldBy
    <2>2. \A d \in Drawables : BuffersOf(d) = {}
        BY <1>1 DEF Init, BuffersOf, NoBuffer
    <2>3. /\ buffer \in [Buffers -> [refcnt : Nat, window : Drawables \cup {None}]]
          /\ pixmap_refcnt \in [Drawables -> Nat]
          /\ \A b \in Buffers : buffer[b] = NoBuffer /\ buffer[b].refcnt = 0
          /\ \A d \in Drawables : pixmap_refcnt[d] = 1 /\ d \in windows
          /\ \A d \in Drawables : attached[d]["front"] = None
        BY DEF Init, NoBuffer, Ends
    <2>4. Cardinality({}) = 0
        BY FS_EmptySet
    <2>5. \A b \in Buffers :
             buffer[b].refcnt = Cardinality(AttachedTo(b)) + Cardinality(HeldBy(b))
        BY <2>1, <2>3, <2>4
    <2>6. \A d \in Drawables :
             pixmap_refcnt[d] = Cardinality(BuffersOf(d)) + (IF d \in windows THEN 1 ELSE 0)
        BY <2>2, <2>3, <2>4
    <2>. QED
        BY <2>3, <2>5, <2>6 DEF BufferInv
<1>. QED
    BY <1>2, <1>3, <1>5, <1>6 DEF TrackInv

LEMMA StepTracked ==
    ASSUME TrackInv, NoRefusedWait, EnoughNumbers, [Next]_vars
    PROVE  TrackInv'
<1>1. CASE UNCHANGED vars
    <2>1. /\ UNCHANGED <<links, buffers, windows, after_free>> /\ clients \subseteq clients'
          /\ UNCHANGED <<drm_seq, crtc, outside, asked>>
        BY <1>1 DEF vars, outside
    <2>2. TypeInv' /\ NumbersInv'
        BY <2>1 DEF TrackInv, TypeInv, NumbersInv, NextSeq, links, buffers, outside
    <2>. QED
        BY <2>1, <2>2, Calm DEF TrackInv
<1>2. CASE \E d \in Drawables : CreateBuffers(d) \/ DestroyBuffers(d)
    BY <1>2, CreateBuffersTracked, DestroyBuffersTracked
<1>3. CASE \E kind \in {"wait", "swap"}, c \in Clients, d \in Drawables :
              \/ CompleteAtOnce(kind, c, d)
              \/ \E t \in Targets, eq \in Equations : Refused(kind, c, d, t, eq)
    BY <1>3, CompleteAtOnceTracked, RefusedTracked
<1>4. CASE \E c \in Clients, d \in Drawables, t \in Targets, eq \in Equations :
              ScheduleWait(c, d, t, eq) \/ ScheduleSwap(c, d, t, eq)
    BY <1>4, ScheduleTracked DEF ScheduleWait, ScheduleSwap
<1>5. CASE GetMsc
    BY <1>5, GetMscTracked
<1>6. CASE Vblank
    BY <1>6, VblankTracked
<1>7. CASE \E v \in kernel : HandleEvent(v)
    BY <1>7, HandleEventTracked
<1>8. CASE \E c \in Clients : ClientGone(c) \/ Connect(c)
    BY <1>8, ClientGoneTracked, ConnectTracked
<1>9. CASE \E d \in Drawables : DrawableGone(d) \/ CreateWindow(d)
    BY <1>9, DrawableGoneTracked, CreateWindowTracked
<1>10. CASE ScreenExit
    BY <1>10, ScreenExitTracked
<1>. QED
    BY <1>1, <1>2, <1>3, <1>4, <1>5, <1>6, <1>7, <1>8, <1>9, <1>10 DEF Next

\* TrackInv holds in every state.
THEOREM TrackInvariant ==
    ASSUME NoRefusedWait, EnoughNumbers
    PROVE  Spec => []TrackInv
<1>1. Init => TrackInv
    BY InitTracked
<1>2. TrackInv /\ [Next]_vars => TrackInv'
    BY StepTracked
<1>. QED
    BY <1>1, <1>2, PTL DEF Spec

\* Every variable has its type, whatever clients ask for and in whatever
\* order they, their drawables and the server's generations go.
THEOREM TypeCorrect ==
    ASSUME NoRefusedWait, EnoughNumbers
    PROVE  Spec => []TypeOK
<1>1. TrackInv => TypeOK
    <2>1. SUFFICES ASSUME TrackInv PROVE TypeOK
        OBVIOUS
    <2>2. TypeInv /\ BufferInv
        BY <2>1 DEF TrackInv
    <2>3. \A e \in Events : info[e] # None =>
             /\ info[e].client \in Clients \cup {None}
             /\ info[e].drawable \in Drawables \cup {None}
             /\ info[e].front \in Buffers \cup {None} /\ info[e].back \in Buffers \cup {None}
        BY <2>2 DEF TypeInv, FrameEvents
    <2>4. crtc.prev \in 0..(Wrap - 1) /\ crtc.offset \in Int /\ crtc.high \in Nat
        BY <2>2 DEF TypeInv, Crtcs
    <2>. QED
        BY <2>2, <2>3, <2>4 DEF TypeOK, TypeInv, BufferInv
<1>. QED
    BY <1>1, TrackInvariant, PTL

\* The queue, the lists of clients and drawables and the frame events lead
\* to each other, and buffers and pixmaps have the references that are held
\* of them: no event is freed twice, none is lost, no buffer leaks or goes
\* while a swap needs it.
THEOREM TrackedAlways ==
    ASSUME NoRefusedWait, EnoughNumbers
    PROVE  Spec => []Tracked
<1>1. TrackInv => Tracked
    BY DEF TrackInv, Tracked, BufferInv, BuffersExact, AttachedTo, HeldBy, BuffersOf
<1>. QED
    BY <1>1, TrackInvariant, PTL

-----------------------------------------------------------------------------
(* The conversion of frame counts within a quarter of the counter.         *)

LEMMA SignedFact ==
    ASSUME NEW x \in Int, - (Wrap \div 4) <= x, x < Wrap \div 4
    PROVE  Signed(x) = x
<1>. DEFINE D == Wrap \div 4
<1>1. /\ D \in Nat /\ 4 * D <= Wrap /\ 2 * D <= Wrap \div 2 /\ Wrap \div 2 <= Wrap - D
      /\ Wrap \div 2 \in Nat
    BY Dri2Assumption
<1>. HIDE DEF D
<1>2. - D <= x /\ x < D
    BY DEF D
<1>3. CASE x >= 0
    <2>1. x % Wrap = x
        BY <1>1, <1>2, <1>3, Dri2Assumption
    <2>. QED
        BY <1>1, <1>2, <2>1 DEF Signed
<1>4. CASE x < 0
    <2>1. x + Wrap \in 0..(Wrap - 1)
        BY <1>1, <1>2, <1>4, Dri2Assumption
    <2>2. x % Wrap = x + Wrap
        BY <2>1, <1>4, Dri2Assumption
    <2>. QED
        BY <1>1, <1>2, <2>2, Dri2Assumption DEF Signed
<1>. QED
    BY <1>3, <1>4

LEMMA ModSmall ==
    ASSUME NEW x \in Nat, x < Wrap \div 4
    PROVE  x % Wrap = x
<1>1. x \in 0..(Wrap - 1)
    BY Dri2Assumption
<1>. QED
    BY <1>1, Dri2Assumption

\* A conversion adds the offset.
LEMMA ConvertFact ==
    ASSUME NEW k \in Crtcs, k.high = 0, k.offset >= 0, NEW x \in Nat,
           x + k.offset < Wrap \div 4, k.prev < Wrap \div 4
    PROVE  /\ ToCrtcMsc(k, x).crtc \in Crtcs
           /\ ToCrtcMsc(k, x).crtc.offset = k.offset
           /\ ToCrtcMsc(k, x).crtc.high = 0
           /\ ToCrtcMsc(k, x).crtc.prev = x + k.offset
           /\ ToCrtcMsc(k, x).msc = x + k.offset
<1>. DEFINE s == (x + k.offset) % Wrap
            h == IF Signed(s - k.prev) < - (Wrap \div 4) THEN k.high + Wrap ELSE k.high
<1>1. k.offset \in Nat /\ k.prev \in Nat /\ Wrap \div 4 \in Nat
    BY Dri2Assumption DEF Crtcs
<1>2. s = x + k.offset
    BY <1>1, ModSmall
<1>3. Signed(s - k.prev) = s - k.prev
    <2>. HIDE DEF s
    <2>. DEFINE z == s - k.prev
    <2>1. z \in Int /\ - (Wrap \div 4) <= z /\ z < Wrap \div 4
        BY <1>1, <1>2
    <2>. HIDE DEF z
    <2>2. Signed(z) = z
        BY <2>1, SignedFact
    <2>. QED
        BY <2>2 DEF z
<1>4. h = 0
    <2>. HIDE DEF s
    <2>. QED
        BY <1>1, <1>2, <1>3
<1>5. ToCrtcMsc(k, x) = [crtc |-> [k EXCEPT !.prev = s, !.high = h], msc |-> h + s]
    BY DEF ToCrtcMsc
<1>6. ToCrtcMsc(k, x).crtc \in Crtcs
    BY CrtcType
<1>. HIDE DEF s, h
<1>7. /\ ToCrtcMsc(k, x).crtc = [k EXCEPT !.prev = s, !.high = h]
      /\ ToCrtcMsc(k, x).msc = h + s
    BY <1>5
<1>8. [k EXCEPT !.prev = s, !.high = h].offset = k.offset
    BY DEF Crtcs
<1>9. [k EXCEPT !.prev = s, !.high = h].prev = s
    BY DEF Crtcs
<1>10. [k EXCEPT !.prev = s, !.high = h].high = h
    BY DEF Crtcs
<1>11. h + s = s
    BY <1>1, <1>2, <1>4
<1>. QED
    BY <1>2, <1>4, <1>6, <1>7, <1>8, <1>9, <1>10, <1>11

\* The frame asked for is the target or later, and not far from now.
LEMMA RequestedFact ==
    ASSUME NEW n \in Nat, EnoughFrames(n), NEW kind \in {"wait", "swap"}, NEW current \in Nat,
           NEW target \in Int, target <= current + n, NEW eq \in Equations
    PROVE  LET r == Requested(kind, current, target, eq)
           IN  r \in Int /\ current <= r /\ r <= current + n /\ target <= r
<1>1. eq.divisor \in Nat /\ eq.remainder \in Nat /\ eq.divisor + eq.remainder <= n
    BY Dri2Assumption DEF EnoughFrames
<1>2. CASE current < target
    BY <1>2 DEF Requested
<1>3. CASE ~ (current < target) /\ eq.divisor = 0
    <2>1. Requested(kind, current, target, eq) = current
        BY <1>3 DEF Requested
    <2>. QED
        BY <1>3, <2>1
<1>4. CASE ~ (current < target) /\ eq.divisor # 0
    <2>. DEFINE m == current % eq.divisor
                first == current - m + eq.remainder
                over == IF kind = "wait" THEN m >= eq.remainder ELSE first <= current
    <2>1. m \in Nat /\ m < eq.divisor
        BY <1>1, <1>4
    <2>2. Requested(kind, current, target, eq) = IF over THEN first + eq.divisor ELSE first
        BY <1>4 DEF Requested
    <2>. HIDE DEF m
    <2>3. first \in Int
        BY <1>1, <2>1
    <2>4. CASE over
        <3>1. Requested(kind, current, target, eq) = first + eq.divisor
            BY <2>2, <2>4
        <3>2. /\ first + eq.divisor \in Int /\ current <= first + eq.divisor
              /\ first + eq.divisor <= current + n
            BY <1>1, <2>1
        <3>. QED
            BY <1>4, <3>1, <3>2
    <2>5. CASE ~ over
        <3>1. Requested(kind, current, target, eq) = first
            BY <2>2, <2>5
        <3>2. current <= first /\ first <= current + n
            BY <1>1, <2>1, <2>5
        <3>. QED
            BY <1>4, <2>3, <3>1, <3>2
    <2>. QED
        BY <2>4, <2>5
<1>. QED
    BY <1>2, <1>3, <1>4

\* The number to ask the kernel for: the offset only grows.
LEMMA KernelFact ==
    ASSUME NEW k \in Crtcs, k.high = 0, k.offset >= 0, frame \in Nat, NEW n \in Nat,
           frame + k.offset + n < Wrap \div 4, k.prev < Wrap \div 4,
           NEW x \in Int, frame + k.offset <= x, x <= frame + k.offset + n
    PROVE  LET g == ToKernelMsc(k, x)
           IN  /\ g.crtc \in Crtcs /\ g.crtc.high = 0 /\ g.crtc.prev = frame + k.offset
               /\ k.offset <= g.crtc.offset /\ g.crtc.offset <= k.offset + n
               /\ g.sequence = x - g.crtc.offset
               /\ frame <= g.sequence /\ g.sequence < Wrap \div 4
<1>. DEFINE now   == ToCrtcMsc(k, frame % Wrap)
            diff  == x - now.msc
            moved == now.crtc.offset + Signed(diff)
            kept  == IF moved > - MaxOffset /\ moved < MaxOffset THEN 0 ELSE moved
            c     == IF diff < - MaxOffset \/ diff > MaxOffset
                     THEN [now.crtc EXCEPT !.offset = kept] ELSE now.crtc
<1>1. k.offset \in Nat /\ k.prev \in Nat /\ Wrap \div 4 \in Nat
    BY Dri2Assumption DEF Crtcs
<1>2. frame % Wrap = frame
    BY <1>1, ModSmall
<1>3. /\ now.crtc \in Crtcs /\ now.crtc.offset = k.offset /\ now.crtc.high = 0
      /\ now.crtc.prev = frame + k.offset /\ now.msc = frame + k.offset
    BY <1>1, <1>2, ConvertFact
<1>4. ToKernelMsc(k, x) = [crtc |-> c, sequence |-> (x - c.offset) % Wrap]
    BY DEF ToKernelMsc
<1>. HIDE DEF now
<1>5. diff \in 0..n
    BY <1>1, <1>3
<1>6. Signed(diff) = diff
    <2>. HIDE DEF diff
    <2>. QED
        BY <1>1, <1>5, SignedFact
<1>. HIDE DEF diff
<1>7. moved = k.offset + diff
    BY <1>3, <1>6
<1>. HIDE DEF moved
<1>8. /\ c \in Crtcs /\ c.high = 0 /\ c.prev = frame + k.offset
      /\ c.offset \in {k.offset, k.offset + diff}
    <2>1. CASE diff > MaxOffset
        <3>1. kept = k.offset + diff
            BY <1>1, <1>5, <1>7, <2>1, Dri2Assumption
        <3>2. c = [now.crtc EXCEPT !.offset = k.offset + diff]
            BY <2>1, <3>1
        <3>3. k.offset + diff \in Int
            BY <1>1, <1>5
        <3>. HIDE DEF c, kept
        <3>. QED
            BY <1>3, <3>2, <3>3 DEF Crtcs
    <2>2. CASE ~ (diff > MaxOffset)
        <3>1. c = now.crtc
            BY <1>5, <2>2, Dri2Assumption
        <3>. HIDE DEF c
        <3>. QED
            BY <1>3, <3>1
    <2>. QED
        BY <2>1, <2>2
<1>. HIDE DEF c
<1>9. k.offset <= c.offset /\ c.offset <= k.offset + n /\ c.offset \in Nat
    BY <1>1, <1>5, <1>8
<1>10. x - c.offset \in Nat /\ frame <= x - c.offset /\ x - c.offset < Wrap \div 4
    <2>1. x = frame + k.offset + diff
        BY <1>1, <1>3 DEF diff
    <2>. QED
        BY <1>1, <1>5, <1>8, <1>9, <2>1
<1>11. (x - c.offset) % Wrap = x - c.offset
    BY <1>10, ModSmall
<1>. QED
    BY <1>4, <1>8, <1>9, <1>10, <1>11

LEMMA ProductFact ==
    ASSUME NEW n \in Nat, NEW a \in Nat, NEW b \in Nat, a <= b
    PROVE  n * a \in Nat /\ n * a <= n * b /\ n * (a + 1) = n * a + n
<1>1. PICK k \in Nat : b = a + k
    <2>1. b - a \in Nat /\ b = a + (b - a)
        OBVIOUS
    <2>. QED
        BY <2>1
<1>2. n * b = n * a + n * k
    BY <1>1
<1>3. n * k \in Nat /\ n * a \in Nat
    OBVIOUS
<1>. QED
    BY <1>2, <1>3

\* Another request fits into the counter.
LEMMA RoomFact ==
    ASSUME NEW n \in Nat, EnoughFrames(n), TypeInv, NumbersInv, OffsetInv(n)
    PROVE  /\ crtc \in Crtcs /\ crtc.offset \in Nat /\ crtc.prev \in Nat /\ frame \in Nat
           /\ frame <= MaxFrame /\ Wrap \div 4 \in Nat /\ crtc.high = 0
           /\ MaxFrame + crtc.offset + n < Wrap \div 4
           /\ crtc.prev < Wrap \div 4
<1>1. /\ Len(asked) \in Nat /\ Len(asked) <= MaxRequests /\ MaxRequests \in Nat /\ MaxFrame \in Nat
      /\ crtc \in Crtcs /\ frame \in Nat
    BY Dri2Assumption DEF TypeInv, NumbersInv
<1>2. n * Len(asked) \in Nat /\ n * Len(asked) <= n * MaxRequests /\ n * MaxRequests \in Nat
    BY <1>1, ProductFact
<1>3. MaxFrame + n * MaxRequests + n < Wrap \div 4 /\ Wrap \div 4 \in Nat
    BY Dri2Assumption DEF EnoughFrames
<1>4. /\ crtc.offset \in Int /\ crtc.offset >= 0 /\ crtc.prev \in Nat
      /\ crtc.offset <= n * Len(asked) /\ crtc.prev <= MaxFrame + crtc.offset
      /\ frame <= MaxFrame /\ crtc.high = 0
    BY <1>1, Dri2Assumption DEF OffsetInv, Crtcs
<1>. DEFINE a == n * Len(asked)
            m == n * MaxRequests
<1>5. /\ a \in Nat /\ m \in Nat /\ a <= m /\ crtc.offset <= a
      /\ MaxFrame + m + n < Wrap \div 4
    BY <1>2, <1>3, <1>4
<1>. HIDE DEF a, m
<1>6. crtc.offset \in Nat /\ MaxFrame + crtc.offset + n < Wrap \div 4
    BY <1>1, <1>3, <1>4, <1>5
<1>7. crtc.prev < Wrap \div 4
    BY <1>1, <1>3, <1>4, <1>6
<1>. QED
    BY <1>1, <1>3, <1>4, <1>6, <1>7

\* What a handler computes: the frame asked for is the target or later, and
\* the event for it comes at that frame or later.
LEMMA TimingFact ==
    ASSUME NEW n \in Nat, EnoughFrames(n), TypeInv, NumbersInv, OffsetInv(n),
           NEW kind \in {"wait", "swap"}, NEW t \in Targets, NEW eq \in Equations
    PROVE  LET x == Timing(kind, Target(t), eq)
           IN  /\ x.crtc \in Crtcs /\ x.crtc.high = 0
               /\ x.crtc.prev = frame + crtc.offset
               /\ crtc.offset <= x.crtc.offset /\ x.crtc.offset <= crtc.offset + n
               /\ x.at \in Nat /\ x.at + x.crtc.offset >= Target(t)
<1>1. /\ crtc \in Crtcs /\ crtc.offset \in Nat /\ crtc.prev \in Nat /\ frame \in Nat
      /\ frame <= MaxFrame /\ Wrap \div 4 \in Nat /\ crtc.high = 0
      /\ MaxFrame + crtc.offset + n < Wrap \div 4
      /\ crtc.prev < Wrap \div 4 /\ MaxFrame \in Nat
    BY RoomFact, Dri2Assumption
<1>2. frame % Wrap = frame /\ frame + crtc.offset < Wrap \div 4
    BY <1>1, ModSmall
<1>. DEFINE now == ToCrtcMsc(crtc, frame % Wrap)
            r   == Requested(kind, now.msc, Target(t), eq)
            k   == ToKernelMsc(now.crtc, r)
            x   == Timing(kind, Target(t), eq)
<1>3. /\ now.crtc \in Crtcs /\ now.crtc.offset = crtc.offset /\ now.crtc.high = 0
      /\ now.crtc.prev = frame + crtc.offset /\ now.msc = frame + crtc.offset
    BY <1>1, <1>2, ConvertFact
<1>4. Target(t) \in Nat /\ Target(t) <= now.msc + n
    <2>1. t \in Int /\ t <= n
        BY Dri2Assumption DEF EnoughFrames
    <2>2. Target(t) = IF now.msc + t < 0 THEN 0 ELSE now.msc + t
        BY DEF Target
    <2>. HIDE DEF now
    <2>. QED
        BY <1>1, <1>3, <2>1, <2>2
<1>5. /\ r \in Int /\ frame + crtc.offset <= r /\ r <= frame + crtc.offset + n
      /\ Target(t) <= r
    <2>1. now.msc \in Nat
        BY <1>1, <1>3
    <2>. DEFINE m == now.msc
    <2>. HIDE DEF now
    <2>2. m \in Nat /\ Target(t) \in Int /\ Target(t) <= m + n
        BY <1>4, <2>1
    <2>. HIDE DEF m
    <2>3. LET z == Requested(kind, m, Target(t), eq)
          IN  z \in Int /\ m <= z /\ z <= m + n /\ Target(t) <= z
        BY <2>2, RequestedFact
    <2>. QED
        BY <1>3, <2>3 DEF m
<1>. HIDE DEF r
<1>6. /\ k.crtc \in Crtcs /\ k.crtc.high = 0 /\ k.crtc.prev = frame + crtc.offset
      /\ crtc.offset <= k.crtc.offset /\ k.crtc.offset <= crtc.offset + n
      /\ k.sequence = r - k.crtc.offset
      /\ frame <= k.sequence /\ k.sequence < Wrap \div 4
    <2>. DEFINE c == now.crtc
    <2>1. /\ c \in Crtcs /\ c.high = 0 /\ c.offset = crtc.offset /\ c.offset >= 0
          /\ frame + c.offset + n < Wrap \div 4 /\ c.prev < Wrap \div 4
          /\ frame + c.offset <= r /\ r <= frame + c.offset + n /\ r \in Int
        BY <1>1, <1>2, <1>3, <1>5
    <2>. HIDE DEF c, now
    <2>2. LET g == ToKernelMsc(c, r)
          IN  /\ g.crtc \in Crtcs /\ g.crtc.high = 0 /\ g.crtc.prev = frame + c.offset
              /\ c.offset <= g.crtc.offset /\ g.crtc.offset <= c.offset + n
              /\ g.sequence = r - g.crtc.offset
              /\ frame <= g.sequence /\ g.sequence < Wrap \div 4
        BY <1>1, <2>1, KernelFact
    <2>. QED
        BY <2>1, <2>2 DEF c
<1>7. x = [crtc |-> k.crtc, at |-> SentAt(kind, k.sequence)]
    BY DEF Timing, r
<1>. HIDE DEF now, k
<1>8. /\ x.crtc = k.crtc /\ x.at = SentAt(kind, k.sequence)
    BY <1>7
<1>. HIDE DEF x
<1>9. k.crtc.offset \in Int
    BY <1>6 DEF Crtcs
<1>10. SentAt(kind, k.sequence) \in Nat /\ SentAt(kind, k.sequence) >= k.sequence
    <2>. DEFINE ahead == k.sequence - frame
    <2>1. k.sequence \in Nat
        BY <1>1, <1>5, <1>6, <1>9
    <2>2. ahead \in Nat /\ ahead < Wrap \div 4
        BY <1>1, <1>6, <2>1
    <2>3. Signed(ahead) = ahead
        <3>. HIDE DEF ahead
        <3>. QED
            BY <1>1, <2>2, SignedFact
    <2>4. SentAt(kind, k.sequence) = IF ahead > 0 THEN frame + ahead
                                     ELSE IF kind = "swap" THEN frame + 1 ELSE frame
        BY <2>3 DEF SentAt
    <2>. QED
        BY <1>1, <2>1, <2>2, <2>4
<1>11. x.at + x.crtc.offset >= Target(t)
    BY <1>4, <1>5, <1>6, <1>8, <1>9, <1>10
<1>. QED
    BY <1>6, <1>8, <1>10, <1>11 DEF x

-----------------------------------------------------------------------------
(* The steps keep AnswerInv.                                               *)

LEMMA RecordTypes ==
    ASSUME TrackInv
    PROVE  /\ \A e \in Live : info[e] \in FrameEvents /\ info[e].request \in Nat
           /\ \A r \in DOMAIN asked : asked[r] \in Requests /\ asked[r].target \in Int
<1>1. /\ info \in [Events -> FrameEvents \cup {None}] /\ asked \in Seq(Requests)
    BY DEF TrackInv, TypeInv
<1>2. \A e \in Live : e \in Events
    BY DEF Live
<1>3. \A e \in Live : info[e] \in FrameEvents
    BY <1>1, <1>2, LiveFact
<1>4. \A r \in DOMAIN asked : asked[r] \in Requests
    BY <1>1
<1>5. \A x \in FrameEvents : x.request \in Nat
    BY DEF FrameEvents
<1>6. \A x \in Requests : x.target \in Int
    BY DEF Requests
<1>. QED
    BY <1>3, <1>4, <1>5, <1>6

\* Steps that make no frame event, and leave the requests of those that
\* stay.
LEMMA StayFact ==
    ASSUME TrackInv, TrackInv', RequestsInv, OnTimeInv,
           Live' \subseteq Live, Len(asked) <= Len(asked'),
           \A e \in Live' :
              /\ info'[e].request = info[e].request /\ info'[e].client = info[e].client
              /\ info'[e].drawable # None =>
                    /\ info'[e].drawable = info[e].drawable
                    /\ asked'[info[e].request] = asked[info[e].request],
           \A r \in DOMAIN asked' : asked'[r].state \notin {"astray", "early"},
           \A i \in DOMAIN queue' : \E j \in DOMAIN queue : queue'[i] = queue[j],
           kernel' \subseteq kernel, crtc'.offset >= crtc.offset
    PROVE  RequestsInv' /\ OnTimeInv'
<1>1. /\ DOMAIN asked = 1..Len(asked) /\ DOMAIN asked' = 1..Len(asked')
      /\ Len(asked) \in Nat /\ Len(asked') \in Nat
    BY DEF TrackInv, TypeInv
<1>2. DOMAIN asked \subseteq DOMAIN asked'
    BY <1>1
<1>3. RequestsInv'
    <2>1. ASSUME NEW e \in Live', info'[e].drawable # None
          PROVE  /\ info'[e].request \in DOMAIN asked'
                 /\ asked'[info'[e].request].state = "pending"
                 /\ asked'[info'[e].request].client = info'[e].client
                 /\ asked'[info'[e].request].drawable = info'[e].drawable
        BY <1>2, <2>1 DEF RequestsInv
    <2>2. ASSUME NEW e \in Live', NEW f \in Live', e # f
          PROVE  info'[e].request # info'[f].request
        BY <2>2 DEF RequestsInv
    <2>3. ASSUME NEW e \in Live' PROVE info'[e].request <= Len(asked')
        <3>1. info'[e].request <= Len(asked) /\ info'[e].request \in Nat
            BY RecordTypes DEF RequestsInv
        <3>. QED
            BY <1>1, <3>1
    <2>. QED
        BY <2>1, <2>2, <2>3 DEF RequestsInv
<1>4. OnTimeInv'
    <2>1. ASSUME NEW i \in DOMAIN queue', NEW v \in kernel', queue'[i].seq = v.seq,
                 info'[queue'[i].data].drawable # None
          PROVE  v.at + crtc'.offset >= asked'[info'[queue'[i].data].request].target
        <3>. DEFINE e == queue'[i].data
        <3>1. e \in Live'
            BY DEF TrackInv, EventsTracked
        <3>2. PICK j \in DOMAIN queue : queue'[i] = queue[j]
            OBVIOUS
        <3>3. info[e].drawable # None /\ asked'[info'[e].request] = asked[info[e].request]
            BY <2>1, <3>1
        <3>4. info[e].request \in DOMAIN asked
            BY <3>1, <3>3 DEF RequestsInv
        <3>5. v.at + crtc.offset >= asked[info[e].request].target
            BY <2>1, <3>2, <3>3 DEF OnTimeInv
        <3>6. asked[info[e].request].target \in Int
            BY <3>4, RecordTypes
        <3>7. v.at \in Nat /\ crtc.offset \in Int /\ crtc'.offset \in Int
            BY DEF TrackInv, TypeInv, Crtcs
        <3>. HIDE DEF e
        <3>8. v.at + crtc'.offset >= asked[info[e].request].target
            BY <3>5, <3>6, <3>7
        <3>. QED
            BY <3>3, <3>8 DEF e
    <2>. QED
        BY <2>1 DEF OnTimeInv
<1>. QED
    BY <1>3, <1>4

\* Steps that leave events, requests and what was asked of the kernel alone.
LEMMA CalmAnswers ==
    ASSUME NEW n \in Nat, AnswerInv(n), TrackInv', UNCHANGED <<links, kernel, asked>>,
           crtc'.offset = crtc.offset
    PROVE  RequestsInv' /\ OnTimeInv'
<1>1. TrackInv /\ RequestsInv /\ OnTimeInv
    BY DEF AnswerInv
<1>2. Live' = Live
    BY DEF links, Live
<1>3. crtc.offset \in Int
    BY <1>1 DEF TrackInv, TypeInv, Crtcs
<1>4. Len(asked) <= Len(asked')
    BY <1>1 DEF TrackInv, TypeInv
<1>5. \A r \in DOMAIN asked' : asked'[r].state \notin {"astray", "early"}
    BY <1>1 DEF RequestsInv, OnTimeInv
<1>. QED
    BY <1>1, <1>2, <1>3, <1>4, <1>5, StayFact DEF links

\* A request that was never made or is over at once.
LEMMA OverAtOnce ==
    ASSUME NEW n \in Nat, AnswerInv(n), TrackInv', UNCHANGED <<links, kernel>>,
           asked' = Append(asked, Over("over")), crtc'.offset >= crtc.offset
    PROVE  RequestsInv' /\ OnTimeInv'
<1>1. TrackInv /\ RequestsInv /\ OnTimeInv
    BY DEF AnswerInv
<1>2. Live' = Live
    BY DEF links, Live
<1>3. /\ asked' \in Seq(Requests) /\ Len(asked') = Len(asked) + 1 /\ Len(asked) \in Nat
      /\ DOMAIN asked' = DOMAIN asked \cup {Len(asked) + 1}
      /\ \A r \in DOMAIN asked : asked'[r] = asked[r]
      /\ asked'[Len(asked) + 1] = Over("over")
    BY <1>1, OverType, AskFact DEF TrackInv, TypeInv
<1>4. \A r \in DOMAIN asked' : asked'[r].state \notin {"astray", "early"}
    <2>1. Over("over").state = "over"
        BY DEF Over
    <2>. QED
        BY <1>1, <1>3, <2>1 DEF RequestsInv, OnTimeInv
<1>5. \A e \in Live' :
         /\ info'[e].request = info[e].request /\ info'[e].client = info[e].client
         /\ info'[e].drawable # None =>
               /\ info'[e].drawable = info[e].drawable
               /\ asked'[info[e].request] = asked[info[e].request]
    BY <1>1, <1>2, <1>3 DEF links, RequestsInv
<1>6. Len(asked) <= Len(asked')
    BY <1>3
<1>. QED
    BY <1>1, <1>2, <1>4, <1>5, <1>6, StayFact DEF links

\* The offset stays within what the requests asked for.
LEMMA OffsetGrows ==
    ASSUME NEW n \in Nat, OffsetInv(n), TrackInv, frame' <= MaxFrame,
           crtc'.high = 0, crtc'.offset \in Int, crtc.offset <= crtc'.offset,
           crtc'.prev <= MaxFrame + crtc'.offset,
           \/ crtc'.offset = crtc.offset /\ Len(asked') = Len(asked)
           \/ crtc'.offset <= crtc.offset + n /\ Len(asked') = Len(asked) + 1
    PROVE  OffsetInv(n)'
<1>1. Len(asked) \in Nat /\ crtc.offset \in Int
    BY DEF TrackInv, TypeInv, Crtcs
<1>2. /\ n * Len(asked) \in Nat /\ n * (Len(asked) + 1) = n * Len(asked) + n
      /\ 0 <= crtc.offset /\ crtc.offset <= n * Len(asked)
    BY <1>1, ProductFact DEF OffsetInv
<1>. DEFINE a == n * Len(asked)
<1>3. CASE crtc'.offset = crtc.offset /\ Len(asked') = Len(asked)
    <2>1. crtc'.offset >= 0 /\ crtc'.offset <= n * Len(asked')
        BY <1>2, <1>3
    <2>. QED
        BY <2>1 DEF OffsetInv
<1>4. CASE crtc'.offset <= crtc.offset + n /\ Len(asked') = Len(asked) + 1
    <2>1. n * Len(asked') = a + n
        BY <1>2, <1>4
    <2>2. a \in Nat /\ crtc.offset <= a
        BY <1>2
    <2>. HIDE DEF a
    <2>3. crtc'.offset >= 0 /\ crtc'.offset <= a + n
        BY <1>1, <1>2, <1>4, <2>2
    <2>. QED
        BY <2>1, <2>3 DEF OffsetInv
<1>. QED
    BY <1>3, <1>4

\* A conversion of a frame that is within the bound.
LEMMA ConvertInv ==
    ASSUME NEW n \in Nat, EnoughFrames(n), AnswerInv(n), NEW x \in Nat, x <= MaxFrame,
           crtc' = ToCrtcMsc(crtc, x % Wrap).crtc, Len(asked') = Len(asked), frame' = frame
    PROVE  /\ OffsetInv(n)' /\ crtc'.offset = crtc.offset
           /\ ToCrtcMsc(crtc, x % Wrap).msc = x + crtc.offset
<1>1. TrackInv /\ OffsetInv(n) /\ TypeInv /\ NumbersInv
    BY DEF AnswerInv, TrackInv
<1>2. /\ crtc \in Crtcs /\ crtc.offset \in Nat /\ crtc.prev \in Nat /\ frame \in Nat
      /\ frame <= MaxFrame /\ Wrap \div 4 \in Nat /\ crtc.high = 0
      /\ MaxFrame + crtc.offset + n < Wrap \div 4
      /\ crtc.prev < Wrap \div 4 /\ MaxFrame \in Nat
    BY <1>1, RoomFact, Dri2Assumption
<1>3. x % Wrap = x /\ x + crtc.offset < Wrap \div 4
    BY <1>2, ModSmall
<1>4. /\ crtc'.offset = crtc.offset /\ crtc'.high = 0 /\ crtc'.prev = x + crtc.offset
      /\ ToCrtcMsc(crtc, x % Wrap).msc = x + crtc.offset
    BY <1>2, <1>3, ConvertFact
<1>5. crtc'.prev <= MaxFrame + crtc'.offset
    BY <1>2, <1>4
<1>6. OffsetInv(n)'
    BY <1>1, <1>2, <1>4, <1>5, OffsetGrows
<1>. QED
    BY <1>4, <1>6

LEMMA ScheduleAnswers ==
    ASSUME NEW n \in Nat, EnoughFrames(n), EnoughNumbers, AnswerInv(n), TrackInv',
           NEW kind \in {"wait", "swap"}, NEW c \in Clients, NEW d \in Drawables,
           NEW t \in Targets, NEW eq \in Equations, Schedule(kind, c, d, t, eq)
    PROVE  RequestsInv' /\ OffsetInv(n)' /\ OnTimeInv'
<1>. DEFINE new == FrameEvent(kind, c, d)
            x == Timing(kind, Target(t), eq)
            q(e) == [seq |-> NextSeq, data |-> e]
            asks == Pending(kind, c, d, Target(t))
<1>1. PICK e \in Calloc : info' = [info EXCEPT ![e] = new] /\ queue' = <<q(e)>> \o queue
    BY DEF Schedule, Enqueue
<1>2. /\ MayAsk(kind, c, d) /\ x.at <= MaxFrame
      /\ kernel' = kernel \cup {[seq |-> NextSeq, at |-> x.at]}
      /\ crtc' = ToCrtcMsc(x.crtc, x.at % Wrap).crtc
      /\ asked' = Append(asked, asks) /\ frame' = frame
    BY DEF Schedule
<1>3. /\ TrackInv /\ TypeInv /\ NumbersInv /\ EventsTracked
      /\ RequestsInv /\ OffsetInv(n) /\ OnTimeInv
    BY DEF AnswerInv, TrackInv
<1>4. /\ crtc \in Crtcs /\ crtc.offset \in Nat /\ crtc.prev \in Nat /\ frame \in Nat
      /\ frame <= MaxFrame /\ Wrap \div 4 \in Nat /\ crtc.high = 0
      /\ MaxFrame + crtc.offset + n < Wrap \div 4 /\ MaxFrame \in Nat
    BY <1>3, RoomFact, Dri2Assumption
<1>5. /\ x.crtc \in Crtcs /\ x.crtc.high = 0 /\ x.crtc.prev = frame + crtc.offset
      /\ crtc.offset <= x.crtc.offset /\ x.crtc.offset <= crtc.offset + n
      /\ x.at \in Nat /\ x.at + x.crtc.offset >= Target(t) /\ Target(t) \in Nat
    BY <1>3, TimingFact, TimingType DEF TypeInv
<1>6. e \in Events /\ e \notin Live /\ info[e] = None
    BY CallocFact DEF Live
<1>7. /\ new.client = c /\ new.drawable = d /\ new.request = Len(asked) + 1
    BY DEF FrameEvent
<1>8. /\ asks \in Requests /\ asks.state = "pending" /\ asks.client = c /\ asks.drawable = d
      /\ asks.target = Target(t)
    BY <1>5, OverType DEF Pending
<1>9. /\ NextSeq \in 1..(Wrap - 1)
    BY <1>2, <1>3, NextFact DEF MayAsk
<1>. HIDE DEF new, x, asks
<1>10. /\ Len(asked') = Len(asked) + 1 /\ Len(asked) \in Nat
       /\ DOMAIN asked' = DOMAIN asked \cup {Len(asked) + 1} /\ DOMAIN asked = 1..Len(asked)
       /\ \A r \in DOMAIN asked : asked'[r] = asked[r]
       /\ asked'[Len(asked) + 1] = asks
    BY <1>2, <1>3, <1>8, AskFact DEF TypeInv
<1>11. /\ info'[e] = new /\ \A f \in Live : f # e /\ info'[f] = info[f]
    BY <1>1, <1>3, <1>6 DEF TypeInv, Live
<1>12. Live' \subseteq Live \cup {e}
    BY <1>1 DEF Live
<1>13. crtc'.offset = x.crtc.offset /\ crtc'.offset \in Int /\ OffsetInv(n)'
    <2>1. /\ x.crtc.offset \in Int /\ x.crtc.prev \in Nat
        BY <1>4, <1>5 DEF Crtcs
    <2>2. x.at % Wrap = x.at /\ x.at + x.crtc.offset < Wrap \div 4 /\ x.crtc.prev < Wrap \div 4
          /\ x.crtc.offset >= 0
        <3>1. x.at < Wrap \div 4
            BY <1>2, <1>4, <1>5
        <3>2. x.at % Wrap = x.at
            BY <1>5, <3>1, ModSmall
        <3>3. x.crtc.offset \in Nat /\ x.crtc.offset <= crtc.offset + n
            BY <1>4, <1>5, <2>1
        <3>4. x.at + x.crtc.offset < Wrap \div 4
            <4>1. x.at \in Nat /\ x.at <= MaxFrame
                BY <1>2, <1>5
            <4>. DEFINE a == x.at
                        o == x.crtc.offset
                        quarter == Wrap \div 4
                        now == crtc.offset
            <4>2. /\ a \in Nat /\ a <= MaxFrame /\ MaxFrame \in Nat
                  /\ o \in Nat /\ o <= now + n /\ now \in Nat /\ n \in Nat
                  /\ quarter \in Nat /\ MaxFrame + now + n < quarter
                BY <1>4, <3>3, <4>1
            <4>3. SUFFICES a + o < quarter
                OBVIOUS
            <4>. HIDE DEF a, o, quarter, now
            <4>. QED
                BY <4>2
        <3>5. x.crtc.prev < Wrap \div 4
            BY <1>4, <1>5
        <3>. QED
            BY <3>2, <3>3, <3>4, <3>5
    <2>3. /\ crtc'.offset = x.crtc.offset /\ crtc'.high = 0
          /\ crtc'.prev = x.at + x.crtc.offset
        BY <1>2, <1>5, <2>1, <2>2, ConvertFact
    <2>4. crtc'.prev <= MaxFrame + crtc'.offset
        <3>1. x.at \in Nat /\ x.at <= MaxFrame /\ MaxFrame \in Nat
            BY <1>2, <1>4, <1>5
        <3>2. x.crtc.offset \in Int
            BY <2>1
        <3>. QED
            BY <2>3, <3>1, <3>2
    <2>5. OffsetInv(n)'
        BY <1>2, <1>3, <1>4, <1>5, <1>10, <2>1, <2>3, <2>4, OffsetGrows
    <2>. QED
        BY <2>1, <2>3, <2>5
<1>14. RequestsInv'
    <2>1. ASSUME NEW f \in Live', info'[f].drawable # None
          PROVE  /\ info'[f].request \in DOMAIN asked'
                 /\ asked'[info'[f].request].state = "pending"
                 /\ asked'[info'[f].request].client = info'[f].client
                 /\ asked'[info'[f].request].drawable = info'[f].drawable
        <3>1. CASE f = e
            BY <1>7, <1>8, <1>10, <1>11, <3>1
        <3>2. CASE f \in Live
            <4>1. info'[f] = info[f] /\ info[f].drawable # None
                BY <1>11, <2>1, <3>2
            <4>. QED
                BY <1>3, <1>10, <3>2, <4>1 DEF RequestsInv
        <3>. QED
            BY <1>12, <3>1, <3>2
    <2>2. ASSUME NEW f \in Live', NEW g \in Live', f # g
          PROVE  info'[f].request # info'[g].request
        <3>1. \A h \in Live : info'[h].request \in Nat /\ info'[h].request <= Len(asked)
            BY <1>3, <1>11, RecordTypes DEF RequestsInv
        <3>2. info'[e].request = Len(asked) + 1
            BY <1>7, <1>11
        <3>3. CASE f = e
            <4>1. g \in Live
                BY <1>12, <2>2, <3>3
            <4>. QED
                BY <1>10, <3>1, <3>2, <3>3, <4>1
        <3>4. CASE g = e
            <4>1. f \in Live
                BY <1>12, <2>2, <3>4
            <4>. QED
                BY <1>10, <3>1, <3>2, <3>4, <4>1
        <3>5. CASE f \in Live /\ g \in Live
            BY <1>3, <1>11, <2>2, <3>5 DEF RequestsInv
        <3>. QED
            BY <1>12, <3>3, <3>4, <3>5
    <2>3. ASSUME NEW f \in Live' PROVE info'[f].request <= Len(asked')
        <3>1. \A h \in Live : info'[h].request \in Nat /\ info'[h].request <= Len(asked)
            BY <1>3, <1>11, RecordTypes DEF RequestsInv
        <3>2. info'[e].request = Len(asked) + 1
            BY <1>7, <1>11
        <3>. QED
            BY <1>10, <1>12, <3>1, <3>2
    <2>4. \A r \in DOMAIN asked' : asked'[r].state # "astray"
        BY <1>3, <1>8, <1>10 DEF RequestsInv
    <2>. QED
        BY <2>1, <2>2, <2>3, <2>4 DEF RequestsInv
<1>15. OnTimeInv'
    <2>1. \A v \in kernel' : v.at <= MaxFrame
        BY <1>2, <1>3 DEF OnTimeInv
    <2>2. \A r \in DOMAIN asked' : asked'[r].state # "early"
        BY <1>3, <1>8, <1>10 DEF OnTimeInv
    <2>3. ASSUME NEW i \in DOMAIN queue', NEW v \in kernel', queue'[i].seq = v.seq,
                 info'[queue'[i].data].drawable # None
          PROVE  v.at + crtc'.offset >= asked'[info'[queue'[i].data].request].target
        <3>1. /\ queue \in Seq(Entries) /\ Distinct(queue) /\ DataOf(queue) = Live
            BY <1>3 DEF TypeInv, EventsTracked, Distinct, DataOf
        <3>2. q(e) \in Entries /\ q(e).seq = NextSeq /\ q(e).data = e
            BY <1>6, <1>9 DEF Entries
        <3>3. ASSUME NEW j \in DOMAIN queue
              PROVE  /\ queue[j].seq \in Nat /\ queue[j].seq < NextSeq /\ queue[j].seq # NextSeq
                     /\ queue[j].data \in Live /\ queue[j].data # e
            <4>1. queue[j].seq \in Nat
                BY <3>1, EntryType
            <4>2. queue[j].seq < NextSeq /\ queue[j].data \in Live
                BY <1>3, <3>1 DEF NumbersInv, DataOf
            <4>. QED
                BY <1>6, <1>9, <4>1, <4>2
        <3>. HIDE DEF q
        <3>4. queue'[i] = q(e) \/ \E j \in DOMAIN queue : queue'[i] = queue[j]
            BY <1>1, <3>1, <3>2, <3>3, EnqueueFact
        <3>5. ASSUME NEW w \in kernel PROVE w.seq # NextSeq
            <4>1. w.seq \in Nat /\ w.seq < NextSeq
                BY <1>3, Dri2Assumption DEF TypeInv, NumbersInv
            <4>. QED
                BY <1>9, <4>1
        <3>6. CASE queue'[i] = q(e)
            <4>1. v.at = x.at
                BY <1>2, <2>3, <3>2, <3>5, <3>6
            <4>2. asked'[info'[e].request].target = Target(t)
                BY <1>7, <1>8, <1>10, <1>11
            <4>. QED
                BY <1>5, <1>13, <3>2, <3>6, <4>1, <4>2
        <3>7. CASE \E j \in DOMAIN queue : queue'[i] = queue[j]
            <4>1. PICK j \in DOMAIN queue : queue'[i] = queue[j]
                BY <3>7
            <4>. DEFINE f == queue[j].data
            <4>2. v \in kernel
                BY <1>2, <2>3, <3>3, <4>1
            <4>3. f \in Live /\ info'[f] = info[f] /\ info[f].drawable # None
                BY <1>11, <2>3, <3>3, <4>1
            <4>4. /\ info[f].request \in DOMAIN asked
                  /\ asked'[info[f].request] = asked[info[f].request]
                BY <1>3, <1>10, <4>3 DEF RequestsInv
            <4>5. v.at + crtc.offset >= asked[info[f].request].target
                BY <1>3, <2>3, <4>1, <4>2, <4>3 DEF OnTimeInv
            <4>6. asked[info[f].request].target \in Int /\ v.at \in Nat
                BY <1>3, <4>2, <4>4, RecordTypes DEF TypeInv
            <4>. HIDE DEF f
            <4>7. v.at + crtc'.offset >= asked[info[f].request].target
                BY <1>4, <1>5, <1>13, <4>5, <4>6
            <4>. QED
                BY <4>1, <4>3, <4>4, <4>7 DEF f
        <3>. QED
            BY <3>4, <3>6, <3>7
    <2>. QED
        BY <2>1, <2>2, <2>3 DEF OnTimeInv
<1>. QED
    BY <1>13, <1>14, <1>15

LEMMA RefusedAnswers ==
    ASSUME NEW n \in Nat, EnoughFrames(n), NoRefusedWait, AnswerInv(n), TrackInv',
           NEW kind \in {"wait", "swap"}, NEW c, NEW d, NEW t \in Targets, NEW eq \in Equations,
           Refused(kind, c, d, t, eq)
    PROVE  RequestsInv' /\ OffsetInv(n)' /\ OnTimeInv'
<1>1. /\ queue' = queue /\ crtc' = Timing(kind, Target(t), eq).crtc
      /\ asked' = Append(asked, Over("over"))
      /\ UNCHANGED <<info, client_list, drawable_list, outside>>
    BY DEF Refused, Leftover, NoRefusedWait
<1>2. TrackInv /\ TypeInv /\ NumbersInv /\ OffsetInv(n)
    BY DEF AnswerInv, TrackInv
<1>3. /\ crtc'.high = 0 /\ crtc'.prev = frame + crtc.offset /\ crtc' \in Crtcs
      /\ crtc.offset <= crtc'.offset /\ crtc'.offset <= crtc.offset + n
    BY <1>1, <1>2, TimingFact
<1>4. /\ crtc.offset \in Nat /\ frame \in Nat /\ frame <= MaxFrame /\ MaxFrame \in Nat
    BY <1>2, RoomFact, Dri2Assumption
<1>5. crtc'.offset \in Int
    BY <1>3 DEF Crtcs
<1>6. Len(asked') = Len(asked) + 1
    BY <1>1, <1>2, OverType, AskFact DEF TypeInv
<1>7. OffsetInv(n)'
    <2>1. crtc'.prev <= MaxFrame + crtc'.offset /\ frame' <= MaxFrame
        BY <1>1, <1>3, <1>4, <1>5 DEF outside
    <2>. QED
        BY <1>2, <1>3, <1>5, <1>6, <2>1, OffsetGrows
<1>8. RequestsInv' /\ OnTimeInv'
    <2>1. UNCHANGED <<links, kernel>> /\ crtc'.offset >= crtc.offset
        BY <1>1, <1>3, <1>4, <1>5 DEF links, outside
    <2>. QED
        BY <1>1, <2>1, OverAtOnce
<1>. QED
    BY <1>7, <1>8

LEMMA CompleteAtOnceAnswers ==
    ASSUME NEW n \in Nat, AnswerInv(n), TrackInv', NEW kind, NEW c, NEW d,
           CompleteAtOnce(kind, c, d)
    PROVE  RequestsInv' /\ OffsetInv(n)' /\ OnTimeInv'
<1>1. /\ asked' = Append(asked, Over("over")) /\ UNCHANGED <<links, crtc, outside>>
    BY DEF CompleteAtOnce
<1>2. TrackInv /\ OffsetInv(n)
    BY DEF AnswerInv
<1>3. crtc.offset \in Int
    BY <1>2 DEF TrackInv, TypeInv, Crtcs
<1>4. RequestsInv' /\ OnTimeInv'
    BY <1>1, <1>3, OverAtOnce DEF outside
<1>5. Len(asked') = Len(asked) + 1
    BY <1>1, <1>2, OverType, AskFact DEF TrackInv, TypeInv
<1>6. OffsetInv(n)'
    <2>1. crtc'.offset <= crtc.offset + n
        BY <1>1, <1>3
    <2>2. /\ frame' <= MaxFrame /\ crtc'.high = 0 /\ crtc'.prev <= MaxFrame + crtc'.offset
          /\ crtc.offset <= crtc'.offset /\ crtc'.offset \in Int
        BY <1>1, <1>2, <1>3 DEF OffsetInv, outside
    <2>. QED
        BY <1>2, <1>5, <2>1, <2>2, OffsetGrows
<1>. QED
    BY <1>4, <1>6

LEMMA GetMscAnswers ==
    ASSUME NEW n \in Nat, EnoughFrames(n), AnswerInv(n), TrackInv', GetMsc
    PROVE  RequestsInv' /\ OffsetInv(n)' /\ OnTimeInv'
<1>1. /\ crtc' = ToCrtcMsc(crtc, frame % Wrap).crtc /\ UNCHANGED <<links, outside, asked>>
    BY DEF GetMsc
<1>2. frame \in Nat /\ frame <= MaxFrame
    BY DEF AnswerInv, TrackInv, TypeInv, OffsetInv
<1>3. OffsetInv(n)' /\ crtc'.offset = crtc.offset
    BY <1>1, <1>2, ConvertInv DEF outside
<1>. QED
    BY <1>1, <1>3, CalmAnswers DEF outside

\* Steps that concern neither events nor counts.
LEMMA OtherAnswers ==
    ASSUME NEW n \in Nat, AnswerInv(n), TrackInv', frame' <= MaxFrame,
           UNCHANGED <<links, kernel, asked, crtc>>
    PROVE  RequestsInv' /\ OffsetInv(n)' /\ OnTimeInv'
<1>1. RequestsInv' /\ OnTimeInv'
    BY CalmAnswers
<1>2. OffsetInv(n)'
    BY DEF AnswerInv, OffsetInv
<1>. QED
    BY <1>1, <1>2

\* Steps that end requests, and leave the counts alone.
LEMMA GoneAnswers ==
    ASSUME NEW n \in Nat, AnswerInv(n), TrackInv', NEW key, NEW x, asked' = GoneBy(key, x),
           Live' \subseteq Live,
           \A e \in Live' :
              /\ info'[e].request = info[e].request /\ info'[e].client = info[e].client
              /\ info'[e].drawable # None =>
                    /\ info'[e].drawable = info[e].drawable
                    /\ asked[info[e].request][key] # x,
           \A i \in DOMAIN queue' : \E j \in DOMAIN queue : queue'[i] = queue[j],
           UNCHANGED <<kernel, crtc, frame>>
    PROVE  RequestsInv' /\ OffsetInv(n)' /\ OnTimeInv'
<1>1. TrackInv /\ RequestsInv /\ OnTimeInv /\ OffsetInv(n)
    BY DEF AnswerInv
<1>2. /\ Len(asked') = Len(asked) /\ DOMAIN asked' = DOMAIN asked
      /\ \A r \in DOMAIN asked : asked'[r] =
            IF asked[r].state = "pending" /\ asked[r][key] = x THEN Over("over") ELSE asked[r]
    BY <1>1, GoneType DEF TrackInv, TypeInv
<1>3. \A e \in Live' :
         /\ info'[e].request = info[e].request /\ info'[e].client = info[e].client
         /\ info'[e].drawable # None =>
               /\ info'[e].drawable = info[e].drawable
               /\ asked'[info[e].request] = asked[info[e].request]
    BY <1>1, <1>2 DEF RequestsInv
<1>4. \A r \in DOMAIN asked' : asked'[r].state \notin {"astray", "early"}
    <2>1. Over("over").state = "over"
        BY DEF Over
    <2>. QED
        BY <1>1, <1>2, <2>1 DEF RequestsInv, OnTimeInv
<1>5. crtc'.offset >= crtc.offset /\ Len(asked) <= Len(asked') /\ kernel' \subseteq kernel
    BY <1>1, <1>2 DEF TrackInv, TypeInv, Crtcs
<1>6. RequestsInv' /\ OnTimeInv'
    BY <1>1, <1>3, <1>4, <1>5, StayFact
<1>7. OffsetInv(n)'
    BY <1>1, <1>2 DEF OffsetInv
<1>. QED
    BY <1>6, <1>7

LEMMA ClientGoneAnswers ==
    ASSUME NEW n \in Nat, AnswerInv(n), TrackInv', NEW c \in Clients, ClientGone(c)
    PROVE  RequestsInv' /\ OffsetInv(n)' /\ OnTimeInv'
<1>. DEFINE F == {e \in Live : info[e].client = c}
            Q == UNION {Entry(e) : e \in client_list[c]}
<1>1. TypeInv /\ NumbersInv /\ EventsTracked /\ BufferInv /\ RequestsInv
    BY DEF AnswerInv, TrackInv
<1>2. /\ clients' = clients \ {c} /\ queue' = Without(queue, Q)
      /\ DelFrameEvents({q.data : q \in Q}, client_list[c]) /\ asked' = GoneBy("client", c)
      /\ UNCHANGED <<drm_seq, crtc, windows, kernel, frame>>
    BY DEF ClientGone
<1>3. client_list[c] = F
    BY <1>1 DEF EventsTracked
<1>4. queue \in Seq(Entries) /\ Distinct(queue) /\ DataOf(queue) = Live
    BY <1>1 DEF TypeInv, EventsTracked, Distinct, DataOf
<1>5. ASSUME NEW e \in Live PROVE \E i \in DOMAIN queue : queue[i].data = e /\ Entry(e) = {queue[i]}
    BY <1>4, EntryFact
<1>6. Q \subseteq {queue[i] : i \in DOMAIN queue} /\ {q.data : q \in Q} = F
    BY <1>3, <1>5
<1>. HIDE DEF Q
<1>7. \A m \in DOMAIN queue' : \E j \in DOMAIN queue : queue'[m] = queue[j]
    BY <1>2, <1>4, <1>6, RemoveFact
<1>8. F \in SUBSET Live /\ DelFrameEvents(F, F)
    BY <1>2, <1>3, <1>6
<1>. HIDE DEF F
<1>9. Live' = Live \ F /\ \A e \in Live' : info'[e] = info[e]
    BY <1>1, <1>2, <1>8, DelFact
<1>10. \A e \in Live' : info'[e].drawable # None => asked[info[e].request]["client"] # c
    BY <1>1, <1>9 DEF RequestsInv, F
<1>11. Live' \subseteq Live /\ \A e \in Live' :
         /\ info'[e].request = info[e].request /\ info'[e].client = info[e].client
         /\ info'[e].drawable # None =>
               /\ info'[e].drawable = info[e].drawable
               /\ asked[info[e].request]["client"] # c
    BY <1>9, <1>10
<1>. QED
    BY <1>2, <1>7, <1>11, GoneAnswers

LEMMA DrawableGoneAnswers ==
    ASSUME NEW n \in Nat, AnswerInv(n), TrackInv', NEW d \in Drawables, DrawableGone(d)
    PROVE  RequestsInv' /\ OffsetInv(n)' /\ OnTimeInv'
<1>1. /\ info' = [e \in Events |-> IF e \in drawable_list[d]
                    THEN [info[e] EXCEPT !.drawable = None] ELSE info[e]]
      /\ asked' = GoneBy("drawable", d)
      /\ UNCHANGED <<queue, crtc, kernel, frame>>
    BY DEF DrawableGone
<1>2. TrackInv /\ RequestsInv /\ None \notin FrameEvents
    BY Dri2Assumption DEF AnswerInv
<1>3. drawable_list[d] = {e \in Live : info[e].drawable = d}
    BY <1>2 DEF TrackInv, EventsTracked
<1>4. ASSUME NEW e \in Live'
      PROVE  /\ e \in Live
             /\ info'[e].request = info[e].request /\ info'[e].client = info[e].client
             /\ info'[e].drawable # None => info'[e].drawable = info[e].drawable /\ info[e].drawable # d
    <2>1. e \in Events
        BY DEF Live
    <2>2. CASE e \in drawable_list[d]
        <3>1. info'[e] = [info[e] EXCEPT !.drawable = None] /\ e \in Live
            BY <1>1, <1>3, <2>1, <2>2
        <3>2. info[e] \in FrameEvents
            BY <1>2, <3>1, RecordTypes
        <3>. QED
            BY <3>1, <3>2 DEF FrameEvents
    <2>3. CASE e \notin drawable_list[d]
        <3>1. info'[e] = info[e]
            BY <1>1, <2>1, <2>3
        <3>2. e \in Live
            BY <3>1 DEF Live
        <3>. QED
            BY <1>3, <2>3, <3>1, <3>2
    <2>. QED
        BY <2>2, <2>3
<1>5. Live' \subseteq Live /\ \A e \in Live' :
         /\ info'[e].request = info[e].request /\ info'[e].client = info[e].client
         /\ info'[e].drawable # None =>
               /\ info'[e].drawable = info[e].drawable
               /\ asked[info[e].request]["drawable"] # d
    BY <1>2, <1>4 DEF RequestsInv
<1>. QED
    BY <1>1, <1>5, GoneAnswers

LEMMA ScreenExitAnswers ==
    ASSUME NEW n \in Nat, AnswerInv(n), TrackInv', ScreenExit
    PROVE  RequestsInv' /\ OffsetInv(n)' /\ OnTimeInv'
<1>1. /\ queue' = <<>> /\ UNCHANGED <<crtc, outside, asked>>
    BY DEF ScreenExit
<1>2. TrackInv /\ RequestsInv /\ OnTimeInv /\ OffsetInv(n)
    BY DEF AnswerInv
<1>3. Live' = {}
    BY <1>1 DEF TrackInv, EventsTracked
<1>4. \A r \in DOMAIN asked' : asked'[r].state \notin {"astray", "early"}
    BY <1>1, <1>2 DEF RequestsInv, OnTimeInv
<1>5. /\ crtc'.offset >= crtc.offset /\ Len(asked) <= Len(asked') /\ kernel' \subseteq kernel
      /\ DOMAIN queue' = {}
    BY <1>1, <1>2 DEF TrackInv, TypeInv, Crtcs, outside
<1>6. RequestsInv' /\ OnTimeInv'
    BY <1>2, <1>3, <1>4, <1>5, StayFact
<1>7. OffsetInv(n)'
    BY <1>1, <1>2 DEF OffsetInv, outside
<1>. QED
    BY <1>6, <1>7

LEMMA HandleEventAnswers ==
    ASSUME NEW n \in Nat, EnoughFrames(n), AnswerInv(n), TrackInv', NEW v \in kernel,
           HandleEvent(v)
    PROVE  RequestsInv' /\ OffsetInv(n)' /\ OnTimeInv'
<1>1. /\ TypeInv /\ NumbersInv /\ EventsTracked /\ BufferInv /\ TrackInv
      /\ RequestsInv /\ OffsetInv(n) /\ OnTimeInv
    BY DEF AnswerInv, TrackInv
<1>2. kernel' = kernel \ {v} /\ UNCHANGED <<drm_seq, clients, windows, frame>>
    BY DEF HandleEvent
<1>3. crtc.offset \in Int /\ v.at \in Nat /\ v.at <= MaxFrame /\ frame <= MaxFrame
    BY <1>1 DEF TypeInv, Crtcs, OnTimeInv, OffsetInv
<1>4. CASE Newest({i \in DOMAIN queue : queue[i].seq = v.seq}) = {}
    <2>1. UNCHANGED <<links, crtc, asked>>
        BY <1>4 DEF HandleEvent
    <2>2. Live' = Live
        BY <2>1 DEF links, Live
    <2>3. \A r \in DOMAIN asked' : asked'[r].state \notin {"astray", "early"}
        BY <1>1, <2>1 DEF RequestsInv, OnTimeInv
    <2>4. Len(asked) <= Len(asked') /\ crtc'.offset >= crtc.offset /\ kernel' \subseteq kernel
        BY <1>1, <1>2, <1>3, <2>1 DEF TypeInv
    <2>5. RequestsInv' /\ OnTimeInv'
        BY <1>1, <2>1, <2>2, <2>3, <2>4, StayFact DEF links
    <2>6. OffsetInv(n)'
        BY <1>1, <1>2, <2>1 DEF OffsetInv
    <2>. QED
        BY <2>5, <2>6
<1>5. CASE Newest({i \in DOMAIN queue : queue[i].seq = v.seq}) # {}
    <2>. DEFINE msc == ToCrtcMsc(crtc, v.at % Wrap).msc
    <2>1. PICK i \in DOMAIN queue :
              LET e == queue[i].data
                  k == ToCrtcMsc(crtc, v.at % Wrap)
              IN  /\ queue[i].seq = v.seq /\ e \in Live
                  /\ crtc' = k.crtc
                  /\ queue' = Without(queue, {queue[i]})
                  /\ DelFrameEvents({e}, {})
                  /\ asked' = IF None \in {info[e].drawable, info[e].client}
                              THEN asked ELSE Answered(info[e].request, k.msc)
        BY <1>1, <1>5, FoundFact
    <2>. DEFINE e == queue[i].data
                r == info[e].request
    <2>2. queue \in Seq(Entries) /\ Distinct(queue) /\ DataOf(queue) = Live
        BY <1>1 DEF TypeInv, EventsTracked, Distinct, DataOf
    <2>3. \A m \in DOMAIN queue' : \E j \in DOMAIN queue : queue'[m] = queue[j]
        <3>1. {queue[i]} \subseteq {queue[j] : j \in DOMAIN queue}
            OBVIOUS
        <3>. QED
            BY <2>1, <2>2, <3>1, RemoveFact
    <2>4. {e} \in SUBSET Live /\ DelFrameEvents({e}, {})
        BY <2>1
    <2>5. Live' = Live \ {e} /\ \A f \in Live' : info'[f] = info[f]
        <3>. HIDE DEF e
        <3>. QED
            BY <1>1, <1>2, <2>4, DelFact
    <2>6. /\ Len(asked') = Len(asked) /\ DOMAIN asked' = DOMAIN asked
          /\ \A k \in DOMAIN asked : k # r => asked'[k] = asked[k]
          /\ asked' # asked =>
                /\ info[e].drawable # None /\ asked' = Answered(r, msc)
        BY <1>1, <2>1, AnsweredType DEF TypeInv
    <2>7. OffsetInv(n)' /\ crtc'.offset = crtc.offset /\ msc = v.at + crtc.offset
        BY <1>2, <1>3, <2>1, <2>6, ConvertInv
    <2>8. \A k \in DOMAIN asked' : asked'[k].state \notin {"astray", "early"}
        <3>1. \A k \in DOMAIN asked : asked[k].state \notin {"astray", "early"}
            BY <1>1 DEF RequestsInv, OnTimeInv
        <3>2. CASE asked' = asked
            BY <3>1, <3>2
        <3>3. CASE asked' # asked
            <4>1. info[e].drawable # None /\ asked' = Answered(r, msc)
                BY <2>6, <3>3
            <4>2. r \in DOMAIN asked /\ asked[r].state = "pending"
                BY <1>1, <2>1, <4>1 DEF RequestsInv
            <4>3. v.at + crtc.offset >= asked[r].target
                BY <1>1, <2>1, <4>1 DEF OnTimeInv
            <4>4. asked[r].target \in Int
                BY <1>1, <4>2, RecordTypes
            <4>. HIDE DEF r, msc
            <4>5. ~ (msc < asked[r].target)
                BY <1>3, <2>7, <4>3, <4>4
            <4>6. asked'[r] = Over("over")
                BY <1>1, <4>1, <4>2, <4>5, AnsweredType DEF TypeInv
            <4>7. Over("over").state = "over"
                BY DEF Over
            <4>. QED
                BY <2>6, <3>1, <4>6, <4>7
        <3>. QED
            BY <3>2, <3>3
    <2>9. ASSUME NEW f \in Live', info'[f].drawable # None
          PROVE  asked'[info[f].request] = asked[info[f].request]
        <3>1. f \in Live /\ f # e /\ info[f].drawable # None
            BY <2>5, <2>9
        <3>2. info[f].request \in DOMAIN asked /\ info[f].request # r
            BY <1>1, <2>1, <3>1 DEF RequestsInv
        <3>. QED
            BY <2>6, <3>2
    <2>10. /\ Live' \subseteq Live
           /\ \A f \in Live' :
                 /\ info'[f].request = info[f].request /\ info'[f].client = info[f].client
                 /\ info'[f].drawable # None =>
                       /\ info'[f].drawable = info[f].drawable
                       /\ asked'[info[f].request] = asked[info[f].request]
        BY <2>5, <2>9
    <2>11. Len(asked) <= Len(asked') /\ crtc'.offset >= crtc.offset /\ kernel' \subseteq kernel
        BY <1>1, <1>2, <1>3, <2>6, <2>7 DEF TypeInv
    <2>12. RequestsInv' /\ OnTimeInv'
        <3>. HIDE DEF e, r, msc
        <3>. QED
            BY <1>1, <2>3, <2>8, <2>10, <2>11, StayFact
    <2>. QED
        BY <2>7, <2>12
<1>. QED
    BY <1>4, <1>5

LEMMA InitAnswers ==
    ASSUME NEW n \in Nat, EnoughFrames(n), Init
    PROVE  AnswerInv(n)
<1>1. TrackInv
    BY InitTracked
<1>2. Live = {}
    BY DEF Init, Live
<1>3. RequestsInv
    BY <1>2 DEF Init, RequestsInv
<1>4. OffsetInv(n)
    BY Dri2Assumption DEF Init, OffsetInv, EnoughFrames
<1>5. OnTimeInv
    BY DEF Init, OnTimeInv
<1>. QED
    BY <1>1, <1>3, <1>4, <1>5 DEF AnswerInv

LEMMA StepAnswers ==
    ASSUME NEW n \in Nat, EnoughFrames(n), NoRefusedWait, EnoughNumbers, AnswerInv(n),
           [Next]_vars
    PROVE  AnswerInv(n)'
<1>1. TrackInv'
    BY StepTracked DEF AnswerInv
<1>2. frame <= MaxFrame /\ frame \in Nat /\ MaxFrame \in Nat
    BY Dri2Assumption DEF AnswerInv, OffsetInv, TrackInv, TypeInv
<1>3. RequestsInv' /\ OffsetInv(n)' /\ OnTimeInv'
    <2>1. CASE UNCHANGED vars
        BY <1>1, <1>2, <2>1, OtherAnswers DEF vars, outside
    <2>2. ASSUME NEW d \in Drawables, CreateBuffers(d) \/ DestroyBuffers(d) \/ CreateWindow(d)
          PROVE  RequestsInv' /\ OffsetInv(n)' /\ OnTimeInv'
        <3>1. UNCHANGED <<links, kernel, asked, crtc, frame>>
            BY <2>2 DEF CreateBuffers, DestroyBuffers, CreateWindow, outside
        <3>. QED
            BY <1>1, <1>2, <3>1, OtherAnswers
    <2>3. CASE \E kind \in {"wait", "swap"}, c \in Clients, d \in Drawables :
                  \/ CompleteAtOnce(kind, c, d)
                  \/ \E t \in Targets, eq \in Equations : Refused(kind, c, d, t, eq)
        BY <1>1, <2>3, CompleteAtOnceAnswers, RefusedAnswers
    <2>4. CASE \E c \in Clients, d \in Drawables, t \in Targets, eq \in Equations :
                  ScheduleWait(c, d, t, eq) \/ ScheduleSwap(c, d, t, eq)
        BY <1>1, <2>4, ScheduleAnswers DEF ScheduleWait, ScheduleSwap
    <2>5. CASE GetMsc
        BY <1>1, <2>5, GetMscAnswers
    <2>6. CASE Vblank
        <3>1. frame' <= MaxFrame /\ UNCHANGED <<links, kernel, asked, crtc>>
            BY <1>2, <2>6 DEF Vblank
        <3>. QED
            BY <1>1, <3>1, OtherAnswers
    <2>7. CASE \E v \in kernel : HandleEvent(v)
        BY <1>1, <2>7, HandleEventAnswers
    <2>8. ASSUME NEW c \in Clients, Connect(c)
          PROVE  RequestsInv' /\ OffsetInv(n)' /\ OnTimeInv'
        <3>1. UNCHANGED <<links, kernel, asked, crtc, frame>>
            BY <2>8 DEF Connect
        <3>. QED
            BY <1>1, <1>2, <3>1, OtherAnswers
    <2>9. CASE \E c \in Clients : ClientGone(c)
        BY <1>1, <2>9, ClientGoneAnswers
    <2>10. CASE \E d \in Drawables : DrawableGone(d)
        BY <1>1, <2>10, DrawableGoneAnswers
    <2>11. CASE ScreenExit
        BY <1>1, <2>11, ScreenExitAnswers
    <2>. QED
        BY <2>1, <2>2, <2>3, <2>4, <2>5, <2>6, <2>7, <2>8, <2>9, <2>10, <2>11 DEF Next
<1>. QED
    BY <1>1, <1>3 DEF AnswerInv

\* A request is answered at most once, not after its client or drawable is
\* gone, and not before its target, however requests move the offset of the
\* CRTC in the meantime: as long as all frames that are asked for fit into a
\* quarter of the kernel's counter.
THEOREM AnswersInTime ==
    ASSUME NEW n \in Nat, EnoughFrames(n), NoRefusedWait, EnoughNumbers
    PROVE  Spec => []AnswersRight
<1>1. Init => AnswerInv(n)
    BY InitAnswers
<1>2. AnswerInv(n) /\ [Next]_vars => AnswerInv(n)'
    BY StepAnswers
<1>3. AnswerInv(n) => AnswersRight
    BY DEF AnswerInv, RequestsInv, OnTimeInv, AnswersRight
<1>. QED
    BY <1>1, <1>2, <1>3, PTL DEF Spec

-----------------------------------------------------------------------------
(* The frame count a client is told.                                       *)

MscIs == Msc = frame + crtc.offset /\ frame \in Nat /\ crtc.offset \in Nat

LEMMA MscFact ==
    ASSUME NEW n \in Nat, EnoughFrames(n), AnswerInv(n)
    PROVE  MscIs
<1>1. TypeInv /\ NumbersInv /\ OffsetInv(n)
    BY DEF AnswerInv, TrackInv
<1>2. /\ crtc \in Crtcs /\ crtc.offset \in Nat /\ crtc.prev \in Nat /\ frame \in Nat
      /\ frame <= MaxFrame /\ Wrap \div 4 \in Nat /\ crtc.high = 0
      /\ MaxFrame + crtc.offset + n < Wrap \div 4
      /\ crtc.prev < Wrap \div 4 /\ MaxFrame \in Nat
    BY <1>1, RoomFact, Dri2Assumption
<1>3. frame % Wrap = frame /\ frame + crtc.offset < Wrap \div 4
    BY <1>2, ModSmall
<1>4. ToCrtcMsc(crtc, frame).msc = frame + crtc.offset
    BY <1>2, <1>3, ConvertFact
<1>. QED
    BY <1>2, <1>3, <1>4 DEF Msc, MscIs

\* A request may move the offset of the CRTC, and then upwards.
LEMMA AskedMoves ==
    ASSUME NEW n \in Nat, EnoughFrames(n), AnswerInv(n), NEW kind \in {"wait", "swap"},
           NEW t \in Targets, NEW eq \in Equations, NEW x, x = Timing(kind, Target(t), eq)
    PROVE  /\ x.crtc \in Crtcs /\ x.crtc.high = 0 /\ x.crtc.offset \in Nat
           /\ crtc.offset <= x.crtc.offset /\ x.at \in Nat
           /\ x.at <= MaxFrame => ToCrtcMsc(x.crtc, x.at % Wrap).crtc.offset = x.crtc.offset
<1>1. TypeInv /\ NumbersInv /\ OffsetInv(n)
    BY DEF AnswerInv, TrackInv
<1>2. /\ crtc \in Crtcs /\ crtc.offset \in Nat /\ frame \in Nat
      /\ frame <= MaxFrame /\ Wrap \div 4 \in Nat
      /\ MaxFrame + crtc.offset + n < Wrap \div 4 /\ MaxFrame \in Nat
    BY <1>1, RoomFact, Dri2Assumption
<1>3. /\ x.crtc \in Crtcs /\ x.crtc.high = 0
      /\ x.crtc.prev = frame + crtc.offset
      /\ crtc.offset <= x.crtc.offset /\ x.crtc.offset <= crtc.offset + n
      /\ x.at \in Nat
    BY <1>1, TimingFact
<1>4. x.crtc.offset \in Nat
    <2>1. x.crtc.offset \in Int
        BY <1>3 DEF Crtcs
    <2>. QED
        BY <1>2, <1>3, <2>1
<1>5. ASSUME x.at <= MaxFrame
      PROVE  ToCrtcMsc(x.crtc, x.at % Wrap).crtc.offset = x.crtc.offset
    <2>1. /\ x.at % Wrap = x.at /\ x.at + x.crtc.offset < Wrap \div 4
          /\ x.crtc.prev < Wrap \div 4
        BY <1>2, <1>3, <1>4, <1>5, ModSmall
    <2>. QED
        BY <1>3, <1>4, <2>1, ConvertFact
<1>. QED
    BY <1>3, <1>4, <1>5

LEMMA MscGrows ==
    ASSUME NEW n \in Nat, EnoughFrames(n), AnswerInv(n), [Next]_vars
    PROVE  frame' >= frame /\ crtc'.offset >= crtc.offset
<1>1. frame \in Nat /\ crtc.offset \in Nat /\ MaxFrame \in Nat /\ frame <= MaxFrame
    BY MscFact, Dri2Assumption DEF AnswerInv, OffsetInv, MscIs
<1>2. CASE UNCHANGED <<crtc, frame>>
    BY <1>1, <1>2
<1>3. ASSUME NEW kind \in {"wait", "swap"}, NEW c \in Clients, NEW d \in Drawables,
             NEW t \in Targets, NEW eq \in Equations, Schedule(kind, c, d, t, eq)
      PROVE  frame' >= frame /\ crtc'.offset >= crtc.offset
    <2>1. PICK x : x = Timing(kind, Target(t), eq)
        OBVIOUS
    <2>2. x.at <= MaxFrame /\ crtc' = ToCrtcMsc(x.crtc, x.at % Wrap).crtc /\ frame' = frame
        BY <1>3, <2>1 DEF Schedule
    <2>3. crtc'.offset = x.crtc.offset /\ x.crtc.offset >= crtc.offset
        BY <1>1, <2>1, <2>2, AskedMoves
    <2>. QED
        BY <1>1, <2>2, <2>3
<1>4. ASSUME NEW kind \in {"wait", "swap"}, NEW c, NEW d,
             NEW t \in Targets, NEW eq \in Equations, Refused(kind, c, d, t, eq)
      PROVE  frame' >= frame /\ crtc'.offset >= crtc.offset
    <2>1. PICK x : x = Timing(kind, Target(t), eq)
        OBVIOUS
    <2>2. crtc' = x.crtc /\ frame' = frame
        BY <1>4, <2>1 DEF Refused, outside
    <2>3. x.crtc.offset >= crtc.offset
        BY <1>1, <2>1, AskedMoves
    <2>. QED
        BY <1>1, <2>2, <2>3
<1>5. CASE GetMsc
    <2>1. /\ crtc' = ToCrtcMsc(crtc, frame % Wrap).crtc /\ frame' = frame /\ asked' = asked
        BY <1>5 DEF GetMsc, outside
    <2>2. crtc'.offset = crtc.offset
        BY <1>1, <2>1, ConvertInv
    <2>. QED
        BY <1>1, <2>1, <2>2
<1>6. CASE Vblank
    BY <1>1, <1>6 DEF Vblank
<1>7. ASSUME NEW v \in kernel, HandleEvent(v)
      PROVE  frame' >= frame /\ crtc'.offset >= crtc.offset
    <2>1. frame' = frame
        BY <1>7 DEF HandleEvent
    <2>2. crtc' = crtc \/ crtc' = ToCrtcMsc(crtc, v.at % Wrap).crtc
        BY <1>7 DEF HandleEvent
    <2>3. v.at \in Nat /\ v.at <= frame
        BY <1>7 DEF HandleEvent, AnswerInv, TrackInv, TypeInv
    <2>4. CASE crtc' # crtc
        <3>1. v.at <= MaxFrame
            BY <1>1, <2>3
        <3>2. /\ crtc \in Crtcs /\ crtc.high = 0 /\ crtc.prev < Wrap \div 4
              /\ MaxFrame + crtc.offset + n < Wrap \div 4 /\ Wrap \div 4 \in Nat
            BY RoomFact DEF AnswerInv, TrackInv
        <3>3. v.at % Wrap = v.at /\ v.at + crtc.offset < Wrap \div 4
            BY <1>1, <2>3, <3>1, <3>2, ModSmall
        <3>4. ToCrtcMsc(crtc, v.at).crtc.offset = crtc.offset
            BY <1>1, <2>3, <3>2, <3>3, ConvertFact
        <3>. QED
            BY <1>1, <2>1, <2>2, <2>4, <3>3, <3>4
    <2>. QED
        BY <1>1, <2>1, <2>4
<1>8. ASSUME NEW c, ClientGone(c) \/ Connect(c) PROVE UNCHANGED <<crtc, frame>>
    BY <1>8 DEF ClientGone, Connect
<1>9. ASSUME NEW d, DrawableGone(d) \/ CreateWindow(d) PROVE UNCHANGED <<crtc, frame>>
    BY <1>9 DEF DrawableGone, CreateWindow
<1>10. ASSUME NEW d, CreateBuffers(d) \/ DestroyBuffers(d) PROVE UNCHANGED <<crtc, frame>>
    BY <1>10 DEF CreateBuffers, DestroyBuffers, outside
<1>11. ASSUME NEW kind, NEW c, NEW d, CompleteAtOnce(kind, c, d)
       PROVE  UNCHANGED <<crtc, frame>>
    BY <1>11 DEF CompleteAtOnce, outside
<1>12. CASE ScreenExit \/ UNCHANGED vars
    BY <1>2, <1>12 DEF ScreenExit, outside, vars
<1>. QED
    BY <1>2, <1>3, <1>4, <1>5, <1>6, <1>7, <1>8, <1>9, <1>10, <1>11, <1>12
       DEF Next, ScheduleWait, ScheduleSwap

\* The frame count that a client is told never goes back, whatever requests
\* do to the offset of the CRTC, under the same conditions.
THEOREM MscAlways ==
    ASSUME NEW n \in Nat, EnoughFrames(n), NoRefusedWait, EnoughNumbers
    PROVE  Spec => MscMonotone
<1>1. Init => AnswerInv(n)
    BY InitAnswers
<1>2. AnswerInv(n) /\ [Next]_vars => AnswerInv(n)'
    BY StepAnswers
<1>3. AnswerInv(n) => MscIs
    BY MscFact
<1>4. ASSUME AnswerInv(n), [Next]_vars, MscIs, MscIs' PROVE Msc' >= Msc
    <2>1. frame' >= frame /\ crtc'.offset >= crtc.offset
        BY <1>4, MscGrows
    <2>. QED
        BY <1>4, <2>1 DEF MscIs
<1>. QED
    BY <1>1, <1>2, <1>3, <1>4, PTL DEF Spec, MscMonotone

=============================================================================
