---------------------------- MODULE RenderGpu_proof ---------------------------
(***************************************************************************)
(* Proofs about the fences and the queues of accelerated drawing.          *)
(***************************************************************************)
EXTENDS RenderInv, TLAPS, FiniteSetTheorems, WellFoundedInduction

LEMMA EnginesFact == "2D" \in Engines /\ "3D" \in Engines /\ Other("2D") = "3D" /\ Other("3D") = "2D"
BY DEF Engines, Other

LEMMA NumbersFact ==
    /\ Fences \subseteq Nat \ {0} /\ Handle = Fences \cup {0} /\ NoFence = 0 /\ NoFence \notin Fences
    /\ \A h \in Handle : h \in Nat /\ (h \in Fences \/ h = NoFence)
BY RenderAssumption DEF Fences, Handle, NoFence

LEMMA SlotsFact ==
    ASSUME NEW p \in Pixmaps, NEW e \in Engines, NEW k \in {"write", "read"}
    PROVE  <<p, e, k>> \in Slots /\ <<p, e, k>>[2] = e
BY DEF Slots

\* The latest of some fences is one of them.
LEMMA LatestFact ==
    ASSUME NEW S, S \subseteq Handle
    PROVE  /\ Latest(S) \in Handle
           /\ \A f \in S : f <= Latest(S)
           /\ Latest(S) = NoFence \/ Latest(S) \in S
<1>. DEFINE T == {NoFence} \cup S
            D == {MaxFences - x : x \in T}
            R == {ss \in Nat \X Nat : ss[1] < ss[2]}
<1>1. T \subseteq 0..MaxFences /\ MaxFences \in Nat /\ NoFence \in T
    BY RenderAssumption DEF Handle, Fences, NoFence
<1>2. D \subseteq Nat /\ D # {}
    <2>1. \A x \in T : MaxFences - x \in Nat
        BY <1>1
    <2>. QED
        BY <1>1, <2>1
<1>3. IsWellFoundedOn(R, Nat)
    BY NatLessThanWellFounded DEF OpToRel
<1>4. PICK m \in D : \A n \in D : ~ (<<n, m>> \in R)
    <2>. HIDE DEF R, D
    <2>. QED
        BY <1>2, <1>3, WFMin
<1>5. PICK x \in T : m = MaxFences - x
    OBVIOUS
<1>6. \A y \in T : x >= y
    <2>1. TAKE y \in T
    <2>2. MaxFences - y \in D /\ ~ (<<MaxFences - y, m>> \in R)
        BY <1>4
    <2>3. MaxFences - y \in Nat /\ m \in Nat
        BY <1>1, <1>2
    <2>4. ~ (MaxFences - y < m)
        BY <2>2, <2>3
    <2>. QED
        BY <1>1, <1>5, <2>4
<1>7. Latest(S) \in T /\ \A y \in T : Latest(S) >= y
    <2>. HIDE DEF T
    <2>1. Latest(S) = CHOOSE z \in T : \A y \in T : z >= y
        BY DEF Latest, Max, T
    <2>. QED
        BY <1>6, <2>1
<1>. QED
    BY <1>1, <1>7 DEF Handle, Fences

LEMMA JobFact ==
    ASSUME GpuType, NEW e \in Engines, NEW j \in Queued(e)
    PROVE  j \in Jobs /\ j.fence \in Fences /\ j.wait \in Handle /\ j.fence \in QF(e)
<1>1. PICK i \in DOMAIN queue[e] : j = queue[e][i]
    BY DEF Queued
<1>2. queue[e] \in Seq(Jobs)
    BY DEF GpuType
<1>3. j \in Jobs
    BY <1>1, <1>2
<1>. QED
    BY <1>3 DEF Queued, Jobs, QF

\* A job is queued behind the others.
LEMMA AppendFact ==
    ASSUME GpuType, QueueInv, NEW e \in Engines, NEW j \in Jobs,
           queue' = [queue EXCEPT ![e] = Append(@, j)],
           \A f \in QF(e) : f < j.fence
    PROVE  /\ queue' \in [Engines -> Seq(Jobs)]
           /\ queue'[e] # <<>>
           /\ Queued(e)' = Queued(e) \cup {j} /\ QF(e)' = QF(e) \cup {j.fence}
           /\ \A d \in Engines \ {e} : /\ queue'[d] = queue[d] /\ Queued(d)' = Queued(d)
                                       /\ QF(d)' = QF(d)
           /\ \A d \in Engines : \A k, l \in DOMAIN queue'[d] :
                 k < l => queue'[d][k].fence < queue'[d][l].fence
<1>. DEFINE q == queue[e]
            n == Len(q)
<1>1. queue \in [Engines -> Seq(Jobs)] /\ q \in Seq(Jobs) /\ n \in Nat
    BY DEF GpuType
<1>2. queue'[e] = Append(q, j) /\ \A d \in Engines \ {e} : queue'[d] = queue[d]
    BY <1>1
<1>3. queue' \in [Engines -> Seq(Jobs)]
    BY <1>1
<1>4. /\ DOMAIN Append(q, j) = 1..(n + 1) /\ Append(q, j)[n + 1] = j
      /\ \A i \in 1..n : Append(q, j)[i] = q[i]
      /\ DOMAIN q = 1..n
    BY <1>1
<1>5. Queued(e)' = Queued(e) \cup {j}
    <2>1. Queued(e)' = {Append(q, j)[i] : i \in 1..(n + 1)}
        BY <1>2, <1>4 DEF Queued
    <2>2. Queued(e) = {q[i] : i \in 1..n}
        BY <1>4 DEF Queued
    <2>3. 1..(n + 1) = 1..n \cup {n + 1}
        BY <1>1
    <2>. HIDE DEF q, n
    <2>4. \A x : x \in Queued(e)' <=> x \in Queued(e) \cup {j}
        BY <1>4, <2>1, <2>2, <2>3
    <2>. QED
        BY <2>4
<1>6. QF(e)' = QF(e) \cup {j.fence}
    BY <1>5 DEF QF
<1>7. \A d \in Engines \ {e} : Queued(d)' = Queued(d) /\ QF(d)' = QF(d)
    BY <1>2 DEF QF, Queued
<1>8. \A d \in Engines : \A k, l \in DOMAIN queue'[d] :
                 k < l => queue'[d][k].fence < queue'[d][l].fence
    <2>1. TAKE d \in Engines
    <2>2. CASE d # e
        BY <1>2, <2>2 DEF QueueInv
    <2>3. CASE d = e
        <3>1. TAKE k, l \in DOMAIN queue'[d]
        <3>2. HAVE k < l
        <3>3. k \in 1..n /\ l \in 1..(n + 1) /\ queue'[d][k] = q[k]
            BY <1>1, <1>2, <1>4, <2>3, <3>1, <3>2
        <3>4. q[k].fence \in QF(e)
            BY <1>4, <3>3 DEF QF, Queued
        <3>5. CASE l = n + 1
            BY <1>2, <1>4, <2>3, <3>3, <3>4, <3>5
        <3>6. CASE l \in 1..n
            BY <1>2, <1>4, <2>3, <3>2, <3>3, <3>6 DEF QueueInv
        <3>. QED
            BY <1>1, <3>3, <3>5, <3>6
    <2>. QED
        BY <2>2, <2>3
<1>9. queue'[e] # <<>>
    BY <1>1, <1>2, <1>4
<1>. QED
    BY <1>2, <1>3, <1>5, <1>6, <1>7, <1>8, <1>9

LEMMA TailSetFact ==
    ASSUME NEW S, NEW q \in Seq(S), q # <<>>
    PROVE  {Tail(q)[i] : i \in DOMAIN Tail(q)} = {q[i + 1] : i \in 1..(Len(q) - 1)}
<1>1. DOMAIN Tail(q) = 1..(Len(q) - 1) /\ \A i \in 1..(Len(q) - 1) : Tail(q)[i] = q[i + 1]
    OBVIOUS
<1>2. ASSUME NEW x \in {Tail(q)[i] : i \in DOMAIN Tail(q)} PROVE x \in {q[i + 1] : i \in 1..(Len(q) - 1)}
    <2>1. PICK i \in 1..(Len(q) - 1) : x = Tail(q)[i]
        BY <1>1
    <2>. QED
        BY <1>1, <2>1
<1>3. ASSUME NEW x \in {q[i + 1] : i \in 1..(Len(q) - 1)} PROVE x \in {Tail(q)[i] : i \in DOMAIN Tail(q)}
    <2>1. PICK i \in 1..(Len(q) - 1) : x = q[i + 1]
        OBVIOUS
    <2>2. x = Tail(q)[i]
        BY <1>1, <2>1
    <2>. QED
        BY <1>1, <2>2
<1>. QED
    BY <1>2, <1>3

\* The first job of a queue is taken from it.
LEMMA TailFact ==
    ASSUME GpuType, QueueInv, NEW e \in Engines, queue[e] # <<>>,
           queue' = [queue EXCEPT ![e] = Tail(@)]
    PROVE  LET h == Head(queue[e]) IN
           /\ queue' \in [Engines -> Seq(Jobs)]
           /\ h \in Jobs /\ Queued(e) = Queued(e)' \cup {h} /\ QF(e) = QF(e)' \cup {h.fence}
           /\ \A f \in QF(e)' : h.fence < f
           /\ \A d \in Engines \ {e} : /\ queue'[d] = queue[d] /\ Queued(d)' = Queued(d)
                                       /\ QF(d)' = QF(d)
           /\ \A d \in Engines : \A k, l \in DOMAIN queue'[d] :
                 k < l => queue'[d][k].fence < queue'[d][l].fence
           /\ queue'[e] # <<>> => \E f \in QF(e)' : \A g \in QF(e) : g <= f
<1>. DEFINE q == queue[e]
            n == Len(q)
            h == Head(q)
<1>1. queue \in [Engines -> Seq(Jobs)] /\ q \in Seq(Jobs) /\ n \in Nat \ {0} /\ q # <<>>
    BY DEF GpuType
<1>2. queue'[e] = Tail(q) /\ \A d \in Engines \ {e} : queue'[d] = queue[d]
    BY <1>1
<1>3. queue' \in [Engines -> Seq(Jobs)] /\ h \in Jobs
    BY <1>1
<1>4. /\ DOMAIN q = 1..n /\ h = q[1] /\ DOMAIN Tail(q) = 1..(n - 1)
      /\ \A i \in 1..(n - 1) : Tail(q)[i] = q[i + 1]
    BY <1>1
<1>5. Queued(e) = Queued(e)' \cup {h}
    <2>1. Queued(e)' = {q[i + 1] : i \in 1..(n - 1)}
        <3>1. Queued(e)' = {Tail(q)[i] : i \in DOMAIN Tail(q)}
            BY <1>2 DEF Queued
        <3>. QED
            BY <1>1, <3>1, TailSetFact
    <2>2. Queued(e) = {q[i] : i \in 1..n}
        BY <1>4 DEF Queued
    <2>3. \A i \in 1..n : i = 1 \/ (i - 1 \in 1..(n - 1) /\ i = (i - 1) + 1)
        BY <1>1
    <2>3a. \A i \in 1..(n - 1) : i + 1 \in 1..n
        BY <1>1
    <2>3b. 1 \in 1..n
        BY <1>1
    <2>. HIDE DEF q, n
    <2>4. ASSUME NEW x \in Queued(e) PROVE x \in Queued(e)' \cup {q[1]}
        BY <2>1, <2>2, <2>3
    <2>5. ASSUME NEW x \in Queued(e)' \cup {q[1]} PROVE x \in Queued(e)
        BY <2>1, <2>2, <2>3a, <2>3b
    <2>. QED
        BY <1>4, <2>4, <2>5
<1>5a. Queued(e)' = {q[i + 1] : i \in 1..(n - 1)} /\ Queued(e) = {q[i] : i \in 1..n}
    <2>1. Queued(e)' = {Tail(q)[i] : i \in DOMAIN Tail(q)}
        BY <1>2 DEF Queued
    <2>2. Queued(e) = {q[i] : i \in 1..n}
        BY <1>4 DEF Queued
    <2>. QED
        BY <1>1, <2>1, <2>2, TailSetFact
<1>5b. \A i \in 1..n : q[i] \in Jobs
    BY <1>1, <1>4
<1>6. QF(e) = QF(e)' \cup {h.fence}
    BY <1>5 DEF QF
<1>7. \A d \in Engines \ {e} : Queued(d)' = Queued(d) /\ QF(d)' = QF(d)
    BY <1>2 DEF QF, Queued
<1>8. \A k, l \in 1..n : k < l => q[k].fence < q[l].fence
    BY <1>4 DEF QueueInv
<1>9. \A d \in Engines : \A k, l \in DOMAIN queue'[d] :
                 k < l => queue'[d][k].fence < queue'[d][l].fence
    <2>1. TAKE d \in Engines
    <2>2. CASE d # e
        BY <1>2, <2>2 DEF QueueInv
    <2>3. CASE d = e
        <3>1. TAKE k, l \in DOMAIN queue'[d]
        <3>2. HAVE k < l
        <3>3. k \in 1..(n - 1) /\ l \in 1..(n - 1)
            BY <1>2, <1>4, <2>3
        <3>4. queue'[d][k] = q[k + 1] /\ queue'[d][l] = q[l + 1]
            BY <1>2, <1>4, <2>3, <3>3
        <3>5. k + 1 \in 1..n /\ l + 1 \in 1..n /\ k + 1 < l + 1
            BY <1>1, <3>2, <3>3
        <3>. QED
            BY <1>8, <3>4, <3>5
    <2>. QED
        BY <2>2, <2>3
<1>10. \A f \in QF(e)' : h.fence < f
    <2>1. TAKE f \in QF(e)'
    <2>2. PICK i \in 1..(n - 1) : f = q[i + 1].fence
        <3>. HIDE DEF q, n
        <3>. QED
            BY <1>5a DEF QF
    <2>3. i + 1 \in 1..n /\ 1 \in 1..n /\ 1 < i + 1
        BY <1>1
    <2>. QED
        BY <1>4, <1>8, <2>2, <2>3
<1>11. ASSUME queue'[e] # <<>> PROVE \E f \in QF(e)' : \A g \in QF(e) : g <= f
    <2>1. n - 1 \in 1..(n - 1)
        <3>1. Tail(q) # <<>> /\ Len(Tail(q)) = n - 1 /\ Tail(q) \in Seq(Jobs)
            BY <1>1, <1>2, <1>11
        <3>. QED
            BY <1>1, <3>1
    <2>2. q[n].fence \in QF(e)'
        <3>1. n - 1 + 1 = n
            BY <1>1
        <3>2. q[n] \in Queued(e)'
            <4>. HIDE DEF q, n
            <4>. QED
                BY <1>5a, <2>1, <3>1
        <3>. QED
            BY <3>2 DEF QF
    <2>3. ASSUME NEW g \in QF(e) PROVE g <= q[n].fence
        <3>1. PICK i \in 1..n : g = q[i].fence
            BY <1>4 DEF QF, Queued
        <3>2. q[i].fence \in Nat /\ q[n].fence \in Nat
            <4>1. q[i] \in Jobs /\ q[n] \in Jobs
                BY <1>1, <1>5b
            <4>. HIDE DEF q, n
            <4>. QED
                BY <4>1, NumbersFact DEF Jobs
        <3>3. i < n \/ i = n
            BY <1>1
        <3>. QED
            BY <1>1, <1>8, <3>1, <3>2, <3>3
    <2>. QED
        BY <2>2, <2>3
<1>. HIDE DEF q, n
<1>. QED
    BY <1>2, <1>3, <1>5, <1>6, <1>7, <1>9, <1>10, <1>11 DEF q

-----------------------------------------------------------------------------
(* What the invariant says about one job, fence or slot.                   *)

LEMMA OpsFact ==
    ASSUME NEW ops \in Seq(Operations)
    PROVE  Writes(ops) \subseteq Pixmaps /\ Reads(ops) \subseteq Pixmaps \cup {NoPixmap}
<1>1. \A i \in DOMAIN ops : ops[i] \in Operations
    OBVIOUS
<1>2. \A o \in Operations : o.dst \in Pixmaps /\ o.src \in Operands /\ o.mask \in Operands
    BY DEF Operations
<1>3. \A t \in Operands : t.pix \in Pixmaps \cup {NoPixmap}
    BY DEF Operands, Solid, Texture
<1>. QED
    BY <1>1, <1>2, <1>3 DEF Writes, Reads

LEMMA QueuedFact ==
    ASSUME GpuInv, NEW e \in Engines, NEW f \in QF(e)
    PROVE  /\ f \in Fences /\ f \in Nat /\ f < seqno
           /\ fence[f] = "active" /\ f \notin signalled
           /\ f \notin QF(Other(e))
           /\ e = "3D" /\ Deferred => f < batch.job_fence
<1>1. PICK j \in Queued(e) : f = j.fence
    BY DEF QF
<1>2. j.fence \in Fences /\ j.fence < seqno
    BY <1>1, JobFact DEF GpuInv, Numbered
<1>3. fence[f] = "active" /\ f \notin signalled
    BY DEF GpuInv, QueueInv
<1>4. f \notin QF(Other(e))
    BY DEF GpuInv, QueueInv, Engines, Other
<1>5. e = "3D" /\ Deferred => f < batch.job_fence
    BY DEF GpuInv, QueueInv
<1>. QED
    BY <1>1, <1>2, <1>3, <1>4, <1>5, NumbersFact

LEMMA JobsFact ==
    ASSUME GpuInv, NEW e \in Engines, NEW j \in Queued(e)
    PROVE  /\ j.ops \in Seq(Operations) /\ j.wait \in Handle /\ j.wait \in Nat
           /\ j.wait < seqno
           /\ j.fence \in QF(e)
<1>1. j \in Jobs /\ j.fence \in QF(e)
    BY JobFact DEF GpuInv
<1>2. j.wait < seqno
    BY DEF GpuInv, Numbered
<1>. QED
    BY <1>1, <1>2, NumbersFact DEF Jobs

LEMMA SeqnoFact == ASSUME GpuInv PROVE seqno \in Nat /\ seqno \in Fences
BY NumbersFact DEF GpuInv, GpuType

LEMMA HeldFact ==
    ASSUME GpuInv, NEW s \in Slots
    PROVE  /\ held[s] \in Handle /\ held[s] \in Nat /\ held[s] < seqno /\ s[2] \in Engines
           /\ \/ held[s] = NoFence \/ held[s] \in QF(s[2]) \/ Past(held[s], s[2])
              \/ s[2] = "3D" /\ Deferred /\ held[s] = batch.job_fence
<1>1. held[s] \in Handle /\ held[s] < seqno
    BY DEF GpuInv, GpuType, Numbered
<1>2. s[2] \in Engines
    BY DEF Slots
<1>3. LET f == held[s] IN
          \/ f = NoFence \/ f \in QF(s[2]) \/ Past(f, s[2])
          \/ s[2] = "3D" /\ Deferred /\ f = batch.job_fence
    BY DEF GpuInv, HeldInv
<1>. QED
    BY <1>1, <1>2, <1>3, NumbersFact

LEMMA PastFact ==
    ASSUME GpuInv, NEW e \in Engines, NEW f, Past(f, e)
    PROVE  f \in Fences /\ f \in Nat /\ f \notin QF("2D") /\ f \notin QF("3D")
           /\ (Deferred => f # batch.job_fence)
           /\ \A g \in QF(e) : f < g
<1>1. f \in Fences /\ (fence[f] = "marked" \/ f \in signalled) /\ \A g \in QF(e) : f < g
    BY DEF Past
<1>2. f \notin QF("2D") /\ f \notin QF("3D")
    BY <1>1, QueuedFact, EnginesFact
<1>3. ASSUME Deferred PROVE f # batch.job_fence
    BY <1>1, <1>3 DEF GpuInv, QueueInv
<1>. QED
    BY <1>1, <1>2, <1>3, NumbersFact

LEMMA BatchFact ==
    ASSUME GpuInv
    PROVE  /\ batch.num_jobs \in Nat /\ batch.ops \in Seq(Operations)
           /\ batch.uses \in [Pixmaps -> Use]
           /\ batch.explicit_fence \in Handle /\ batch.job_fence \in Handle
           /\ batch.explicit_fence \in Nat /\ batch.job_fence \in Nat
           /\ batch.explicit_fence < seqno /\ batch.job_fence < seqno
           /\ batch.cur \in Pixmaps \cup {NoPixmap}
           /\ ~ Deferred => batch = NoBatch
           /\ Deferred => /\ batch.job_fence \in Fences /\ fence[batch.job_fence] = "new"
                          /\ batch.job_fence \notin signalled
                          /\ batch.job_fence \notin QF("2D") /\ batch.job_fence \notin QF("3D")
<1>1. /\ batch.num_jobs \in Nat /\ batch.ops \in Seq(Operations)
      /\ batch.uses \in [Pixmaps -> Use]
      /\ batch.explicit_fence \in Handle /\ batch.job_fence \in Handle
      /\ batch.cur \in Pixmaps \cup {NoPixmap}
      /\ batch.num_jobs = 0 => batch = NoBatch
    BY DEF GpuInv, BatchType
<1>2. batch.explicit_fence < seqno /\ batch.job_fence < seqno
    BY DEF GpuInv, Numbered
<1>3. ASSUME Deferred
      PROVE  batch.job_fence \in Fences /\ fence[batch.job_fence] = "new"
             /\ batch.job_fence \notin signalled
    BY <1>3 DEF GpuInv, QueueInv
<1>4. ASSUME Deferred PROVE batch.job_fence \notin QF("2D") /\ batch.job_fence \notin QF("3D")
    BY <1>3, <1>4, QueuedFact, EnginesFact
<1>5. ~ Deferred => batch = NoBatch
    BY <1>1 DEF Deferred
<1>. QED
    BY <1>1, <1>2, <1>3, <1>4, <1>5, NumbersFact

\* Without a deferred job there is nothing in the batch.
LEMMA NoBatchFact ==
    /\ NoBatch.num_jobs = 0 /\ NoBatch.ops = <<>> /\ NoBatch.explicit_fence = NoFence
    /\ NoBatch.job_fence = NoFence /\ NoBatch.cur = NoPixmap
    /\ NoBatch.uses \in [Pixmaps -> Use]
    /\ \A p \in Pixmaps : ~ NoBatch.uses[p].read /\ ~ NoBatch.uses[p].write /\ NoBatch.uses[p].refcnt = 0
    /\ Writes(NoBatch.ops) = {} /\ Reads(NoBatch.ops) = {}
BY DEF NoBatch, NoUse, Use, Writes, Reads

\* An engine whose last job is completed has no job.
LEMMA IdleFact ==
    ASSUME GpuInv, NEW e \in Engines, Completed(last[e])
    PROVE  queue[e] = <<>> /\ Queued(e) = {} /\ QF(e) = {}
<1>1. ASSUME queue[e] # <<>> PROVE FALSE
    <2>1. last[e] \in QF(e)
        BY <1>1 DEF GpuInv, QueueInv
    <2>. QED
        BY <2>1, QueuedFact, NumbersFact DEF Completed
<1>. QED
    BY <1>1 DEF Queued, QF

-----------------------------------------------------------------------------
(* Submissions and refusals.                                               *)

\* The fence of a job that is done with stays so.
LEMMA PastStep ==
    ASSUME NEW e \in Engines, NEW f, Past(f, e),
           fence'[f] = "marked" \/ fence'[f] = fence[f],
           signalled \subseteq signalled',
           \A g \in QF(e)' : f < g,
           e = "3D" /\ Deferred' => f < batch'.job_fence
    PROVE  Past(f, e)'
BY DEF Past

\* What KernelFence() leaves of a fence to wait for.
LEMMA KernelFact ==
    ASSUME GpuInv, NEW e \in Engines, NEW x,
           x = NoFence \/ x \in QF(e) \/ Past(x, e)
    PROVE  /\ KernelFence(x) \in Handle
           /\ KernelFence(x) = x \/ KernelFence(x) = NoFence
           /\ KernelFence(x) = NoFence \/ KernelFence(x) \in QF(e) \/ KernelFence(x) \in signalled
           /\ x \in QF(e) => KernelFence(x) = x
<1>1. x \in QF(e) => x \in Fences /\ fence[x] = "active"
    BY QueuedFact
<1>2. Past(x, e) => x \in Fences /\ (fence[x] = "marked" \/ x \in signalled)
    BY DEF Past
<1>. QED
    BY <1>1, <1>2, NumbersFact DEF KernelFence

LEMMA Submit3D ==
    ASSUME GpuInv, NEW f \in Fences, NEW ops \in Seq(Operations), NEW x \in Handle, NEW S \in SUBSET Slots,
           x = NoFence \/ x \in QF("2D") \/ Past(x, "2D"),
           x < seqno, f < seqno', seqno <= seqno', seqno' \in Fences,
           Deferred => f = batch.job_fence,
           ~ Deferred => f = seqno,
           \A s \in S : s[2] = "3D",
           \A p \in Writes(ops) : <<p, "3D", "write">> \in S
                                  \/ (Deferred /\ held[<<p, "3D", "write">>] = f),
           \A p \in Reads(ops) \ {NoPixmap} : <<p, "3D", "read">> \in S
                                  \/ (Deferred /\ held[<<p, "3D", "read">>] = f),
           \A a \in Queued("2D") : Conflict(a.ops, ops) => x \in QF("2D") /\ x >= a.fence,
           queue' = [queue EXCEPT !["3D"] =
                       Append(@, [ops |-> ops, wait |-> KernelFence(x), fence |-> f])],
           fence' = [fence EXCEPT ![f] = "active"],
           last' = [last EXCEPT !["3D"] = f],
           Hold(S, f), batch' = NoBatch, signalled' = signalled
    PROVE  GpuInv'
<1>. DEFINE new == [ops |-> ops, wait |-> KernelFence(x), fence |-> f]
<1>1. new \in Jobs /\ new.ops = ops /\ new.wait = KernelFence(x) /\ new.fence = f
    BY KernelFact, EnginesFact DEF Jobs
<1>2. /\ seqno \in Nat /\ seqno' \in Nat /\ f \in Nat /\ x \in Nat
    BY SeqnoFact, NumbersFact
<1>3. /\ f \notin signalled /\ f \notin QF("2D") /\ f \notin QF("3D")
      /\ fence[f] = "new" \/ f = seqno
    <2>1. CASE Deferred
        BY <2>1, BatchFact
    <2>2. CASE ~ Deferred
        BY <1>2, <2>2, QueuedFact, EnginesFact DEF GpuInv, Numbered
    <2>. QED
        BY <2>1, <2>2
<1>4. \A g \in QF("3D") : g < f
    BY QueuedFact, BatchFact, EnginesFact
<1>5. /\ queue' \in [Engines -> Seq(Jobs)]
      /\ queue'["3D"] # <<>> /\ queue'["2D"] = queue["2D"]
      /\ Queued("3D")' = Queued("3D") \cup {new} /\ QF("3D")' = QF("3D") \cup {f}
      /\ Queued("2D")' = Queued("2D") /\ QF("2D")' = QF("2D")
      /\ \A d \in Engines : \A k, l \in DOMAIN queue'[d] :
            k < l => queue'[d][k].fence < queue'[d][l].fence
    <2>1. GpuType /\ QueueInv /\ \A g \in QF("3D") : g < new.fence
        BY <1>1, <1>4 DEF GpuInv
    <2>2. queue' = [queue EXCEPT !["3D"] = Append(@, new)] /\ new \in Jobs
        BY <1>1
    <2>. HIDE DEF new
    <2>. QED
        BY <1>1, <2>1, <2>2, AppendFact, EnginesFact DEF Engines
<1>. HIDE DEF new
<1>6. /\ fence' \in [Fences -> {"none", "new", "active", "marked"}]
      /\ fence'[f] = "active" /\ \A g \in Fences \ {f} : fence'[g] = fence[g]
      /\ last' \in [Engines -> Handle] /\ last'["3D"] = f /\ last'["2D"] = last["2D"]
    BY EnginesFact, NumbersFact DEF GpuInv, GpuType
<1>7. /\ held' \in [Slots -> Handle]
      /\ \A s \in Slots : held'[s] = IF s \in S THEN f ELSE held[s]
    BY HeldFact, NumbersFact DEF Hold
<1>8. ~ Deferred' /\ batch'.explicit_fence = NoFence /\ batch'.job_fence = NoFence
      /\ Writes(batch'.ops) = {} /\ Reads(batch'.ops) = {}
    BY NoBatchFact DEF Deferred
<1>9. GpuType'
    BY <1>5, <1>6, <1>7 DEF GpuInv, GpuType
<1>10. BatchType'
    BY NoBatchFact, NumbersFact DEF BatchType, NoBatch
<1>11. Numbered'
    <2>1. \A s \in Slots : held'[s] < seqno'
        BY <1>2, <1>7, HeldFact
    <2>2. \A e \in Engines : last'[e] < seqno'
        <3>1. last["2D"] < seqno /\ last["2D"] \in Nat
            BY EnginesFact, NumbersFact DEF GpuInv, GpuType, Numbered
        <3>. QED
            BY <1>2, <1>6, <3>1 DEF Engines
    <2>3. \A e \in Engines : \A j \in Queued(e)' : j.fence < seqno' /\ j.wait < seqno'
        <3>1. \A e \in Engines : \A j \in Queued(e) : j.fence < seqno' /\ j.wait < seqno'
            BY <1>2, JobsFact, QueuedFact
        <3>2. new.wait < seqno' /\ new.fence < seqno'
            BY <1>1, <1>2, KernelFact, EnginesFact, NumbersFact
        <3>. QED
            BY <1>5, <3>1, <3>2 DEF Engines
    <2>4. \A g \in signalled' : g < seqno'
        <3>1. signalled \subseteq Nat /\ \A g \in signalled : g < seqno
            BY NumbersFact DEF GpuInv, GpuType, Numbered
        <3>. QED
            BY <1>2, <3>1
    <2>. QED
        BY <1>2, <1>8, <2>1, <2>2, <2>3, <2>4, NumbersFact DEF Numbered
<1>12. QueueInv'
    <2>1. \A e \in Engines : \A g \in QF(e)' : fence'[g] = "active" /\ g \notin signalled'
        <3>1. \A e \in Engines : \A g \in QF(e) : fence'[g] = "active" /\ g \notin signalled'
            BY <1>3, <1>6, QueuedFact
        <3>. QED
            BY <1>3, <1>5, <1>6, <3>1 DEF Engines
    <2>2. \A g \in signalled' : fence'[g] \in {"active", "marked"}
        BY <1>6 DEF GpuInv, GpuType, QueueInv
    <2>3. \A e \in Engines : queue'[e] # <<>> => last'[e] \in QF(e)' /\ \A g \in QF(e)' : g <= last'[e]
        <3>1. f <= f
            BY <1>2
        <3>2. \A g \in QF("3D") : g <= f
            BY <1>2, <1>4, QueuedFact, EnginesFact
        <3>3. queue["2D"] # <<>> => last["2D"] \in QF("2D") /\ \A g \in QF("2D") : g <= last["2D"]
            BY EnginesFact DEF GpuInv, QueueInv
        <3>. QED
            BY <1>5, <1>6, <3>1, <3>2, <3>3 DEF Engines
    <2>4. QF("2D")' \cap QF("3D")' = {}
        BY <1>3, <1>5, QueuedFact, EnginesFact
    <2>. QED
        BY <1>5, <1>8, <2>1, <2>2, <2>3, <2>4 DEF QueueInv
<1>13. ASSUME NEW e \in Engines, NEW h, Past(h, e), h < seqno
       PROVE  Past(h, e)'
    <2>1. h \in Fences /\ h \in Nat /\ (Deferred => h # batch.job_fence) /\ \A g \in QF(e) : h < g
        BY <1>13, PastFact
    <2>2. h # f
        BY <1>2, <1>13, <2>1
    <2>3. e = "3D" => h < f
        <3>1. Deferred /\ e = "3D" => h < batch.job_fence
            BY <1>13 DEF Past
        <3>. QED
            BY <1>2, <1>13, <3>1
    <2>4. \A g \in QF(e)' : h < g
        BY <1>5, <2>1, <2>3 DEF Engines
    <2>. QED
        BY <1>6, <1>8, <1>13, <2>1, <2>2, <2>4, PastStep
<1>14. HeldInv'
    <2>1. ASSUME NEW s \in Slots
          PROVE  held'[s] = NoFence \/ held'[s] \in QF(s[2])' \/ Past(held[s], s[2])'
        <3>1. CASE s \in S
            BY <1>5, <1>7, <3>1
        <3>2. CASE s \notin S
            <4>1. held'[s] = held[s] /\ held[s] < seqno /\ s[2] \in Engines
                BY <1>7, <3>2, HeldFact
            <4>2. CASE held[s] \in QF(s[2])
                BY <1>5, <4>1, <4>2 DEF Engines
            <4>3. CASE Past(held[s], s[2])
                <5>1. PICK h : h = held[s]
                    OBVIOUS
                <5>2. Past(h, s[2])'
                    BY <1>13, <4>1, <4>3, <5>1
                <5>. QED
                    BY <4>1, <5>1, <5>2 DEF Past
            <4>4. CASE s[2] = "3D" /\ Deferred /\ held[s] = batch.job_fence
                BY <1>5, <4>1, <4>4
            <4>. QED
                BY <4>1, <4>2, <4>3, <4>4, HeldFact
        <3>. QED
            BY <3>1, <3>2
    <2>. QED
        BY <1>8, <2>1 DEF HeldInv
<1>15. WaitInv'
    <2>1. ASSUME NEW e \in Engines, NEW j \in Queued(e)'
          PROVE  j.wait = NoFence \/ j.wait \in signalled' \/ j.wait \in QF(Other(e))'
        <3>1. CASE j \in Queued(e)
            <4>1. j.wait = NoFence \/ j.wait \in signalled \/ j.wait \in QF(Other(e))
                BY <3>1 DEF GpuInv, WaitInv
            <4>. QED
                BY <1>5, <4>1, EnginesFact DEF Engines
        <3>2. CASE e = "3D" /\ j = new
            BY <1>1, <1>5, <3>2, KernelFact, EnginesFact
        <3>. QED
            BY <1>5, <2>1, <3>1, <3>2 DEF Engines
    <2>2. ASSUME NEW a \in Queued("2D")', NEW b \in Queued("3D")'
          PROVE  ~ (a.wait >= b.fence /\ b.wait >= a.fence)
        <3>1. a \in Queued("2D")
            BY <1>5
        <3>2. CASE b \in Queued("3D")
            BY <3>1, <3>2 DEF GpuInv, WaitInv
        <3>3. CASE b = new
            <4>1. a.wait \in Nat /\ a.wait < seqno
                BY <3>1, JobsFact, EnginesFact
            <4>2. Deferred => a.wait < batch.job_fence
                BY <3>1 DEF GpuInv, WaitInv
            <4>3. a.wait < f
                BY <1>2, <4>1, <4>2
            <4>. QED
                BY <1>1, <1>2, <3>3, <4>1, <4>3
        <3>. QED
            BY <1>5, <2>2, <3>2, <3>3
    <2>. QED
        BY <1>8, <2>1, <2>2 DEF WaitInv
<1>16. BatchInv'
    BY NoBatchFact DEF BatchInv, InBatch
<1>17. CoverInv'
    <2>1. ASSUME NEW e \in Engines, NEW s \in Slots, s[2] = e, NEW g \in QF(e), Covers(held[s], e, g)
          PROVE  Covers(held[s], e, g)'
        <3>1. CASE s \in S
            <4>1. e = "3D" /\ held'[s] = f /\ g < f /\ g \in Nat
                BY <1>4, <1>7, <2>1, <3>1, QueuedFact
            <4>. QED
                BY <1>2, <1>5, <4>1 DEF Covers
        <3>2. CASE s \notin S
            <4>1. held'[s] = held[s] /\ held[s] >= g
                BY <1>7, <2>1, <3>2 DEF Covers
            <4>2. held[s] \in QF(e)'
                BY <1>5, <2>1 DEF Covers, Engines
            <4>. QED
                BY <4>1, <4>2 DEF Covers
        <3>. QED
            BY <3>1, <3>2
    <2>2. ASSUME NEW e \in Engines, NEW j \in Queued(e)
          PROVE  /\ \A p \in Writes(j.ops) : Covers(held[<<p, e, "write">>], e, j.fence)'
                 /\ \A p \in Reads(j.ops) \ {NoPixmap} : Covers(held[<<p, e, "read">>], e, j.fence)'
        <3>1. j.fence \in QF(e) /\ Writes(j.ops) \subseteq Pixmaps /\ Reads(j.ops) \subseteq Pixmaps \cup {NoPixmap}
            BY JobsFact, OpsFact
        <3>2. /\ \A p \in Writes(j.ops) : Covers(held[<<p, e, "write">>], e, j.fence)
              /\ \A p \in Reads(j.ops) \ {NoPixmap} : Covers(held[<<p, e, "read">>], e, j.fence)
            BY DEF GpuInv, CoverInv
        <3>. QED
            BY <2>1, <3>1, <3>2, SlotsFact
    <2>3. /\ \A p \in Writes(ops) : Covers(held[<<p, "3D", "write">>], "3D", f)'
          /\ \A p \in Reads(ops) \ {NoPixmap} : Covers(held[<<p, "3D", "read">>], "3D", f)'
        <3>1. Writes(ops) \subseteq Pixmaps /\ Reads(ops) \subseteq Pixmaps \cup {NoPixmap}
            BY OpsFact
        <3>2. \A p \in Writes(ops) : held'[<<p, "3D", "write">>] = f
            BY <1>7, <3>1, SlotsFact, EnginesFact
        <3>3. \A p \in Reads(ops) \ {NoPixmap} : held'[<<p, "3D", "read">>] = f
            BY <1>7, <3>1, SlotsFact, EnginesFact
        <3>4. f >= f /\ f \in QF("3D")'
            BY <1>2, <1>5
        <3>. QED
            BY <3>2, <3>3, <3>4 DEF Covers
    <2>4. ASSUME NEW j, j = new
          PROVE  /\ \A p \in Writes(j.ops) : Covers(held[<<p, "3D", "write">>], "3D", j.fence)'
                 /\ \A p \in Reads(j.ops) \ {NoPixmap} : Covers(held[<<p, "3D", "read">>], "3D", j.fence)'
        <3>1. j.ops = ops /\ j.fence = f
            BY <1>1, <2>4
        <3>. QED
            BY <2>3, <3>1
    <2>. QED
        BY <1>5, <2>2, <2>4 DEF CoverInv, Engines
<1>18. OrderInv'
    <2>1. ASSUME NEW a \in Queued("2D")', NEW b \in Queued("3D")', Conflict(a.ops, b.ops)
          PROVE  \/ a.wait \in QF("3D")' /\ a.wait >= b.fence
                 \/ b.wait \in QF("2D")' /\ b.wait >= a.fence
        <3>1. a \in Queued("2D")
            BY <1>5
        <3>2. CASE b \in Queued("3D")
            BY <1>5, <2>1, <3>1, <3>2 DEF GpuInv, OrderInv
        <3>3. CASE b = new
            BY <1>1, <1>5, <2>1, <3>1, <3>3, KernelFact, EnginesFact
        <3>. QED
            BY <1>5, <2>1, <3>2, <3>3
    <2>2. \A a \in Queued("2D")' : ~ Conflict(a.ops, batch'.ops)
        BY <1>8 DEF Conflict
    <2>. QED
        BY <2>1, <2>2 DEF OrderInv
<1>. QED
    BY <1>9, <1>10, <1>11, <1>12, <1>14, <1>15, <1>16, <1>17, <1>18 DEF GpuInv

LEMMA QueueKept ==
    ASSUME queue' = queue
    PROVE  \A e \in Engines : Queued(e)' = Queued(e) /\ QF(e)' = QF(e)
BY DEF Queued, QF

LEMMA NewQueued ==
    ASSUME NEW e \in Engines, NEW j \in Queued(e)'
    PROVE  j.fence \in QF(e)'
BY DEF QF, Queued

LEMMA SignalledFact == ASSUME GpuInv PROVE signalled \subseteq Nat /\ signalled \subseteq Fences /\ \A g \in signalled : g < seqno
BY NumbersFact DEF GpuInv, GpuType, Numbered

LEMMA LastFact ==
    ASSUME GpuInv, NEW e \in Engines
    PROVE  last[e] \in Handle /\ last[e] \in Nat /\ last[e] < seqno
BY NumbersFact DEF GpuInv, GpuType, Numbered

\* The deferred job is dropped, or refused: its fence is marked, and the
\* last job of the engine is completed.
LEMMA Dropped ==
    ASSUME GpuInv, Completed(last["3D"]), NEW M \in SUBSET Handle,
           Deferred => batch.job_fence \in M,
           M \cap QF("2D") = {},
           fence' = [g \in Fences |-> IF g \in M THEN "marked" ELSE fence[g]],
           last' \in [Engines -> Handle], last'["2D"] = last["2D"], last'["3D"] \in {NoFence, last["3D"]},
           seqno' \in Fences, seqno <= seqno',
           queue' = queue, held' = held, signalled' = signalled, batch' = NoBatch
    PROVE  GpuInv'
<1>1. queue["3D"] = <<>> /\ Queued("3D") = {} /\ QF("3D") = {}
    BY IdleFact, EnginesFact
<1>2. \A e \in Engines : Queued(e)' = Queued(e) /\ QF(e)' = QF(e)
    BY QueueKept
<1>3. Queued("3D")' = {} /\ QF("3D")' = {} /\ Queued("2D")' = Queued("2D") /\ QF("2D")' = QF("2D")
    BY <1>1, <1>2, EnginesFact
<1>4. \A g \in Fences : fence'[g] = fence[g] \/ fence'[g] = "marked"
    OBVIOUS
<1>5. ~ Deferred' /\ batch'.explicit_fence = NoFence /\ batch'.job_fence = NoFence
      /\ Writes(batch'.ops) = {} /\ Reads(batch'.ops) = {}
    BY NoBatchFact DEF Deferred
<1>6. seqno \in Nat /\ seqno' \in Nat
    BY SeqnoFact, NumbersFact
<1>7. GpuType'
    BY <1>4 DEF GpuInv, GpuType
<1>8. BatchType'
    BY NoBatchFact, NumbersFact DEF BatchType, NoBatch
<1>9. Numbered'
    <2>1. \A s \in Slots : held'[s] < seqno'
        BY <1>6, HeldFact
    <2>2. \A e \in Engines : last'[e] < seqno'
        BY <1>6, LastFact, NumbersFact, EnginesFact DEF Engines
    <2>3. \A e \in Engines : \A j \in Queued(e)' : j.fence < seqno' /\ j.wait < seqno'
        BY <1>2, <1>6, JobsFact, QueuedFact
    <2>4. \A g \in signalled' : g < seqno'
        BY <1>6, SignalledFact
    <2>. QED
        BY <1>5, <1>6, <2>1, <2>2, <2>3, <2>4, NumbersFact DEF Numbered
<1>10. QueueInv'
    <2>1. \A g \in QF("2D") : fence'[g] = "active" /\ g \notin signalled'
        BY QueuedFact, EnginesFact
    <2>2. \A g \in signalled' : fence'[g] \in {"active", "marked"}
        BY <1>4 DEF GpuInv, GpuType, QueueInv
    <2>3. \A e \in Engines : queue'[e] # <<>> => last'[e] \in QF(e)' /\ \A g \in QF(e)' : g <= last'[e]
        BY <1>1, <1>3 DEF Engines, GpuInv, QueueInv
    <2>. QED
        BY <1>3, <1>5, <2>1, <2>2, <2>3 DEF QueueInv, GpuInv, Engines
<1>11. ASSUME NEW e \in Engines, NEW h, Past(h, e)
       PROVE  Past(h, e)'
    BY <1>2, <1>4, <1>5, <1>11, PastFact, PastStep
<1>12. HeldInv'
    <2>1. ASSUME NEW s \in Slots, NEW h, h = held[s]
          PROVE  h = NoFence \/ h \in QF(s[2])' \/ Past(h, s[2])'
        <3>1. s[2] \in Engines
            BY HeldFact
        <3>2. CASE s[2] = "3D" /\ Deferred /\ h = batch.job_fence
            <4>1. h \in Fences /\ fence'[h] = "marked"
                BY <3>2, BatchFact
            <4>. QED
                BY <1>3, <1>5, <3>2, <4>1 DEF Past
        <3>. QED
            BY <1>2, <1>11, <2>1, <3>1, <3>2, HeldFact
    <2>2. \A s \in Slots : held'[s] = NoFence \/ held'[s] \in QF(s[2])' \/ Past(held[s], s[2])'
        BY <2>1 DEF Past
    <2>. QED
        BY <1>5, <2>2 DEF HeldInv
<1>13. WaitInv'
    <2>1. \A e \in Engines : \A j \in Queued(e)' : j.wait = NoFence \/ j.wait \in signalled' \/ j.wait \in QF(Other(e))'
        BY <1>2, EnginesFact DEF GpuInv, WaitInv, Engines
    <2>. QED
        BY <1>3, <1>5, <2>1 DEF WaitInv
<1>14. BatchInv'
    BY NoBatchFact DEF BatchInv, InBatch
<1>15. CoverInv'
    <2>1. ASSUME NEW j \in Queued("2D"), NEW s \in Slots, Covers(held[s], "2D", j.fence)
          PROVE  Covers(held[s], "2D", j.fence)'
        BY <1>3, <2>1 DEF Covers
    <2>2. ASSUME NEW j \in Queued("2D")
          PROVE  /\ \A p \in Writes(j.ops) : Covers(held[<<p, "2D", "write">>], "2D", j.fence)'
                 /\ \A p \in Reads(j.ops) \ {NoPixmap} : Covers(held[<<p, "2D", "read">>], "2D", j.fence)'
        <3>1. Writes(j.ops) \subseteq Pixmaps /\ Reads(j.ops) \subseteq Pixmaps \cup {NoPixmap}
            BY JobsFact, OpsFact, EnginesFact
        <3>2. /\ \A p \in Writes(j.ops) : Covers(held[<<p, "2D", "write">>], "2D", j.fence)
              /\ \A p \in Reads(j.ops) \ {NoPixmap} : Covers(held[<<p, "2D", "read">>], "2D", j.fence)
            BY EnginesFact DEF GpuInv, CoverInv
        <3>. QED
            BY <2>1, <3>1, <3>2, SlotsFact, EnginesFact
    <2>. QED
        BY <1>3, <2>2 DEF CoverInv, Engines
<1>16. OrderInv'
    BY <1>3, <1>5 DEF OrderInv, Conflict
<1>. QED
    BY <1>7, <1>8, <1>9, <1>10, <1>12, <1>13, <1>14, <1>15, <1>16 DEF GpuInv

\* Some slots are emptied that hold no fence of a job under way.
LEMMA Released ==
    ASSUME GpuInv, NEW S \in SUBSET Slots,
           \A s \in S : /\ held[s] \notin QF(s[2])
                        /\ ~ (s[2] = "3D" /\ Deferred /\ held[s] = batch.job_fence),
           Hold(S, NoFence),
           \A g \in Fences : g < seqno => fence'[g] = fence[g],
           fence' \in [Fences -> {"none", "new", "active", "marked"}],
           last' \in [Engines -> Handle],
           \A e \in Engines : last'[e] = last[e] \/ (last'[e] = NoFence /\ queue[e] = <<>>),
           seqno' \in Fences, seqno <= seqno',
           queue' = queue, signalled' = signalled, batch' = batch
    PROVE  GpuInv'
<1>1. \A e \in Engines : Queued(e)' = Queued(e) /\ QF(e)' = QF(e)
    BY QueueKept
<1>2. /\ held' \in [Slots -> Handle]
      /\ \A s \in Slots : held'[s] = IF s \in S THEN NoFence ELSE held[s]
    BY HeldFact, NumbersFact DEF Hold
<1>3. seqno \in Nat /\ seqno' \in Nat /\ Deferred' = Deferred
    BY SeqnoFact, NumbersFact DEF Deferred
<1>4. GpuType'
    BY <1>2 DEF GpuInv, GpuType
<1>5. BatchType'
    BY DEF GpuInv, BatchType
<1>6. Numbered'
    <2>1. \A s \in Slots : held'[s] < seqno'
        BY <1>2, <1>3, HeldFact, NumbersFact
    <2>2. \A e \in Engines : last'[e] < seqno'
        BY <1>3, LastFact, NumbersFact
    <2>3. \A e \in Engines : \A j \in Queued(e)' : j.fence < seqno' /\ j.wait < seqno'
        BY <1>1, <1>3, JobsFact, QueuedFact
    <2>4. \A g \in signalled' : g < seqno'
        BY <1>3, SignalledFact
    <2>5. batch'.explicit_fence < seqno' /\ batch'.job_fence < seqno'
        BY <1>3, BatchFact
    <2>. QED
        BY <2>1, <2>2, <2>3, <2>4, <2>5 DEF Numbered
<1>7. QueueInv'
    <2>1. \A e \in Engines : \A g \in QF(e) : fence'[g] = "active" /\ g \notin signalled'
        BY QueuedFact
    <2>2. \A g \in signalled' : fence'[g] \in {"active", "marked"}
        BY SignalledFact DEF GpuInv, QueueInv
    <2>3. \A e \in Engines : queue'[e] # <<>> => last'[e] \in QF(e)' /\ \A g \in QF(e)' : g <= last'[e]
        BY <1>1 DEF GpuInv, QueueInv
    <2>4. Deferred => batch.job_fence \in Fences /\ fence'[batch.job_fence] = "new"
        BY BatchFact
    <2>5. Deferred => \A g \in QF("3D") : g < batch.job_fence
        BY DEF GpuInv, QueueInv
    <2>6. /\ \A e \in Engines : \A i, j \in DOMAIN queue[e] :
                i < j => queue[e][i].fence < queue[e][j].fence
          /\ QF("2D") \cap QF("3D") = {}
        BY DEF GpuInv, QueueInv
    <2>7. QF("2D")' = QF("2D") /\ QF("3D")' = QF("3D")
        BY <1>1, EnginesFact
    <2>. QED
        BY <1>1, <1>3, <2>1, <2>2, <2>3, <2>4, <2>5, <2>6, <2>7 DEF QueueInv
<1>8. ASSUME NEW e \in Engines, NEW h, Past(h, e), h < seqno
      PROVE  Past(h, e)'
    <2>1. h \in Fences /\ \A g \in QF(e)' : h < g
        BY <1>1, <1>8, PastFact
    <2>2. e = "3D" /\ Deferred' => h < batch'.job_fence
        BY <1>3, <1>8 DEF Past
    <2>. QED
        BY <1>8, <2>1, <2>2, PastStep
<1>9. HeldInv'
    <2>1. ASSUME NEW s \in Slots, NEW h, h = held[s], s \notin S
          PROVE  \/ h = NoFence \/ h \in QF(s[2])' \/ Past(h, s[2])'
                 \/ s[2] = "3D" /\ Deferred' /\ h = batch'.job_fence
        <3>1. s[2] \in Engines
            BY HeldFact
        <3>. QED
            BY <1>1, <1>3, <1>8, <2>1, <3>1, HeldFact
    <2>2. ASSUME NEW s \in Slots
          PROVE  \/ held'[s] = NoFence \/ held'[s] \in QF(s[2])' \/ Past(held[s], s[2])'
                 \/ s[2] = "3D" /\ Deferred' /\ held'[s] = batch'.job_fence
        BY <1>2, <2>1 DEF Past
    <2>3. ASSUME Deferred, NEW p \in Pixmaps, NEW k \in {"write", "read"}, NEW u \in BOOLEAN,
                 u <=> held[<<p, "3D", k>>] = batch.job_fence
          PROVE  u <=> held'[<<p, "3D", k>>] = batch.job_fence
        <3>1. <<p, "3D", k>> \in Slots /\ <<p, "3D", k>>[2] = "3D"
            BY SlotsFact, EnginesFact
        <3>2. batch.job_fence # NoFence
            BY <2>3, BatchFact, NumbersFact
        <3>. QED
            BY <1>2, <2>3, <3>1, <3>2
    <2>4. ASSUME Deferred, NEW p \in Pixmaps
          PROVE  /\ batch.uses[p].write <=> held'[<<p, "3D", "write">>] = batch.job_fence
                 /\ batch.uses[p].read <=> held'[<<p, "3D", "read">>] = batch.job_fence
        <3>1. /\ batch.uses[p].write <=> held[<<p, "3D", "write">>] = batch.job_fence
              /\ batch.uses[p].read <=> held[<<p, "3D", "read">>] = batch.job_fence
            BY <2>4 DEF GpuInv, HeldInv
        <3>2. batch.uses[p].write \in BOOLEAN /\ batch.uses[p].read \in BOOLEAN
            BY BatchFact DEF Use
        <3>. QED
            BY <2>3, <2>4, <3>1, <3>2
    <2>5. LET f == batch.explicit_fence IN f = NoFence \/ f \in QF("2D")' \/ Past(f, "2D")'
        <3>1. PICK f : f = batch.explicit_fence
            OBVIOUS
        <3>2. f = NoFence \/ f \in QF("2D")' \/ Past(f, "2D")'
            BY <1>1, <1>8, <3>1, BatchFact, EnginesFact DEF GpuInv, HeldInv
        <3>. QED
            BY <3>1, <3>2 DEF Past
    <2>. QED
        BY <1>3, <2>2, <2>4, <2>5 DEF HeldInv, Past
<1>10. WaitInv'
    <2>1. QF("2D")' = QF("2D") /\ QF("3D")' = QF("3D") /\ Queued("2D")' = Queued("2D") /\ Queued("3D")' = Queued("3D")
        BY <1>1, EnginesFact
    <2>2. \A e \in Engines : QF(Other(e))' = QF(Other(e))
        BY <2>1 DEF Other
    <2>. QED
        BY <1>1, <1>3, <2>1, <2>2 DEF GpuInv, WaitInv
<1>11. BatchInv'
    BY DEF GpuInv, BatchInv, InBatch
<1>12. CoverInv'
    <2>1. ASSUME NEW e \in Engines, NEW g, NEW s \in Slots, s[2] = e, Covers(held[s], e, g)
          PROVE  Covers(held[s], e, g)'
        BY <1>1, <1>2, <1>3, <2>1 DEF Covers
    <2>2. ASSUME NEW e \in Engines, NEW j \in Queued(e)
          PROVE  /\ \A p \in Writes(j.ops) : Covers(held[<<p, e, "write">>], e, j.fence)'
                 /\ \A p \in Reads(j.ops) \ {NoPixmap} : Covers(held[<<p, e, "read">>], e, j.fence)'
        <3>1. Writes(j.ops) \subseteq Pixmaps /\ Reads(j.ops) \subseteq Pixmaps \cup {NoPixmap}
            BY JobsFact, OpsFact
        <3>2. /\ \A p \in Writes(j.ops) : Covers(held[<<p, e, "write">>], e, j.fence)
              /\ \A p \in Reads(j.ops) \ {NoPixmap} : Covers(held[<<p, e, "read">>], e, j.fence)
            BY DEF GpuInv, CoverInv
        <3>. QED
            BY <2>1, <3>1, <3>2, SlotsFact
    <2>. QED
        BY <1>1, <2>2 DEF CoverInv
<1>13. OrderInv'
    BY <1>1, EnginesFact DEF GpuInv, OrderInv
<1>. QED
    BY <1>4, <1>5, <1>6, <1>7, <1>9, <1>10, <1>11, <1>12, <1>13 DEF GpuInv

\* The fence a job is told to wait for is no earlier than those of the jobs
\* of the other engine that it conflicts with.
LEMMA ExplicitFact ==
    ASSUME GpuInv, NEW e \in Engines, NEW d \in Pixmaps, NEW srcs \in SUBSET Pixmaps,
           e = "3D" /\ Deferred =>
              /\ \A q \in srcs \cup {d} : held[<<q, "3D", "write">>] # batch.job_fence
              /\ held[<<d, "3D", "read">>] # batch.job_fence
    PROVE  LET x == ExplicitFence(e, d, srcs) IN
           /\ x \in Handle /\ x \in Nat /\ x < seqno
           /\ x = NoFence \/ x \in QF(e) \/ Past(x, e)
           /\ \A j \in Queued(e) : \A ops :
                 /\ Writes(ops) \subseteq {d} /\ Reads(ops) \subseteq srcs \cup {NoPixmap}
                 /\ Conflict(j.ops, ops)
                 => x \in QF(e) /\ x >= j.fence
<1>. DEFINE x == ExplicitFence(e, d, srcs)
            W == {<<q, e, "write">> : q \in srcs \cup {d}} \cup {<<d, e, "read">>}
            T == {held[<<q, e, "write">>] : q \in srcs \cup {d}} \cup {held[<<d, e, "read">>]}
<1>1. \A s \in W : s \in Slots /\ s[2] = e
    <2>1. TAKE s \in W
    <2>2. PICK q \in srcs \cup {d}, k \in {"write", "read"} : s = <<q, e, k>>
        OBVIOUS
    <2>. QED
        BY <2>2, SlotsFact
<1>2. \A h \in T : \E s \in W : h = held[s]
    OBVIOUS
<1>3. \A s \in W : held[s] \in T
    OBVIOUS
<1>4. x = Latest(T)
    BY DEF ExplicitFence
<1>5. \A s \in W : ~ (e = "3D" /\ Deferred /\ held[s] = batch.job_fence)
    OBVIOUS
<1>. HIDE DEF x, W, T
<1>6. T \subseteq Handle
    BY <1>1, <1>2, HeldFact
<1>7. x \in Handle /\ (\A h \in T : h <= x) /\ (x = NoFence \/ x \in T)
    BY <1>4, <1>6, LatestFact
<1>8. x = NoFence \/ \E s \in W : x = held[s]
    BY <1>2, <1>7
<1>9. x = NoFence \/ x \in QF(e) \/ Past(x, e)
    BY <1>1, <1>5, <1>8, HeldFact
<1>10. x \in Nat /\ x < seqno
    BY <1>1, <1>7, <1>8, HeldFact, NumbersFact, SeqnoFact DEF Fences
<1>11. ASSUME NEW j \in Queued(e), NEW s \in W, Covers(held[s], e, j.fence)
       PROVE  x \in QF(e) /\ x >= j.fence
    <2>1. held[s] \in QF(e) /\ held[s] >= j.fence
        BY <1>5, <1>11 DEF Covers
    <2>2. held[s] \in Nat \ {0} /\ j.fence \in Nat
        BY <2>1, JobsFact, QueuedFact, NumbersFact
    <2>3. held[s] <= x
        BY <1>3, <1>7
    <2>4. x # NoFence /\ x >= j.fence
        BY <1>10, <2>1, <2>2, <2>3, NumbersFact
    <2>5. ~ Past(x, e)
        <3>1. ~ (x < held[s])
            BY <1>10, <2>2, <2>3
        <3>. QED
            BY <2>1, <3>1 DEF Past
    <2>. QED
        BY <1>9, <2>4, <2>5
<1>12. ASSUME NEW j \in Queued(e), NEW ops, Writes(ops) \subseteq {d}, Reads(ops) \subseteq srcs \cup {NoPixmap},
              Conflict(j.ops, ops)
       PROVE  \E s \in W : Covers(held[s], e, j.fence)
    <2>1. /\ \A p \in Writes(j.ops) : Covers(held[<<p, e, "write">>], e, j.fence)
          /\ \A p \in Reads(j.ops) \ {NoPixmap} : Covers(held[<<p, e, "read">>], e, j.fence)
        BY DEF GpuInv, CoverInv
    <2>2. Writes(j.ops) \subseteq Pixmaps /\ NoPixmap \notin Pixmaps
        BY JobsFact, OpsFact, RenderAssumption
    <2>3. (\E p \in Writes(j.ops) : p \in srcs \cup {d}) \/ d \in Reads(j.ops)
        BY <1>12, <2>2 DEF Conflict
    <2>4. CASE \E p \in Writes(j.ops) : p \in srcs \cup {d}
        <3>1. PICK p \in Writes(j.ops) : p \in srcs \cup {d}
            BY <2>4
        <3>2. <<p, e, "write">> \in W
            BY <3>1 DEF W
        <3>. QED
            BY <2>1, <3>2
    <2>5. CASE d \in Reads(j.ops)
        <3>1. <<d, e, "read">> \in W /\ d # NoPixmap
            BY <2>2 DEF W
        <3>. QED
            BY <2>1, <2>5, <3>1
    <2>. QED
        BY <2>3, <2>4, <2>5
<1>13. \A j \in Queued(e) : \A ops :
                 /\ Writes(ops) \subseteq {d} /\ Reads(ops) \subseteq srcs \cup {NoPixmap}
                 /\ Conflict(j.ops, ops)
                 => x \in QF(e) /\ x >= j.fence
    BY <1>11, <1>12
<1>. QED
    BY <1>7, <1>9, <1>10, <1>13 DEF x

LEMMA Submit2D ==
    ASSUME GpuInv, NEW d \in Pixmaps, NEW srcs \in SUBSET Pixmaps, NEW ops \in Seq(Operations),
           Writes(ops) \subseteq {d}, Reads(ops) \subseteq srcs \cup {NoPixmap},
           ~ NeedsFlush(d, TRUE, TRUE), \A q \in srcs : ~ NeedsFlush(q, FALSE, TRUE),
           seqno' = seqno + 1, seqno' \in Fences,
           queue' = [queue EXCEPT !["2D"] =
                       Append(@, [ops |-> ops, wait |-> KernelFence(ExplicitFence("3D", d, srcs)), fence |-> seqno])],
           fence' = [fence EXCEPT ![seqno] = "active"],
           last' = [last EXCEPT !["2D"] = seqno],
           Hold({<<d, "2D", "write">>} \cup {<<p, "2D", "read">> : p \in srcs}, seqno),
           batch' = batch, signalled' = signalled
    PROVE  GpuInv'
<1>. DEFINE x == ExplicitFence("3D", d, srcs)
            S == {<<d, "2D", "write">>} \cup {<<p, "2D", "read">> : p \in srcs}
<1>1. PICK f : f = seqno
    OBVIOUS
<1>2. f \in Fences /\ f \in Nat /\ seqno' \in Nat /\ seqno' = f + 1
    BY <1>1, SeqnoFact
<1>3. \A q \in srcs \cup {d} : ~ batch.uses[q].write
    BY DEF NeedsFlush
<1>4. ~ batch.uses[d].read
    BY DEF NeedsFlush
<1>5. Deferred => /\ \A q \in srcs \cup {d} : held[<<q, "3D", "write">>] # batch.job_fence
                  /\ held[<<d, "3D", "read">>] # batch.job_fence
    BY <1>3, <1>4 DEF GpuInv, HeldInv
<1>6. /\ x \in Handle /\ x \in Nat /\ x < seqno
      /\ x = NoFence \/ x \in QF("3D") \/ Past(x, "3D")
      /\ \A j \in Queued("3D") : Conflict(j.ops, ops) => x \in QF("3D") /\ x >= j.fence
    BY <1>5, ExplicitFact, EnginesFact
<1>7. PICK w : w = KernelFence(x)
    OBVIOUS
<1>. DEFINE new == [ops |-> ops, wait |-> w, fence |-> f]
<1>8. /\ w \in Handle /\ w \in Nat /\ (w = x \/ w = NoFence)
      /\ w = NoFence \/ w \in QF("3D") \/ w \in signalled
      /\ x \in QF("3D") => w = x
    BY <1>6, <1>7, KernelFact, EnginesFact, NumbersFact
<1>9. new \in Jobs /\ new.ops = ops /\ new.wait = w /\ new.fence = f
    BY <1>2, <1>8 DEF Jobs
<1>10. queue' = [queue EXCEPT !["2D"] = Append(@, new)]
    BY <1>1, <1>7
<1>11. /\ f \notin signalled /\ f \notin QF("2D") /\ f \notin QF("3D")
       /\ \A g \in QF("2D") : g < f
    BY <1>1, <1>2, QueuedFact, SignalledFact, EnginesFact
<1>12. /\ queue' \in [Engines -> Seq(Jobs)]
       /\ queue'["2D"] # <<>> /\ queue'["3D"] = queue["3D"]
       /\ Queued("2D")' = Queued("2D") \cup {new} /\ QF("2D")' = QF("2D") \cup {f}
       /\ Queued("3D")' = Queued("3D") /\ QF("3D")' = QF("3D")
       /\ \A e \in Engines : \A k, l \in DOMAIN queue'[e] :
             k < l => queue'[e][k].fence < queue'[e][l].fence
    <2>1. GpuType /\ QueueInv /\ \A g \in QF("2D") : g < new.fence
        BY <1>9, <1>11 DEF GpuInv
    <2>. HIDE DEF new
    <2>. QED
        BY <1>9, <1>10, <2>1, AppendFact, EnginesFact DEF Engines
<1>. HIDE DEF new, x
<1>13. /\ fence' \in [Fences -> {"none", "new", "active", "marked"}]
       /\ fence'[f] = "active" /\ \A g \in Fences \ {f} : fence'[g] = fence[g]
       /\ last' \in [Engines -> Handle] /\ last'["2D"] = f /\ last'["3D"] = last["3D"]
    BY <1>1, <1>2, EnginesFact, NumbersFact DEF GpuInv, GpuType
<1>14. /\ held' \in [Slots -> Handle]
       /\ \A s \in Slots : held'[s] = IF s \in S THEN f ELSE held[s]
       /\ \A s \in S : s[2] = "2D"
    BY <1>1, <1>2, HeldFact, NumbersFact DEF Hold
<1>. HIDE DEF S
<1>15. Deferred' = Deferred
    BY DEF Deferred
<1>16. GpuType'
    BY <1>12, <1>13, <1>14 DEF GpuInv, GpuType
<1>17. BatchType'
    BY DEF GpuInv, BatchType
<1>18. Numbered'
    <2>1. \A s \in Slots : held'[s] < seqno'
        BY <1>1, <1>2, <1>14, HeldFact
    <2>2. \A e \in Engines : last'[e] < seqno'
        BY <1>1, <1>2, <1>13, LastFact, EnginesFact DEF Engines
    <2>3. \A e \in Engines : \A j \in Queued(e)' : j.fence < seqno' /\ j.wait < seqno'
        <3>1. \A e \in Engines : \A j \in Queued(e) : j.fence < seqno' /\ j.wait < seqno'
            BY <1>1, <1>2, JobsFact, QueuedFact
        <3>2. new.wait < seqno' /\ new.fence < seqno'
            BY <1>1, <1>2, <1>6, <1>8, <1>9, NumbersFact
        <3>. QED
            BY <1>12, <3>1, <3>2 DEF Engines
    <2>4. \A g \in signalled' : g < seqno'
        BY <1>1, <1>2, SignalledFact
    <2>5. batch'.explicit_fence < seqno' /\ batch'.job_fence < seqno'
        BY <1>1, <1>2, BatchFact
    <2>. QED
        BY <2>1, <2>2, <2>3, <2>4, <2>5 DEF Numbered
<1>19. QueueInv'
    <2>1. \A e \in Engines : \A g \in QF(e)' : fence'[g] = "active" /\ g \notin signalled'
        <3>1. \A e \in Engines : \A g \in QF(e) : fence'[g] = "active" /\ g \notin signalled'
            BY <1>11, <1>13, QueuedFact
        <3>. QED
            BY <1>11, <1>12, <1>13, <3>1 DEF Engines
    <2>2. \A g \in signalled' : fence'[g] \in {"active", "marked"}
        BY <1>13 DEF GpuInv, GpuType, QueueInv
    <2>3. \A e \in Engines : queue'[e] # <<>> => last'[e] \in QF(e)' /\ \A g \in QF(e)' : g <= last'[e]
        <3>1. f <= f
            BY <1>2
        <3>2. \A g \in QF("2D") : g <= f
            BY <1>2, <1>11, QueuedFact, EnginesFact
        <3>3. queue["3D"] # <<>> => last["3D"] \in QF("3D") /\ \A g \in QF("3D") : g <= last["3D"]
            BY EnginesFact DEF GpuInv, QueueInv
        <3>. QED
            BY <1>12, <1>13, <3>1, <3>2, <3>3 DEF Engines
    <2>4. QF("2D")' \cap QF("3D")' = {}
        BY <1>11, <1>12, QueuedFact, EnginesFact
    <2>5. Deferred' => batch'.job_fence \in Fences /\ fence'[batch'.job_fence] = "new"
        BY <1>1, <1>2, <1>13, <1>15, BatchFact
    <2>6. Deferred' => \A g \in QF("3D")' : g < batch'.job_fence
        BY <1>12, <1>15 DEF GpuInv, QueueInv
    <2>. QED
        BY <1>12, <2>1, <2>2, <2>3, <2>4, <2>5, <2>6 DEF QueueInv
<1>20. ASSUME NEW e \in Engines, NEW h, Past(h, e), h < seqno
       PROVE  Past(h, e)'
    <2>1. h \in Fences /\ h \in Nat /\ h # f /\ \A g \in QF(e) : h < g
        BY <1>1, <1>2, <1>20, PastFact
    <2>2. \A g \in QF(e)' : h < g
        BY <1>1, <1>12, <1>20, <2>1 DEF Engines
    <2>3. e = "3D" /\ Deferred' => h < batch'.job_fence
        BY <1>15, <1>20 DEF Past
    <2>. QED
        BY <1>13, <1>20, <2>1, <2>2, <2>3, PastStep
<1>21. HeldInv'
    <2>1. ASSUME NEW s \in Slots, NEW h, h = held'[s]
          PROVE  \/ h = NoFence \/ h \in QF(s[2])' \/ Past(h, s[2])'
                 \/ s[2] = "3D" /\ Deferred' /\ h = batch'.job_fence
        <3>1. CASE s \in S
            BY <1>12, <1>14, <2>1, <3>1
        <3>2. CASE s \notin S
            <4>1. h = held[s] /\ held[s] < seqno /\ s[2] \in Engines
                BY <1>14, <2>1, <3>2, HeldFact
            <4>2. held[s] \in QF(s[2]) => held[s] \in QF(s[2])'
                BY <1>12, <4>1 DEF Engines
            <4>. QED
                BY <1>15, <1>20, <4>1, <4>2, HeldFact
        <3>. QED
            BY <3>1, <3>2
    <2>2. ASSUME NEW s \in Slots
          PROVE  \/ held'[s] = NoFence \/ held'[s] \in QF(s[2])' \/ Past(held[s], s[2])'
                 \/ s[2] = "3D" /\ Deferred' /\ held'[s] = batch'.job_fence
        BY <2>1 DEF Past
    <2>3. ASSUME NEW p \in Pixmaps, NEW k \in {"write", "read"}
          PROVE  held'[<<p, "3D", k>>] = held[<<p, "3D", k>>]
        BY <1>14, SlotsFact, EnginesFact
    <2>4. ASSUME Deferred, NEW p \in Pixmaps
          PROVE  /\ batch.uses[p].write <=> held'[<<p, "3D", "write">>] = batch.job_fence
                 /\ batch.uses[p].read <=> held'[<<p, "3D", "read">>] = batch.job_fence
        BY <2>3, <2>4 DEF GpuInv, HeldInv
    <2>5. LET g == batch.explicit_fence IN g = NoFence \/ g \in QF("2D")' \/ Past(g, "2D")'
        <3>1. PICK g : g = batch.explicit_fence
            OBVIOUS
        <3>2. g = NoFence \/ g \in QF("2D")' \/ Past(g, "2D")'
            BY <1>12, <1>20, <3>1, BatchFact, EnginesFact DEF GpuInv, HeldInv
        <3>. QED
            BY <3>1, <3>2 DEF Past
    <2>. QED
        BY <1>15, <2>2, <2>4, <2>5 DEF HeldInv, Past
<1>22. WaitInv'
    <2>1. ASSUME NEW e \in Engines, NEW j \in Queued(e)'
          PROVE  j.wait = NoFence \/ j.wait \in signalled' \/ j.wait \in QF(Other(e))'
        <3>1. CASE j \in Queued(e)
            <4>1. j.wait = NoFence \/ j.wait \in signalled \/ j.wait \in QF(Other(e))
                BY <3>1 DEF GpuInv, WaitInv
            <4>. QED
                BY <1>12, <4>1, EnginesFact DEF Engines
        <3>2. CASE e = "2D" /\ j = new
            BY <1>8, <1>9, <1>12, <3>2, EnginesFact
        <3>. QED
            BY <1>12, <2>1, <3>1, <3>2 DEF Engines
    <2>2. ASSUME NEW a \in Queued("2D")', NEW b \in Queued("3D")'
          PROVE  ~ (a.wait >= b.fence /\ b.wait >= a.fence)
        <3>1. b \in Queued("3D")
            BY <1>12
        <3>2. CASE a \in Queued("2D")
            BY <3>1, <3>2 DEF GpuInv, WaitInv
        <3>3. CASE a = new
            <4>1. b.wait \in Nat /\ b.wait < seqno
                BY <3>1, JobsFact, EnginesFact
            <4>. QED
                BY <1>1, <1>2, <1>9, <3>3, <4>1
        <3>. QED
            BY <1>12, <2>2, <3>2, <3>3
    <2>3. ASSUME Deferred, NEW a \in Queued("2D")'
          PROVE  a.wait < batch'.job_fence
        <3>1. CASE a \in Queued("2D")
            BY <2>3, <3>1 DEF GpuInv, WaitInv
        <3>2. CASE a = new
            <4>1. batch.job_fence \in Nat /\ batch.job_fence # 0
                BY <2>3, BatchFact, NumbersFact
            <4>2. x \in QF("3D") => x < batch.job_fence
                BY <2>3 DEF GpuInv, QueueInv
            <4>3. Past(x, "3D") => x < batch.job_fence
                BY <2>3 DEF Past
            <4>. QED
                BY <1>6, <1>8, <1>9, <3>2, <4>1, <4>2, <4>3, NumbersFact
        <3>. QED
            BY <1>12, <2>3, <3>1, <3>2
    <2>. QED
        BY <1>15, <2>1, <2>2, <2>3 DEF WaitInv
<1>23. BatchInv'
    BY DEF GpuInv, BatchInv, InBatch
<1>24. CoverInv'
    <2>1. ASSUME NEW e \in Engines, NEW s \in Slots, s[2] = e, NEW g \in QF(e), Covers(held[s], e, g)
          PROVE  Covers(held[s], e, g)'
        <3>1. CASE s \in S
            <4>1. e = "2D" /\ held'[s] = f /\ g < f /\ g \in Nat
                BY <1>11, <1>14, <2>1, <3>1, QueuedFact
            <4>. QED
                BY <1>2, <1>12, <4>1 DEF Covers
        <3>2. CASE s \notin S
            BY <1>12, <1>14, <1>15, <2>1, <3>2 DEF Covers, Engines
        <3>. QED
            BY <3>1, <3>2
    <2>2. ASSUME NEW e \in Engines, NEW j \in Queued(e)
          PROVE  /\ \A p \in Writes(j.ops) : Covers(held[<<p, e, "write">>], e, j.fence)'
                 /\ \A p \in Reads(j.ops) \ {NoPixmap} : Covers(held[<<p, e, "read">>], e, j.fence)'
        <3>1. j.fence \in QF(e) /\ Writes(j.ops) \subseteq Pixmaps /\ Reads(j.ops) \subseteq Pixmaps \cup {NoPixmap}
            BY JobsFact, OpsFact
        <3>2. /\ \A p \in Writes(j.ops) : Covers(held[<<p, e, "write">>], e, j.fence)
              /\ \A p \in Reads(j.ops) \ {NoPixmap} : Covers(held[<<p, e, "read">>], e, j.fence)
            BY DEF GpuInv, CoverInv
        <3>. QED
            BY <2>1, <3>1, <3>2, SlotsFact
    <2>3. /\ \A p \in Writes(ops) : Covers(held[<<p, "2D", "write">>], "2D", f)'
          /\ \A p \in Reads(ops) \ {NoPixmap} : Covers(held[<<p, "2D", "read">>], "2D", f)'
        <3>1. /\ \A p \in Writes(ops) : <<p, "2D", "write">> \in S /\ p \in Pixmaps
              /\ \A p \in Reads(ops) \ {NoPixmap} : <<p, "2D", "read">> \in S /\ p \in Pixmaps
            BY DEF S
        <3>2. \A p \in Writes(ops) : held'[<<p, "2D", "write">>] = f
            BY <1>14, <3>1, SlotsFact, EnginesFact
        <3>3. \A p \in Reads(ops) \ {NoPixmap} : held'[<<p, "2D", "read">>] = f
            BY <1>14, <3>1, SlotsFact, EnginesFact
        <3>4. f >= f /\ f \in QF("2D")'
            BY <1>2, <1>12
        <3>. QED
            BY <3>2, <3>3, <3>4 DEF Covers
    <2>4. ASSUME NEW j, j = new
          PROVE  /\ \A p \in Writes(j.ops) : Covers(held[<<p, "2D", "write">>], "2D", j.fence)'
                 /\ \A p \in Reads(j.ops) \ {NoPixmap} : Covers(held[<<p, "2D", "read">>], "2D", j.fence)'
        <3>1. j.ops = ops /\ j.fence = f
            BY <1>9, <2>4
        <3>. QED
            BY <2>3, <3>1
    <2>5. \A e \in Engines : \A j \in Queued(e)' : j \in Queued(e) \/ (e = "2D" /\ j = new)
        BY <1>12 DEF Engines
    <2>. QED
        BY <2>2, <2>4, <2>5 DEF CoverInv
<1>25. OrderInv'
    <2>0. \A b : Conflict(ops, b) => Conflict(b, ops)
        BY DEF Conflict
    <2>1. ASSUME NEW a \in Queued("2D")', NEW b \in Queued("3D")', Conflict(a.ops, b.ops)
          PROVE  \/ a.wait \in QF("3D")' /\ a.wait >= b.fence
                 \/ b.wait \in QF("2D")' /\ b.wait >= a.fence
        <3>1. b \in Queued("3D")
            BY <1>12
        <3>2. CASE a \in Queued("2D")
            BY <1>12, <2>1, <3>1, <3>2 DEF GpuInv, OrderInv
        <3>3. CASE a = new
            BY <1>6, <1>8, <1>9, <1>12, <2>0, <2>1, <3>1, <3>3
        <3>. QED
            BY <1>12, <2>1, <3>2, <3>3
    <2>2. ~ Conflict(ops, batch.ops)
        <3>1. /\ \A p \in Writes(batch.ops) : batch.uses[p].write
              /\ \A p \in Reads(batch.ops) \ {NoPixmap} : batch.uses[p].read
            BY DEF GpuInv, BatchInv
        <3>2. NoPixmap \notin Writes(batch.ops) /\ d # NoPixmap
            BY BatchFact, OpsFact, RenderAssumption
        <3>. QED
            BY <1>3, <1>4, <3>1, <3>2 DEF Conflict
    <2>3. \A a \in Queued("2D")' : Conflict(a.ops, batch'.ops) =>
             batch'.explicit_fence \in QF("2D")' /\ batch'.explicit_fence >= a.fence
        BY <1>9, <1>12, <2>2 DEF GpuInv, OrderInv
    <2>. QED
        BY <2>1, <2>3 DEF OrderInv
<1>. QED
    BY <1>16, <1>17, <1>18, <1>19, <1>21, <1>22, <1>23, <1>24, <1>25 DEF GpuInv

\* An operation joins the deferred job.
LEMMA Appended ==
    ASSUME GpuInv, NEW d \in Pixmaps, NEW R \in SUBSET Pixmaps, NEW f \in Fences,
           NEW ops \in Seq(Operations), NEW x \in Handle, NEW U \in [Pixmaps -> Use],
           Deferred => f = batch.job_fence /\ seqno' = seqno /\ fence' = fence,
           ~ Deferred => /\ f = seqno /\ seqno' = seqno + 1
                         /\ fence' = [fence EXCEPT ![f] = "new"],
           seqno' \in Fences,
           x = NoFence \/ x \in QF("2D") \/ Past(x, "2D"), x < seqno,
           batch' = [num_jobs |-> batch.num_jobs + 1, ops |-> ops, uses |-> U,
                     explicit_fence |-> x, job_fence |-> f, cur |-> d],
           \A p \in Pixmaps : /\ U[p].write <=> (batch.uses[p].write \/ p = d)
                              /\ U[p].read <=> (batch.uses[p].read \/ p \in R)
                              /\ U[p].refcnt > 0 <=> (U[p].read \/ U[p].write),
           \A p \in Writes(ops) : U[p].write,
           \A p \in Reads(ops) \ {NoPixmap} : U[p].read,
           \A a \in Queued("2D") : Conflict(a.ops, ops) => x \in QF("2D") /\ x >= a.fence,
           Hold({<<d, "3D", "write">>} \cup {<<p, "3D", "read">> : p \in R}, f),
           last' = last, queue' = queue, signalled' = signalled
    PROVE  GpuInv'
<1>. DEFINE S == {<<d, "3D", "write">>} \cup {<<p, "3D", "read">> : p \in R}
<1>1. \A e \in Engines : Queued(e)' = Queued(e) /\ QF(e)' = QF(e)
    BY QueueKept
<1>2. /\ Queued("2D")' = Queued("2D") /\ QF("2D")' = QF("2D")
      /\ Queued("3D")' = Queued("3D") /\ QF("3D")' = QF("3D")
    BY <1>1, EnginesFact
<1>3. /\ batch.num_jobs \in Nat
      /\ batch'.num_jobs = batch.num_jobs + 1 /\ batch'.ops = ops /\ batch'.uses = U
      /\ batch'.explicit_fence = x /\ batch'.job_fence = f /\ batch'.cur = d
    BY BatchFact
<1>4. Deferred'
    BY <1>3 DEF Deferred
<1>5. /\ seqno \in Nat /\ seqno' \in Nat /\ f \in Nat /\ f # 0 /\ x \in Nat
      /\ seqno <= seqno' /\ f < seqno'
    BY SeqnoFact, NumbersFact, BatchFact
<1>6. /\ fence' \in [Fences -> {"none", "new", "active", "marked"}]
      /\ fence'[f] = "new" /\ \A g \in Fences \ {f} : fence'[g] = fence[g]
    BY BatchFact DEF GpuInv, GpuType
<1>7. f \notin signalled /\ f \notin QF("2D") /\ f \notin QF("3D") /\ \A g \in QF("3D") : g < f
    BY QueuedFact, SignalledFact, BatchFact, EnginesFact
<1>8. /\ held' \in [Slots -> Handle]
      /\ \A s \in Slots : held'[s] = IF s \in S THEN f ELSE held[s]
      /\ \A s \in S : s[2] = "3D"
    BY HeldFact, NumbersFact DEF Hold
<1>9. \A p \in Pixmaps : /\ <<p, "3D", "write">> \in S <=> p = d
                         /\ <<p, "3D", "read">> \in S <=> p \in R
    OBVIOUS
<1>. HIDE DEF S
<1>10. GpuType'
    BY <1>6, <1>8 DEF GpuInv, GpuType
<1>11. BatchType'
    <2>1. batch.num_jobs + 1 \in Nat /\ batch.num_jobs + 1 # 0
        BY <1>3
    <2>2. f \in Handle /\ d \in Pixmaps \cup {NoPixmap}
        BY NumbersFact
    <2>3. batch' \in [num_jobs : Nat, ops : Seq(Operations), uses : [Pixmaps -> Use],
                  explicit_fence : Handle, job_fence : Handle,
                  cur : Pixmaps \cup {NoPixmap}]
        BY <2>1, <2>2
    <2>. QED
        BY <1>3, <2>1, <2>3 DEF BatchType
<1>12. Numbered'
    <2>1. \A s \in Slots : held'[s] < seqno'
        BY <1>5, <1>8, HeldFact
    <2>2. \A e \in Engines : last'[e] < seqno'
        BY <1>5, LastFact
    <2>3. \A e \in Engines : \A j \in Queued(e)' : j.fence < seqno' /\ j.wait < seqno'
        BY <1>1, <1>5, JobsFact, QueuedFact
    <2>4. \A g \in signalled' : g < seqno'
        BY <1>5, SignalledFact
    <2>. QED
        BY <1>3, <1>5, <2>1, <2>2, <2>3, <2>4 DEF Numbered
<1>13. QueueInv'
    <2>1. \A e \in Engines : \A g \in QF(e)' : fence'[g] = "active" /\ g \notin signalled'
        <3>1. \A e \in Engines : \A g \in QF(e) : g # f
            BY <1>7 DEF Engines
        <3>. QED
            BY <1>1, <1>6, <3>1, QueuedFact
    <2>2. \A g \in signalled' : fence'[g] \in {"active", "marked"}
        BY <1>6, <1>7, SignalledFact DEF GpuInv, QueueInv
    <2>3. \A e \in Engines : queue'[e] # <<>> => last'[e] \in QF(e)' /\ \A g \in QF(e)' : g <= last'[e]
        BY <1>1 DEF GpuInv, QueueInv
    <2>4. /\ \A e \in Engines : \A i, j \in DOMAIN queue[e] :
                i < j => queue[e][i].fence < queue[e][j].fence
          /\ QF("2D") \cap QF("3D") = {}
        BY DEF GpuInv, QueueInv
    <2>. QED
        BY <1>2, <1>3, <1>6, <1>7, <2>1, <2>2, <2>3, <2>4 DEF QueueInv
<1>14. ASSUME NEW e \in Engines, NEW h, Past(h, e), h < seqno
       PROVE  Past(h, e)'
    <2>1. h \in Fences /\ h \in Nat /\ (Deferred => h # batch.job_fence) /\ \A g \in QF(e)' : h < g
        BY <1>1, <1>14, PastFact
    <2>2. h # f
        BY <1>5, <1>14, <2>1
    <2>3. e = "3D" => h < f
        <3>1. e = "3D" /\ Deferred => h < batch.job_fence
            BY <1>14 DEF Past
        <3>. QED
            BY <1>14, <3>1
    <2>. QED
        BY <1>3, <1>6, <1>14, <2>1, <2>2, <2>3, PastStep
<1>15. HeldInv'
    <2>1. ASSUME NEW s \in Slots, NEW h, h = held'[s]
          PROVE  \/ h = NoFence \/ h \in QF(s[2])' \/ Past(h, s[2])'
                 \/ s[2] = "3D" /\ Deferred' /\ h = batch'.job_fence
        <3>1. CASE s \in S
            BY <1>3, <1>4, <1>8, <2>1, <3>1
        <3>2. CASE s \notin S
            <4>1. h = held[s] /\ held[s] < seqno /\ s[2] \in Engines
                BY <1>8, <2>1, <3>2, HeldFact
            <4>. QED
                BY <1>1, <1>3, <1>4, <1>14, <4>1, HeldFact
        <3>. QED
            BY <3>1, <3>2
    <2>2. ASSUME NEW s \in Slots
          PROVE  \/ held'[s] = NoFence \/ held'[s] \in QF(s[2])' \/ Past(held[s], s[2])'
                 \/ s[2] = "3D" /\ Deferred' /\ held'[s] = batch'.job_fence
        BY <2>1 DEF Past
    <2>3. ASSUME NEW p \in Pixmaps
          PROVE  /\ U[p].write <=> held'[<<p, "3D", "write">>] = f
                 /\ U[p].read <=> held'[<<p, "3D", "read">>] = f
        <3>1. <<p, "3D", "write">> \in Slots /\ <<p, "3D", "read">> \in Slots
            BY SlotsFact, EnginesFact
        <3>2. /\ held'[<<p, "3D", "write">>] = IF p = d THEN f ELSE held[<<p, "3D", "write">>]
              /\ held'[<<p, "3D", "read">>] = IF p \in R THEN f ELSE held[<<p, "3D", "read">>]
            BY <1>8, <1>9, <3>1
        <3>3. CASE Deferred
            <4>1. /\ batch.uses[p].write <=> held[<<p, "3D", "write">>] = f
                  /\ batch.uses[p].read <=> held[<<p, "3D", "read">>] = f
                BY <3>3 DEF GpuInv, HeldInv
            <4>. QED
                BY <3>2, <4>1
        <3>4. CASE ~ Deferred
            <4>1. ~ batch.uses[p].write /\ ~ batch.uses[p].read
                BY <3>4, BatchFact, NoBatchFact
            <4>2. held[<<p, "3D", "write">>] # f /\ held[<<p, "3D", "read">>] # f
                BY <1>5, <3>1, <3>4, HeldFact
            <4>. QED
                BY <3>2, <4>1, <4>2
        <3>. QED
            BY <3>3, <3>4
    <2>4. x = NoFence \/ x \in QF("2D")' \/ Past(x, "2D")'
        BY <1>2, <1>14, EnginesFact
    <2>5. ASSUME NEW g, g = batch'.explicit_fence PROVE g = NoFence \/ g \in QF("2D")' \/ Past(g, "2D")'
        BY <1>3, <2>4, <2>5
    <2>6. LET g == batch.explicit_fence' IN g = NoFence \/ g \in QF("2D")' \/ Past(batch.explicit_fence, "2D")'
        BY <2>5 DEF Past
    <2>. QED
        BY <1>3, <2>2, <2>3, <2>6 DEF HeldInv, Past
<1>16. WaitInv'
    <2>1. \A e \in Engines : \A j \in Queued(e)' : j.wait = NoFence \/ j.wait \in signalled' \/ j.wait \in QF(Other(e))'
        BY <1>1, EnginesFact DEF GpuInv, WaitInv, Engines
    <2>2. ASSUME NEW a \in Queued("2D") PROVE a.wait < f
        <3>1. a.wait \in Nat /\ a.wait < seqno
            BY JobsFact, EnginesFact
        <3>. QED
            BY <1>5, <3>1 DEF GpuInv, WaitInv
    <2>3. \A a \in Queued("2D")' : \A b \in Queued("3D")' : ~ (a.wait >= b.fence /\ b.wait >= a.fence)
        BY <1>2 DEF GpuInv, WaitInv
    <2>. QED
        BY <1>2, <1>3, <2>1, <2>2, <2>3 DEF WaitInv
<1>17. BatchInv'
    <2>1. \A p \in Pixmaps : InBatch(p)' <=> U[p].refcnt > 0
        BY <1>3 DEF InBatch
    <2>2. U[d].write
        OBVIOUS
    <2>. QED
        BY <1>3, <2>1, <2>2 DEF BatchInv, InBatch
<1>18. CoverInv'
    <2>1. ASSUME NEW e \in Engines, NEW s \in Slots, s[2] = e, NEW g \in QF(e), Covers(held[s], e, g)
          PROVE  Covers(held[s], e, g)'
        <3>1. CASE s \in S
            <4>1. e = "3D" /\ held'[s] = f /\ g < f /\ g \in Nat
                BY <1>7, <1>8, <2>1, <3>1, QueuedFact
            <4>. QED
                BY <1>3, <1>4, <1>5, <4>1 DEF Covers
        <3>2. CASE s \notin S
            <4>1. held'[s] = held[s] /\ held[s] >= g
                BY <1>8, <2>1, <3>2 DEF Covers
            <4>2. held[s] \in QF(e) \/ (e = "3D" /\ held[s] = f)
                BY <2>1 DEF Covers
            <4>. QED
                BY <1>1, <1>3, <1>4, <4>1, <4>2 DEF Covers
        <3>. QED
            BY <3>1, <3>2
    <2>2. ASSUME NEW e \in Engines, NEW j \in Queued(e)
          PROVE  /\ \A p \in Writes(j.ops) : Covers(held[<<p, e, "write">>], e, j.fence)'
                 /\ \A p \in Reads(j.ops) \ {NoPixmap} : Covers(held[<<p, e, "read">>], e, j.fence)'
        <3>1. j.fence \in QF(e) /\ Writes(j.ops) \subseteq Pixmaps /\ Reads(j.ops) \subseteq Pixmaps \cup {NoPixmap}
            BY JobsFact, OpsFact
        <3>2. /\ \A p \in Writes(j.ops) : Covers(held[<<p, e, "write">>], e, j.fence)
              /\ \A p \in Reads(j.ops) \ {NoPixmap} : Covers(held[<<p, e, "read">>], e, j.fence)
            BY DEF GpuInv, CoverInv
        <3>. QED
            BY <2>1, <3>1, <3>2, SlotsFact
    <2>. QED
        BY <1>1, <2>2 DEF CoverInv
<1>19. OrderInv'
    BY <1>2, <1>3 DEF GpuInv, OrderInv
<1>. QED
    BY <1>10, <1>11, <1>12, <1>13, <1>15, <1>16, <1>17, <1>18, <1>19 DEF GpuInv

\* An engine executes its first job.
LEMMA Executed ==
    ASSUME GpuInv, NEW e \in Engines, queue[e] # <<>>,
           queue' = [queue EXCEPT ![e] = Tail(@)],
           signalled' = signalled \cup {Head(queue[e]).fence},
           fence' = fence, held' = held, last' = last, seqno' = seqno, batch' = batch
    PROVE  GpuInv'
<1>1. PICK h : h = Head(queue[e])
    OBVIOUS
<1>2. PICK f : f = h.fence
    OBVIOUS
<1>3. /\ queue' \in [Engines -> Seq(Jobs)]
      /\ h \in Jobs /\ Queued(e) = Queued(e)' \cup {h} /\ QF(e) = QF(e)' \cup {f}
      /\ \A g \in QF(e)' : f < g
      /\ \A c \in Engines \ {e} : Queued(c)' = Queued(c) /\ QF(c)' = QF(c) /\ queue'[c] = queue[c]
      /\ \A c \in Engines : \A k, l \in DOMAIN queue'[c] :
            k < l => queue'[c][k].fence < queue'[c][l].fence
      /\ queue'[e] # <<>> => \E g \in QF(e)' : \A i \in QF(e) : i <= g
    BY <1>1, <1>2, TailFact DEF GpuInv
<1>4. /\ f \in QF(e) /\ f \in Fences /\ f \in Nat /\ f < seqno /\ fence[f] = "active"
      /\ f \notin QF(Other(e)) /\ (e = "3D" /\ Deferred => f < batch.job_fence)
      /\ signalled' = signalled \cup {f}
    BY <1>1, <1>2, <1>3, QueuedFact
<1>5. \A c \in Engines : Queued(c)' \subseteq Queued(c) /\ QF(c)' \subseteq QF(c)
    BY <1>3
<1>6. \A c \in Engines : \A g \in QF(c) : g \in QF(c)' \/ (c = e /\ g = f)
    BY <1>3
<1>7. Deferred' = Deferred
    BY DEF Deferred
<1>8. \A c \in Engines : \A g \in QF(c)' : g # f
    <2>1. \A g \in QF(e)' : g # f
        BY <1>3, <1>4
    <2>2. \A c \in Engines : c = e \/ c = Other(e)
        BY DEF Engines, Other
    <2>. QED
        BY <1>3, <1>4, <1>5, <2>1, <2>2
<1>8a. ASSUME NEW g \in QF(e)', NEW i \in QF(e), i >= g PROVE i # f
    <2>1. f < g /\ g \in Nat /\ f \in Nat
        BY <1>3, <1>4, <1>5, QueuedFact
    <2>. QED
        BY <1>8a, <2>1
<1>9. GpuType'
    BY <1>3, <1>4 DEF GpuInv, GpuType
<1>10. BatchType'
    BY DEF GpuInv, BatchType
<1>11. Numbered'
    BY <1>4, <1>5 DEF GpuInv, Numbered
<1>12. QueueInv'
    <2>1. \A c \in Engines : \A g \in QF(c)' : fence'[g] = "active" /\ g \notin signalled'
        BY <1>4, <1>5, <1>8, QueuedFact
    <2>2. \A g \in signalled' : fence'[g] \in {"active", "marked"}
        BY <1>4 DEF GpuInv, QueueInv
    <2>3. ASSUME NEW c \in Engines, queue'[c] # <<>>
          PROVE  last'[c] \in QF(c)' /\ \A g \in QF(c)' : g <= last'[c]
        <3>1. queue[c] # <<>>
            BY <1>3, <2>3
        <3>2. last[c] \in QF(c) /\ \A g \in QF(c) : g <= last[c]
            BY <3>1 DEF GpuInv, QueueInv
        <3>3. ~ (c = e /\ last[c] = f)
            <4>1. SUFFICES ASSUME c = e, last[c] = f PROVE FALSE
                OBVIOUS
            <4>2. PICK g \in QF(e)' : TRUE
                BY <1>3, <2>3, <4>1
            <4>3. f < g /\ g \in Nat /\ g <= f
                BY <1>3, <1>5, <3>2, <4>1, <4>2, QueuedFact
            <4>. QED
                BY <1>4, <4>3
        <3>. QED
            BY <1>5, <1>6, <3>2, <3>3
    <2>4. Deferred' => \A g \in QF("3D")' : g < batch'.job_fence
        BY <1>5, <1>7, EnginesFact DEF GpuInv, QueueInv
    <2>5. QF("2D")' \cap QF("3D")' = {}
        BY <1>5, EnginesFact DEF GpuInv, QueueInv
    <2>6. Deferred' => batch'.job_fence \in Fences /\ fence'[batch'.job_fence] = "new"
        BY <1>7, BatchFact
    <2>. QED
        BY <1>3, <2>1, <2>2, <2>3, <2>4, <2>5, <2>6 DEF QueueInv
<1>13. ASSUME NEW c \in Engines, NEW g, Past(g, c)
       PROVE  Past(g, c)'
    <2>1. \A i \in QF(c)' : g < i
        BY <1>5, <1>13, PastFact
    <2>2. c = "3D" /\ Deferred' => g < batch'.job_fence
        BY <1>7, <1>13 DEF Past
    <2>. QED
        BY <1>4, <1>13, <2>1, <2>2, PastStep
<1>14. Past(f, e)'
    BY <1>3, <1>4, <1>7 DEF Past
<1>15. HeldInv'
    <2>1. ASSUME NEW s \in Slots, NEW g, g = held[s]
          PROVE  \/ g = NoFence \/ g \in QF(s[2])' \/ Past(g, s[2])'
                 \/ s[2] = "3D" /\ Deferred' /\ g = batch'.job_fence
        <3>1. s[2] \in Engines
            BY HeldFact
        <3>. QED
            BY <1>6, <1>7, <1>13, <1>14, <2>1, <3>1, HeldFact
    <2>2. ASSUME NEW s \in Slots
          PROVE  \/ held'[s] = NoFence \/ held'[s] \in QF(s[2])' \/ Past(held[s], s[2])'
                 \/ s[2] = "3D" /\ Deferred' /\ held'[s] = batch'.job_fence
        BY <2>1 DEF Past
    <2>3. LET g == batch.explicit_fence IN g = NoFence \/ g \in QF("2D")' \/ Past(g, "2D")'
        <3>1. PICK g : g = batch.explicit_fence
            OBVIOUS
        <3>2. g = NoFence \/ g \in QF("2D")' \/ Past(g, "2D")'
            BY <1>6, <1>13, <1>14, <3>1, EnginesFact DEF GpuInv, HeldInv
        <3>. QED
            BY <3>1, <3>2 DEF Past
    <2>. QED
        BY <1>7, <2>2, <2>3 DEF HeldInv, Past, GpuInv
<1>16. WaitInv'
    <2>1. ASSUME NEW c \in Engines, NEW j \in Queued(c)'
          PROVE  j.wait = NoFence \/ j.wait \in signalled' \/ j.wait \in QF(Other(c))'
        <3>1. j.wait = NoFence \/ j.wait \in signalled \/ j.wait \in QF(Other(c))
            BY <1>5 DEF GpuInv, WaitInv
        <3>2. Other(c) \in Engines
            BY EnginesFact DEF Engines
        <3>. QED
            BY <1>4, <1>6, <3>1, <3>2
    <2>. QED
        BY <1>5, <1>7, <2>1, EnginesFact DEF GpuInv, WaitInv
<1>17. BatchInv'
    BY DEF GpuInv, BatchInv, InBatch
<1>18. CoverInv'
    <2>1. ASSUME NEW c \in Engines, NEW s, NEW j \in Queued(c)', Covers(held[s], c, j.fence)
          PROVE  Covers(held[s], c, j.fence)'
        <3>1. j \in Queued(c) /\ held[s] >= j.fence /\ j.fence \in QF(c)'
            BY <1>5, <2>1, NewQueued DEF Covers
        <3>2. c = e /\ held[s] \in QF(c) => held[s] # f
            BY <1>8a, <3>1
        <3>. QED
            BY <1>6, <1>7, <2>1, <3>1, <3>2 DEF Covers
    <2>. QED
        BY <1>5, <2>1 DEF CoverInv, GpuInv
<1>19. OrderInv'
    <2>1. ASSUME NEW c \in Engines, NEW g \in QF(c), NEW j \in Queued(c)', g >= j.fence
          PROVE  g \in QF(c)'
        <3>1. j.fence \in QF(c)'
            BY NewQueued
        <3>2. c = e => g # f
            BY <1>8a, <2>1, <3>1
        <3>. QED
            BY <1>6, <3>2
    <2>2. ASSUME NEW a \in Queued("2D")', NEW b \in Queued("3D")', Conflict(a.ops, b.ops)
          PROVE  \/ a.wait \in QF("3D")' /\ a.wait >= b.fence
                 \/ b.wait \in QF("2D")' /\ b.wait >= a.fence
        BY <1>5, <2>1, <2>2, EnginesFact DEF GpuInv, OrderInv
    <2>3. ASSUME NEW a \in Queued("2D")', Conflict(a.ops, batch'.ops)
          PROVE  batch'.explicit_fence \in QF("2D")' /\ batch'.explicit_fence >= a.fence
        BY <1>5, <2>1, <2>3, EnginesFact DEF GpuInv, OrderInv
    <2>. QED
        BY <2>2, <2>3 DEF OrderInv
<1>. QED
    BY <1>9, <1>10, <1>11, <1>12, <1>15, <1>16, <1>17, <1>18, <1>19 DEF GpuInv

-----------------------------------------------------------------------------
(* What the invariant of the fences and the queues is good for.            *)

\* The first job of a queue has the earliest fence.
LEMMA HeadFact ==
    ASSUME GpuInv, NEW e \in Engines, queue[e] # <<>>
    PROVE  /\ Head(queue[e]) \in Queued(e)
           /\ \A f \in QF(e) : Head(queue[e]).fence <= f
<1>. DEFINE q == queue[e]
            n == Len(q)
<1>1. q \in Seq(Jobs) /\ n \in Nat \ {0} /\ DOMAIN q = 1..n /\ Head(q) = q[1]
    BY DEF GpuInv, GpuType
<1>2. \A k, l \in 1..n : k < l => q[k].fence < q[l].fence
    BY <1>1 DEF GpuInv, QueueInv
<1>3. 1 \in 1..n
    BY <1>1
<1>4. \A i \in 1..n : q[i] \in Queued(e)
    BY <1>1 DEF Queued
<1>5. ASSUME NEW f \in QF(e) PROVE q[1].fence <= f
    <2>1. PICK i \in 1..n : f = q[i].fence
        BY <1>1 DEF QF, Queued
    <2>2. q[i].fence \in Nat /\ q[1].fence \in Nat
        BY <1>3, <1>4, JobsFact, QueuedFact
    <2>3. i = 1 \/ 1 < i
        BY <1>1
    <2>. HIDE DEF q, n
    <2>. QED
        BY <1>2, <1>3, <2>1, <2>2, <2>3
<1>. QED
    BY <1>1, <1>3, <1>4, <1>5

LEMMA NeverStuck == GpuInv => GpuNeverStuck
<1>. SUFFICES ASSUME GpuInv, NEW e \in Engines, queue[e] # <<>>,
                     \A d \in Engines : ~ Runnable(d)
              PROVE  FALSE
    BY DEF GpuNeverStuck
<1>1. ASSUME NEW d \in Engines, queue[d] # <<>>
      PROVE  /\ Head(queue[d]) \in Queued(d) /\ Head(queue[d]).wait \in QF(Other(d))
             /\ queue[Other(d)] # <<>>
    <2>1. Head(queue[d]) \in Queued(d)
        BY <1>1, HeadFact
    <2>2. Head(queue[d]).wait # NoFence /\ Head(queue[d]).wait \notin signalled
        BY <1>1 DEF Runnable
    <2>3. Head(queue[d]).wait \in QF(Other(d))
        BY <2>1, <2>2 DEF GpuInv, WaitInv
    <2>. QED
        BY <2>1, <2>3 DEF QF, Queued
<1>2. queue["2D"] # <<>> /\ queue["3D"] # <<>>
    BY <1>1, EnginesFact DEF Engines
<1>. DEFINE a == Head(queue["2D"])
            b == Head(queue["3D"])
<1>3. a \in Queued("2D") /\ a.wait \in QF("3D") /\ b \in Queued("3D") /\ b.wait \in QF("2D")
    BY <1>1, <1>2, EnginesFact
<1>4. a.wait >= b.fence /\ b.wait >= a.fence
    <2>1. b.fence <= a.wait /\ a.fence <= b.wait
        BY <1>2, <1>3, HeadFact, EnginesFact
    <2>. QED
        BY <2>1
<1>. QED
    BY <1>3, <1>4 DEF GpuInv, WaitInv

LEMMA Disjoint == GpuInv => EnginesDisjoint
<1>. SUFFICES ASSUME GpuInv, \A e \in Engines : Runnable(e),
                     Conflict(Head(queue["2D"]).ops, Head(queue["3D"]).ops)
              PROVE  FALSE
    BY DEF EnginesDisjoint, Conflict
<1>. DEFINE a == Head(queue["2D"])
            b == Head(queue["3D"])
<1>1. queue["2D"] # <<>> /\ queue["3D"] # <<>>
    BY EnginesFact DEF Runnable
<1>2. a \in Queued("2D") /\ b \in Queued("3D")
    BY <1>1, HeadFact, EnginesFact
<1>3. a.wait \in QF("3D") \/ b.wait \in QF("2D")
    BY <1>2 DEF GpuInv, OrderInv
<1>4. (a.wait = NoFence \/ a.wait \in signalled) /\ (b.wait = NoFence \/ b.wait \in signalled)
    BY EnginesFact DEF Runnable
<1>5. \A e \in Engines : \A f \in QF(e) : f # NoFence /\ f \notin signalled
    BY QueuedFact, NumbersFact
<1>. QED
    BY <1>3, <1>4, <1>5, EnginesFact

\* A pixmap whose fences are completed and that the deferred job leaves
\* alone is in no job.
LEMMA CleanFree ==
    ASSUME GpuInv, NEW p \in Pixmaps, NEW r \in BOOLEAN, Clean(p, r)
    PROVE  Unwritten(p) /\ (r => Untouched(p))
<1>1. ~ batch.uses[p].write /\ (r => ~ batch.uses[p].read)
    BY DEF Clean, NeedsFlush
<1>2. p # NoPixmap
    BY RenderAssumption
<1>3. p \notin Writes(batch.ops) /\ (r => p \notin Reads(batch.ops))
    BY <1>1, <1>2 DEF GpuInv, BatchInv
<1>4. ASSUME NEW e \in Engines, NEW j \in Queued(e), NEW s \in WaitSlots(p, r), s[2] = e,
             s = <<p, e, "write">> \/ s = <<p, e, "read">>
      PROVE  ~ Covers(held[s], e, j.fence)
    <2>1. Completed(held[s])
        BY DEF Clean
    <2>2. held[s] \notin QF(e)
        BY <2>1, QueuedFact, NumbersFact DEF Completed
    <2>3. s = <<p, "3D", "write">> \/ (s = <<p, "3D", "read">> /\ r) \/ e # "3D"
        BY <1>4 DEF WaitSlots, Written, Read
    <2>4. e = "3D" /\ Deferred => held[s] # batch.job_fence
        BY <1>1, <2>3 DEF GpuInv, HeldInv
    <2>. QED
        BY <2>2, <2>4 DEF Covers
<1>5. ASSUME NEW e \in Engines, NEW j \in Queued(e)
      PROVE  p \notin Writes(j.ops) /\ (r => p \notin Reads(j.ops))
    <2>1. /\ \A q \in Writes(j.ops) : Covers(held[<<q, e, "write">>], e, j.fence)
          /\ \A q \in Reads(j.ops) \ {NoPixmap} : Covers(held[<<q, e, "read">>], e, j.fence)
        BY DEF GpuInv, CoverInv
    <2>2. <<p, e, "write">> \in WaitSlots(p, r) /\ (r => <<p, e, "read">> \in WaitSlots(p, r))
        BY DEF WaitSlots, Written, Read
    <2>. QED
        BY <1>2, <1>4, <2>1, <2>2
<1>6. ASSUME NEW ops \in Pending PROVE p \notin Writes(ops) /\ (r => p \notin Reads(ops))
    <2>1. CASE ops = batch.ops
        BY <1>3, <2>1
    <2>2. CASE \E e \in Engines : ops \in {queue[e][i].ops : i \in DOMAIN queue[e]}
        <3>0. PICK e \in Engines : ops \in {queue[e][i].ops : i \in DOMAIN queue[e]}
            BY <2>2
        <3>1. PICK i \in DOMAIN queue[e] : ops = queue[e][i].ops
            BY <3>0
        <3>2. queue[e][i] \in Queued(e)
            BY DEF Queued
        <3>. QED
            BY <1>5, <3>1, <3>2
    <2>. DEFINE All == UNION {{queue[e][i].ops : i \in DOMAIN queue[e]} : e \in Engines}
    <2>3. ops \in All \cup {batch.ops}
        BY Zenon DEF Pending
    <2>4. CASE ops \in All
        <3>1. PICK A \in {{queue[e][i].ops : i \in DOMAIN queue[e]} : e \in Engines} : ops \in A
            BY <2>4
        <3>. QED
            BY <2>2, <3>1
    <2>. HIDE DEF All
    <2>. QED
        BY <2>1, <2>3, <2>4
<1>. QED
    BY <1>6 DEF Unwritten, Untouched

=============================================================================
