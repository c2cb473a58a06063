----------------------------- MODULE V3DFenceInv ----------------------------
(***************************************************************************)
(* The inductive invariant of the fence proofs (V3DSched), what it says of *)
(* FIFOs and counters, and the steps that keep it without a job being      *)
(* kicked or done: clients come and go, the scheduler moves on, and        *)
(* submits put jobs last in their FIFOs.                                   *)
(***************************************************************************)
EXTENDS V3DSchedProps, TLAPS

\* No unit ever fails to finish, so no bin fails and nothing is reaped or reset.
NoFailure == MayHang = {} /\ ~CsdMayStick

\* The queues whose jobs complete in order.
Orderly(q) == q # RENDER \/ NoFailure

-----------------------------------------------------------------------------
(* The inductive invariant                                                 *)

\* Records of jobs that were never submitted are free.
Fresh == \A j \in JobIds : j > gseq => job[j] = FreeJob

\* A FIFO holds queued jobs of its own, in the order of their seqnos ...
Lined ==
  \A q \in Queues, s \in Slots :
    /\ \A i \in DOMAIN fifo[q][s] :
         LET j == fifo[q][s][i]
         IN  job[j].st = "queued" /\ job[j].q = q /\ job[j].slot = s
    /\ \A i, k \in DOMAIN fifo[q][s] :
         i < k => job[fifo[q][s][i]].seq < job[fifo[q][s][k]].seq

\* ... and every queued job is in one.
Kept ==
  \A j \in JobIds : job[j].st = "queued" =>
    \E i \in DOMAIN fifo[job[j].q][job[j].slot] : fifo[job[j].q][job[j].slot][i] = j

\* A started job is on its queue's unit, which has no other.
OnUnit ==
  /\ \A q \in Queues : active[q] # NoJob =>
       job[active[q]].st = "active" /\ job[active[q]].q = q
  /\ \A j \in JobIds : job[j].st = "active" => active[job[j].q] = j

\* A client's waiting jobs are younger than its running one on that queue.
Younger ==
  \A i, j \in JobIds :
    /\ job[i].st = "active" /\ job[j].st = "queued"
    /\ job[i].q = job[j].q /\ job[i].slot = job[j].slot
    => job[i].seq < job[j].seq

\* srv.nbusy counts the busy units.
Busy(q) == IF active[q] = NoJob THEN 0 ELSE 1

Counted == nbusy = Busy(BIN) + Busy(RENDER) + Busy(TFU) + Busy(CSD)

\* A job that is there belongs to the row's owner, and its fence is issued and,
\* on an orderly queue, not signalled.
Alive ==
  \A j \in JobIds : Live(j) =>
    /\ job[j].gen = gen[job[j].slot]
    /\ job[j].st = "queued" => used[job[j].slot]
    /\ 0 < job[j].seq /\ job[j].seq <= nextSeq[job[j].slot][job[j].q]
    /\ Orderly(job[j].q) => completed[job[j].slot][job[j].q] < job[j].seq

\* Nothing is signalled or flushed beyond what was issued.
Issued ==
  \A s \in Slots, q \in Queues :
    completed[s][q] <= nextSeq[s][q] /\ deadFlush[s][q] <= nextSeq[s][q]

\* The bin and the render job of a CL point at each other until one is done.
Linked ==
  \A j \in JobIds : job[j].mate # NoJob =>
    /\ Live(j)
    /\ job[job[j].mate].mate = j
    /\ job[j].q = BIN => job[job[j].mate].q = RENDER

\* Only a render job is marked by a failed bin; none that runs is, nor is it
\* still linked.
Marked ==
  /\ \A j \in JobIds : job[j].derr => job[j].q = RENDER /\ ~NoFailure
  /\ active[RENDER] # NoJob => ~job[active[RENDER]].derr /\ job[active[RENDER]].mate = NoJob

\* In the kick phase the failed heads have been reaped.
Reaped ==
  at = "kick" => active[RENDER] # NoJob \/ \A s \in Slots : ~Reapable(RENDER, s)

\* A close has discarded what was queued and runs to its end.
Closing ==
  /\ ret = "close" <=> closing # -1
  /\ at = "close" => ret = "close"
  /\ closing # -1 => at \notin {"free", "event"} /\ (at = "wedge" => wret = "ret")
  /\ \A j \in JobIds : job[j].st = "queued" => job[j].slot # closing

\* Where nothing fails there is no reset, a dead client's fences are signalled
\* or will be with its running job, and a running job's in-fences are signalled.
Sound ==
  NoFailure =>
    /\ at # "wedge" /\ late \subseteq {CPU}
    /\ \A s \in Slots, q \in Queues : ~used[s] \/ closing = s =>
         IF ActiveOf(s, q) THEN deadFlush[s][q] = nextSeq[s][q]
         ELSE completed[s][q] = nextSeq[s][q]
    /\ \A j \in JobIds : Live(j) => \A f \in job[j].deps : f.gen <= gen[f.slot]
    /\ \A j \in JobIds : job[j].st = "active" => \A f \in job[j].deps : Signaled(f)

FenceInv ==
  /\ TypeOK /\ Fresh /\ Lined /\ Kept /\ OnUnit /\ Younger /\ Counted
  /\ Alive /\ Issued /\ Linked /\ Marked /\ Reaped /\ Closing /\ Sound

-----------------------------------------------------------------------------
(* Facts the steps have in common                                          *)

\* The queues are distinct.
LEMMA QueueFacts ==
  /\ HwQueues \subseteq Queues /\ CPU \in Queues /\ CPU \notin HwQueues
  /\ BIN \in HwQueues /\ RENDER \in HwQueues /\ TFU \in HwQueues /\ CSD \in HwQueues
  /\ BIN # RENDER /\ BIN # TFU /\ BIN # CSD /\ RENDER # TFU /\ RENDER # CSD /\ TFU # CSD
  /\ CPU # BIN /\ CPU # RENDER /\ CPU # TFU /\ CPU # CSD
  /\ \A q \in HwQueues : q = BIN \/ q = RENDER \/ q = TFU \/ q = CSD
BY DEF Queues, HwQueues, BIN, RENDER, TFU, CSD, CPU

\* What a job record holds.
LEMMA JobFields ==
  ASSUME TypeOK, NEW j \in JobIds
  PROVE  /\ job[j] \in Jobs
         /\ job[j].q \in Queues /\ job[j].slot \in Slots
         /\ job[j].gen \in Nat /\ job[j].seq \in Nat
         /\ job[j].deps \subseteq Fence
         /\ job[j].mate \in JobIds \cup {NoJob}
<1>1. job[j] \in Jobs
  BY DEF TypeOK
<1> QED
  BY <1>1 DEF Jobs

\* What the units, the rows and the FIFOs hold.
LEMMA StateFields ==
  ASSUME TypeOK
  PROVE  /\ \A q \in Queues : active[q] # NoJob => active[q] \in JobIds
         /\ \A t \in Slots, q \in Queues :
              completed[t][q] \in Nat /\ nextSeq[t][q] \in Nat /\ deadFlush[t][q] \in Nat
BY ZenonT(20) DEF TypeOK

\* No job is job 0.
LEMMA NoJobFact == NoJob \notin JobIds
BY SchedAssumption DEF NoJob, JobIds

\* No slot is slot -1, the closing slot when none is being closed.
LEMMA SlotFact == \A s \in Slots : s # -1
BY SchedAssumption DEF Slots

\* The fields of a free record.
LEMMA FreeFields ==
  /\ FreeJob.st = "free" /\ FreeJob.mate = NoJob /\ FreeJob.derr = FALSE /\ FreeJob.deps = {}
BY DEF FreeJob

\* Popping a FIFO leaves the others, and the rest of its own, one place on.
LEMMA PopFacts ==
  ASSUME TypeOK, NEW q \in Queues, NEW s \in Slots, fifo[q][s] # <<>>
  PROVE  /\ Head(fifo[q][s]) \in JobIds /\ Head(fifo[q][s]) = fifo[q][s][1]
         /\ 1 \in DOMAIN fifo[q][s]
         /\ \A p \in Queues, t \in Slots :
              ~(p = q /\ t = s) => Popped(q, s)[p][t] = fifo[p][t]
         /\ \A i : i \in DOMAIN Popped(q, s)[q][s] <=>
                     i \in Nat /\ i >= 1 /\ i + 1 \in DOMAIN fifo[q][s]
         /\ \A i \in DOMAIN Popped(q, s)[q][s] : Popped(q, s)[q][s][i] = fifo[q][s][i + 1]
<1> DEFINE f == fifo[q][s]
<1>1. f \in Seq(JobIds) /\ f # <<>>
  BY DEF TypeOK
<1>2. Popped(q, s)[q][s] = Tail(f)
  BY DEF Popped, TypeOK
<1>3. \A p \in Queues, t \in Slots : ~(p = q /\ t = s) => Popped(q, s)[p][t] = fifo[p][t]
  BY DEF Popped, TypeOK
<1> HIDE DEF f
<1>4. Head(f) \in JobIds /\ Head(f) = f[1] /\ 1 \in DOMAIN f
  BY <1>1
<1>5. /\ \A i : i \in DOMAIN Tail(f) <=> i \in Nat /\ i >= 1 /\ i + 1 \in DOMAIN f
      /\ \A i \in DOMAIN Tail(f) : Tail(f)[i] = f[i + 1]
  <2>1. Tail(f) \in Seq(JobIds) /\ Len(Tail(f)) = Len(f) - 1 /\ Len(f) \in Nat
    BY <1>1
  <2>2. DOMAIN Tail(f) = 1 .. Len(f) - 1 /\ DOMAIN f = 1 .. Len(f)
    BY <1>1, <2>1
  <2>3. \A i : i \in DOMAIN Tail(f) <=> i \in Nat /\ i >= 1 /\ i + 1 \in DOMAIN f
    BY <2>1, <2>2
  <2>4. \A i \in 1 .. Len(f) - 1 : Tail(f)[i] = f[i + 1]
    BY <1>1, <2>1
  <2> QED
    BY <2>2, <2>3, <2>4
<1> QED
  BY <1>2, <1>3, <1>4, <1>5 DEF f

\* The FIFOs P hold, in order, every queued job but j.
Holds(P, j) ==
  /\ \A p \in Queues, t \in Slots : \A i \in DOMAIN P[p][t] :
       /\ P[p][t][i] \in JobIds /\ P[p][t][i] # j
       /\ job[P[p][t][i]].st = "queued" /\ job[P[p][t][i]].q = p
       /\ job[P[p][t][i]].slot = t
       /\ \A k \in DOMAIN P[p][t] : i < k => job[P[p][t][i]].seq < job[P[p][t][k]].seq
  /\ \A i \in JobIds : job[i].st = "queued" /\ i # j =>
       \E k \in DOMAIN P[job[i].q][job[i].slot] : P[job[i].q][job[i].slot][k] = i

\* What such FIFOs hold at a place.
LEMMA HoldsFacts ==
  ASSUME NEW P, NEW j, Holds(P, j), NEW p \in Queues, NEW t \in Slots, NEW i \in DOMAIN P[p][t]
  PROVE  /\ P[p][t][i] \in JobIds /\ P[p][t][i] # j
         /\ job[P[p][t][i]].st = "queued" /\ job[P[p][t][i]].q = p
         /\ job[P[p][t][i]].slot = t
         /\ \A k \in DOMAIN P[p][t] : i < k => job[P[p][t][i]].seq < job[P[p][t][k]].seq
BY Zenon DEF Holds

\* What the FIFOs hold at a place.
LEMMA LinedFacts ==
  ASSUME Lined, NEW q \in Queues, NEW s \in Slots, NEW i \in DOMAIN fifo[q][s]
  PROVE  /\ job[fifo[q][s][i]].st = "queued" /\ job[fifo[q][s][i]].q = q
         /\ job[fifo[q][s][i]].slot = s
         /\ \A k \in DOMAIN fifo[q][s] : i < k => job[fifo[q][s][i]].seq < job[fifo[q][s][k]].seq
<1>1. \A a \in DOMAIN fifo[q][s] :
        /\ job[fifo[q][s][a]].st = "queued" /\ job[fifo[q][s][a]].q = q
        /\ job[fifo[q][s][a]].slot = s
  BY Zenon DEF Lined
<1>2. \A a, k \in DOMAIN fifo[q][s] : a < k => job[fifo[q][s][a]].seq < job[fifo[q][s][k]].seq
  BY Zenon DEF Lined
<1> QED
  BY <1>1, <1>2, Zenon

\* Popping a FIFO keeps the order, and takes its oldest job and no other.
LEMMA PopHolds ==
  ASSUME TypeOK, Lined, Kept, NEW q \in Queues, NEW s \in Slots, fifo[q][s] # <<>>
  PROVE  /\ Holds(Popped(q, s), Head(fifo[q][s]))
         /\ Head(fifo[q][s]) \in JobIds /\ job[Head(fifo[q][s])].st = "queued"
         /\ job[Head(fifo[q][s])].q = q /\ job[Head(fifo[q][s])].slot = s
         /\ \A i \in JobIds :
              job[i].st = "queued" /\ job[i].q = q /\ job[i].slot = s /\ i # Head(fifo[q][s]) =>
                job[Head(fifo[q][s])].seq < job[i].seq
<1> DEFINE j == Head(fifo[q][s])
           P == Popped(q, s)
<1>1. /\ j \in JobIds /\ j = fifo[q][s][1] /\ 1 \in DOMAIN fifo[q][s] /\ job[j].seq \in Nat
      /\ job[j].st = "queued" /\ job[j].q = q /\ job[j].slot = s
  BY PopFacts, JobFields, LinedFacts
<1>2. \A p \in Queues, t \in Slots : ~(p = q /\ t = s) => P[p][t] = fifo[p][t]
  BY PopFacts
<1>3. /\ \A i : i \in DOMAIN P[q][s] <=> i \in Nat /\ i >= 1 /\ i + 1 \in DOMAIN fifo[q][s]
      /\ \A i \in DOMAIN P[q][s] : P[q][s][i] = fifo[q][s][i + 1]
  BY PopFacts
<1>4. \A p \in Queues, t \in Slots : fifo[p][t] \in Seq(JobIds)
  BY DEF TypeOK
<1>5. \A i \in DOMAIN fifo[q][s] : i \in Nat /\ (i = 1 \/ i > 1) /\ fifo[q][s][i] \in JobIds
  BY <1>4
<1> HIDE DEF j, P
<1>6. ASSUME NEW i \in DOMAIN fifo[q][s], i > 1
      PROVE  job[j].seq < job[fifo[q][s][i]].seq /\ fifo[q][s][i] # j
  <2>1. job[j].seq < job[fifo[q][s][i]].seq
    BY <1>1, <1>6, LinedFacts
  <2> QED
    BY <1>1, <2>1
<1>7. ASSUME NEW p \in Queues, NEW t \in Slots, NEW i \in DOMAIN P[p][t]
      PROVE  /\ P[p][t][i] \in JobIds /\ P[p][t][i] # j
             /\ job[P[p][t][i]].st = "queued" /\ job[P[p][t][i]].q = p
             /\ job[P[p][t][i]].slot = t
             /\ \A k \in DOMAIN P[p][t] : i < k => job[P[p][t][i]].seq < job[P[p][t][k]].seq
  <2>1. CASE ~(p = q /\ t = s)
    <3>1. P[p][t] = fifo[p][t] /\ i \in DOMAIN fifo[p][t]
      BY <1>2, <1>7, <2>1
    <3>2. fifo[p][t][i] \in JobIds
      BY <1>4, <3>1
    <3>3. /\ job[fifo[p][t][i]].st = "queued" /\ job[fifo[p][t][i]].q = p
          /\ job[fifo[p][t][i]].slot = t
          /\ \A k \in DOMAIN fifo[p][t] : i < k => job[fifo[p][t][i]].seq < job[fifo[p][t][k]].seq
      BY <3>1, LinedFacts, Zenon
    <3>4. fifo[p][t][i] # j
      BY <1>1, <2>1, <3>3
    <3> QED
      BY <3>1, <3>2, <3>3, <3>4, Zenon
  <2>2. CASE p = q /\ t = s
    <3>1. i \in Nat /\ i + 1 \in DOMAIN fifo[q][s] /\ i + 1 > 1 /\ P[q][s][i] = fifo[q][s][i + 1]
      BY <1>3, <1>7, <2>2
    <3>2. /\ P[q][s][i] \in JobIds /\ P[q][s][i] # j /\ job[P[q][s][i]].st = "queued"
          /\ job[P[q][s][i]].q = q /\ job[P[q][s][i]].slot = s
      BY <1>5, <1>6, <3>1 DEF Lined
    <3>3. ASSUME NEW k \in DOMAIN P[q][s], i < k
          PROVE  job[P[q][s][i]].seq < job[P[q][s][k]].seq
      <4>1. k \in Nat /\ k + 1 \in DOMAIN fifo[q][s] /\ P[q][s][k] = fifo[q][s][k + 1] /\ i + 1 < k + 1
        BY <1>3, <3>1, <3>3
      <4> QED
        BY <3>1, <4>1 DEF Lined
    <3> QED
      BY <2>2, <3>2, <3>3
  <2> QED
    BY <2>1, <2>2
<1>8. ASSUME NEW i \in JobIds, job[i].st = "queued", i # j
      PROVE  /\ \E k \in DOMAIN P[job[i].q][job[i].slot] : P[job[i].q][job[i].slot][k] = i
             /\ job[i].q = q /\ job[i].slot = s => job[j].seq < job[i].seq
  <2>1. PICK k \in DOMAIN fifo[job[i].q][job[i].slot] : fifo[job[i].q][job[i].slot][k] = i
    BY <1>8 DEF Kept
  <2>2. job[i].q \in Queues /\ job[i].slot \in Slots
    BY JobFields
  <2>3. CASE ~(job[i].q = q /\ job[i].slot = s)
    BY <1>2, <2>1, <2>2, <2>3
  <2>4. CASE job[i].q = q /\ job[i].slot = s
    <3>1. k \in DOMAIN fifo[q][s] /\ k > 1 /\ k \in Nat /\ fifo[q][s][k] = i
      BY <1>1, <1>5, <1>8, <2>1, <2>4
    <3>2. k - 1 \in Nat /\ k - 1 >= 1 /\ (k - 1) + 1 = k
      BY <3>1
    <3>3. k - 1 \in DOMAIN P[q][s] /\ P[q][s][k - 1] = i
      BY <1>3, <3>1, <3>2
    <3> QED
      BY <1>6, <2>4, <3>1, <3>3
  <2> QED
    BY <2>3, <2>4
<1>9. Holds(P, j)
  BY <1>7, <1>8, Zenon DEF Holds
<1> QED
  BY <1>1, <1>8, <1>9, Zenon DEF j, P

\* g is f with j in a place after the last.
Grown(f, g, j) ==
  /\ DOMAIN g = 1 .. Len(f) + 1
  /\ \A i \in DOMAIN f : g[i] = f[i]
  /\ g[Len(f) + 1] = j

\* Appending to a FIFO adds a last place.
LEMMA AppendFacts ==
  ASSUME NEW f \in Seq(JobIds), NEW j \in JobIds
  PROVE  Grown(f, Append(f, j), j)
BY DEF Grown

\* The FIFO h is f with job j appended; the jobs J of f are in the order of their
\* seqnos, keep them in K, and j has the next one.
Appended(f, h, n, j, J, K, m) ==
  /\ n \in Nat /\ m \in Nat
  /\ DOMAIN h = 1 .. n + 1 /\ h[n + 1] = j
  /\ \A i \in 1 .. n : h[i] = f[i]
  /\ \A i \in 1 .. n : K[f[i]].seq = J[f[i]].seq /\ J[f[i]].seq <= m
  /\ \A i \in 1 .. n : J[f[i]].seq \in Nat
  /\ \A i, k \in 1 .. n : i < k => J[f[i]].seq < J[f[k]].seq
  /\ K[j].seq = m + 1

\* Then the jobs of h are in order.
LEMMA AppendOrder ==
  ASSUME NEW f, NEW h, NEW n, NEW j, NEW J, NEW K, NEW m, Appended(f, h, n, j, J, K, m)
  PROVE  \A i, k \in DOMAIN h : i < k => K[h[i]].seq < K[h[k]].seq
<1> USE DEF Appended
<1> SUFFICES ASSUME NEW i \in 1 .. n + 1, NEW k \in 1 .. n + 1, i < k
             PROVE  K[h[i]].seq < K[h[k]].seq
  OBVIOUS
<1>1. i \in 1 .. n /\ (k \in 1 .. n \/ k = n + 1)
  OBVIOUS
<1>2. CASE k \in 1 .. n
  BY <1>1, <1>2
<1>3. CASE k = n + 1
  BY <1>1, <1>3
<1> QED
  BY <1>1, <1>2, <1>3

\* The count of the busy units follows what starts and what ends.
LEMMA CountFacts ==
  ASSUME Counted, NEW q,
         \A p \in HwQueues : p # q => active'[p] = active[p],
         \/ q \in HwQueues /\ active[q] = NoJob /\ active'[q] # NoJob /\ nbusy' = nbusy + 1
         \/ q \in HwQueues /\ active[q] # NoJob /\ active'[q] = NoJob /\ nbusy' = nbusy - 1
         \/ q \notin HwQueues /\ nbusy' = nbusy
  PROVE  Counted'
<1>1. ASSUME NEW p \in HwQueues
      PROVE  Busy(p)' = IF p = q THEN 1 - Busy(p) ELSE Busy(p)
  <2>1. CASE p # q
    BY <2>1 DEF Busy
  <2>2. CASE p = q
    BY <2>2 DEF Busy
  <2> QED
    BY <2>1, <2>2
<1>2. Busy(BIN) \in 0 .. 1 /\ Busy(RENDER) \in 0 .. 1 /\ Busy(TFU) \in 0 .. 1 /\ Busy(CSD) \in 0 .. 1
  BY DEF Busy
<1>3. q \in HwQueues => nbusy' = nbusy + 1 - Busy(q) - Busy(q)
  <2>1. nbusy \in Int
    BY <1>2 DEF Counted
  <2> QED
    BY <2>1 DEF Busy
<1>4. nbusy = Busy(BIN) + Busy(RENDER) + Busy(TFU) + Busy(CSD)
  BY DEF Counted
<1>5. nbusy' = Busy(BIN)' + Busy(RENDER)' + Busy(TFU)' + Busy(CSD)'
  <2> HIDE DEF Busy
  <2>1. CASE q = BIN
    BY <1>1, <1>2, <1>3, <1>4, <2>1, QueueFacts
  <2>2. CASE q = RENDER
    BY <1>1, <1>2, <1>3, <1>4, <2>2, QueueFacts
  <2>3. CASE q = TFU
    BY <1>1, <1>2, <1>3, <1>4, <2>3, QueueFacts
  <2>4. CASE q = CSD
    BY <1>1, <1>2, <1>3, <1>4, <2>4, QueueFacts
  <2>5. CASE q \notin HwQueues
    BY <1>1, <1>2, <1>4, <2>5, QueueFacts
  <2> QED
    BY <2>1, <2>2, <2>3, <2>4, <2>5, QueueFacts
<1> QED
  BY <1>5 DEF Counted

\* Initially there is no job and no client.
LEMMA FenceInit == ASSUME Init, TypeOK PROVE FenceInv
<1>2. \A j \in JobIds : job[j] = FreeJob
  BY DEF Init
<1>3. \A q \in Queues : active[q] = NoJob
  BY DEF Init
<1>4. \A q \in Queues, s \in Slots : fifo[q][s] = <<>>
  BY DEF Init
<1>5. Fresh /\ Kept /\ Younger /\ Alive /\ Linked
  BY <1>2, FreeFields DEF Fresh, Kept, Younger, Alive, Linked, Live
<1>6. Lined
  BY <1>4 DEF Lined
<1>7. OnUnit /\ Counted
  BY <1>2, <1>3, FreeFields, QueueFacts DEF Init, OnUnit, Counted, Busy
<1>8. Issued
  BY DEF Init, Issued
<1>9. Marked
  BY <1>2, <1>3, FreeFields, QueueFacts, Zenon DEF Marked
<1>10. Reaped /\ Closing
  BY <1>2, FreeFields DEF Init, Reaped, Closing
<1>11. Sound
  BY <1>2, <1>3, FreeFields DEF Init, Sound, ActiveOf, Live
<1> QED
  BY <1>5, <1>6, <1>7, <1>8, <1>9, <1>10, <1>11 DEF FenceInv

\* What only reads the jobs, the FIFOs and the units survives a step that leaves
\* these alone ...
LEMMA JobFrame ==
  ASSUME job' = job, fifo' = fifo, active' = active, nbusy' = nbusy, gseq' = gseq
  PROVE  /\ Fresh => Fresh'
         /\ Lined => Lined'
         /\ Kept => Kept'
         /\ OnUnit => OnUnit'
         /\ Younger => Younger'
         /\ Counted => Counted'
         /\ Linked => Linked'
         /\ Marked => Marked'
<1>1. Fresh => Fresh'
  BY Zenon DEF Fresh
<1>2. Lined => Lined'
  BY DEF Lined
<1>3. Kept => Kept'
  BY Zenon DEF Kept
<1>4. OnUnit => OnUnit'
  BY Zenon DEF OnUnit
<1>5. Younger => Younger'
  BY Zenon DEF Younger
<1>6. Counted => Counted'
  BY Zenon DEF Counted, Busy
<1>7. Linked => Linked'
  BY Zenon DEF Linked, Live
<1>8. Marked => Marked'
  BY Zenon DEF Marked
<1> QED
  BY <1>1, <1>2, <1>3, <1>4, <1>5, <1>6, <1>7, <1>8, Zenon

\* ... and what reads the rows and the page one that leaves those alone too.
LEMMA RowFrame ==
  ASSUME job' = job, active' = active, used' = used, gen' = gen, nextSeq' = nextSeq,
         deadFlush' = deadFlush, completed' = completed
  PROVE  /\ Alive => Alive'
         /\ Issued => Issued'
         /\ \A s, q : ActiveOf(s, q)' <=> ActiveOf(s, q)
         /\ \A f : Signaled(f)' <=> Signaled(f)
<1>1. Alive => Alive'
  BY Zenon DEF Alive, Live
<1>2. Issued => Issued'
  BY Zenon DEF Issued
<1>3. \A s, q : ActiveOf(s, q)' <=> ActiveOf(s, q)
  BY Zenon DEF ActiveOf
<1>4. \A f : Signaled(f)' <=> Signaled(f)
  BY Zenon DEF Signaled
<1> QED
  BY <1>1, <1>2, <1>3, <1>4, Zenon

-----------------------------------------------------------------------------
(* Clients come and go                                                     *)

\* A slot that is given away has no job: none waits, since it is unused, and none
\* runs, since v3da_slot_busy says so.
LEMMA OpenFence ==
  ASSUME FenceInv, TypeOK', NEW s \in Slots, Open(s)
  PROVE  FenceInv'
<1>0. /\ TypeOK /\ TypeOK' /\ Fresh /\ Lined /\ Kept /\ OnUnit /\ Younger /\ Counted
      /\ Alive /\ Issued /\ Linked /\ Marked /\ Closing /\ Sound
  BY DEF FenceInv
<1>1. /\ at = "free" /\ ~used[s] /\ ~SlotBusy(s)
      /\ UNCHANGED <<job, fifo, active, nbusy, late, at, ret, wret, closing, gseq>>
  BY DEF Open, Free, jobVars, hwVars, pcVars
<1>2. \A t \in Slots :
        /\ t = s => used'[t]
        /\ t # s => (used'[t] <=> used[t])
        /\ gen'[t] = IF t = s THEN gen[s] + 1 ELSE gen[t]
        /\ t # s => nextSeq'[t] = nextSeq[t] /\ completed'[t] = completed[t] /\ deadFlush'[t] = deadFlush[t]
        /\ t = s => \A q \in Queues : nextSeq'[t][q] = 0 /\ completed'[t][q] = 0 /\ deadFlush'[t][q] = 0
  BY <1>0 DEF Open, TypeOK
<1>3. ASSUME NEW i \in JobIds, Live(i)
      PROVE  job[i].slot # s
  <2>1. job[i].q \in Queues /\ job[i].st \in {"free", "queued", "active"}
    BY <1>0, JobFields DEF Jobs
  <2>2. CASE job[i].st = "queued"
    BY <1>0, <1>1, <1>3, <2>2 DEF Alive
  <2>3. CASE job[i].st = "active"
    <3>1. active[job[i].q] = i
      BY <1>0, <2>3, Zenon DEF OnUnit
    <3> QED
      BY <1>1, <2>1, <3>1, NoJobFact DEF SlotBusy
  <2> QED
    BY <1>3, <2>1, <2>2, <2>3 DEF Live
<1>4. Fresh' /\ Lined' /\ Kept' /\ OnUnit' /\ Younger' /\ Counted' /\ Linked' /\ Marked'
  BY <1>0, <1>1, JobFrame, Zenon
<1>5. Alive'
  <2>1. ASSUME NEW i \in JobIds, Live(i)'
        PROVE  /\ job'[i].gen = gen'[job'[i].slot]
               /\ job'[i].st = "queued" => used'[job'[i].slot]
               /\ 0 < job'[i].seq /\ job'[i].seq <= nextSeq'[job'[i].slot][job'[i].q]
               /\ Orderly(job'[i].q) => completed'[job'[i].slot][job'[i].q] < job'[i].seq
    <3>1. Live(i) /\ job'[i] = job[i]
      BY <1>1, <2>1 DEF Live
    <3>2. job[i].slot \in Slots /\ job[i].slot # s
      BY <1>0, <1>3, <3>1, JobFields
    <3>3. /\ gen'[job[i].slot] = gen[job[i].slot] /\ (used'[job[i].slot] <=> used[job[i].slot])
          /\ nextSeq'[job[i].slot] = nextSeq[job[i].slot]
          /\ completed'[job[i].slot] = completed[job[i].slot]
      BY <1>2, <3>2
    <3> QED
      BY <1>0, <3>1, <3>3 DEF Alive
  <2> QED
    BY <2>1 DEF Alive, Orderly, NoFailure
<1>6. Issued'
  <2>1. ASSUME NEW t \in Slots, NEW q \in Queues
        PROVE  completed'[t][q] <= nextSeq'[t][q] /\ deadFlush'[t][q] <= nextSeq'[t][q]
    <3>1. CASE t = s
      BY <1>2, <3>1
    <3>2. CASE t # s
      BY <1>0, <1>2, <3>2 DEF Issued
    <3> QED
      BY <3>1, <3>2
  <2> QED
    BY <2>1 DEF Issued
<1>7. Reaped' /\ Closing'
  BY <1>0, <1>1 DEF Reaped, Closing
<1>8. Sound'
  <2> SUFFICES ASSUME NoFailure
               PROVE  /\ at' # "wedge" /\ late' \subseteq {CPU}
                      /\ \A t \in Slots, p \in Queues : ~used'[t] \/ closing' = t =>
                           IF ActiveOf(t, p)' THEN deadFlush'[t][p] = nextSeq'[t][p]
                           ELSE completed'[t][p] = nextSeq'[t][p]
                      /\ \A i \in JobIds : Live(i)' => \A f \in job'[i].deps : f.gen <= gen'[f.slot]
                      /\ \A i \in JobIds : job'[i].st = "active" => \A f \in job'[i].deps : Signaled(f)'
    BY DEF Sound, NoFailure
  <2>1. at' # "wedge" /\ late' \subseteq {CPU} /\ closing' = -1
    BY <1>0, <1>1, ZenonT(20) DEF Sound, Closing
  <2>2. ASSUME NEW t \in Slots, NEW p \in Queues, ~used'[t] \/ closing' = t
        PROVE  IF ActiveOf(t, p)' THEN deadFlush'[t][p] = nextSeq'[t][p]
               ELSE completed'[t][p] = nextSeq'[t][p]
    <3>1. t # s /\ ~used[t]
      BY <1>2, <2>1, <2>2, SlotFact
    <3>2. ActiveOf(t, p)' <=> ActiveOf(t, p)
      BY <1>1 DEF ActiveOf
    <3> QED
      BY <1>0, <1>2, <3>1, <3>2 DEF Sound
  <2>3. ASSUME NEW i \in JobIds, Live(i)', NEW f \in job'[i].deps
        PROVE  /\ f.gen <= gen'[f.slot]
               /\ job'[i].st = "active" => Signaled(f)'
    <3>1. Live(i) /\ f \in job[i].deps /\ f \in Fence /\ job'[i].st = job[i].st
      BY <1>0, <1>1, <2>3, JobFields DEF Live
    <3>2. f.slot \in Slots /\ f.gen \in Nat
      BY <3>1 DEF Fence
    <3>3. f.gen <= gen[f.slot] /\ gen[f.slot] \in Nat
      BY <1>0, <3>1, <3>2, ZenonT(30) DEF Sound, TypeOK
    <3>4. job[i].st = "active" => Signaled(f)
      BY <1>0, <3>1, ZenonT(20) DEF Sound
    <3>5. CASE f.slot = s
      <4>1. gen'[f.slot] = gen[f.slot] + 1
        BY <1>2, <3>2, <3>5
      <4> QED
        BY <3>2, <3>3, <4>1 DEF Signaled
    <3>6. CASE f.slot # s
      BY <1>2, <3>1, <3>2, <3>3, <3>4, <3>6 DEF Signaled
    <3> QED
      BY <3>5, <3>6, ZenonT(20)
  <2> QED
    BY <2>1, <2>2, <2>3 DEF Live
<1> QED
  BY <1>0, <1>4, <1>5, <1>6, <1>7, <1>8 DEF FenceInv

\* The fields of the jobs after a client's waiting ones are discarded.
LEMMA DiscardFields ==
  ASSUME TypeOK, NEW s \in Slots, CloseBegin(s)
  PROVE  \A i \in JobIds :
           /\ i \in Unstarted(s) => job'[i] = FreeJob
           /\ i \notin Unstarted(s) =>
                /\ job'[i].st = job[i].st
                /\ job'[i].q = job[i].q /\ job'[i].slot = job[i].slot
                /\ job'[i].gen = job[i].gen /\ job'[i].seq = job[i].seq
                /\ job'[i].deps = job[i].deps
                /\ job'[i].mate = IF job[i].mate \in Unstarted(s) THEN NoJob ELSE job[i].mate
                /\ job'[i].derr = job[i].derr
                /\ job[i].mate \notin Unstarted(s) => job'[i] = job[i]
<1> TAKE i \in JobIds
<1>1. job[i] \in Jobs
  BY DEF TypeOK
<1>2. job'[i] = IF i \in Unstarted(s) THEN FreeJob
                ELSE IF job[i].mate \in Unstarted(s) THEN [job[i] EXCEPT !.mate = NoJob]
                ELSE job[i]
  BY DEF CloseBegin
<1> QED
  BY <1>1, <1>2 DEF Jobs

\* A close discards what waits and signals what no running job will.
LEMMA CloseFence ==
  ASSUME FenceInv, TypeOK', NEW s \in Slots, CloseBegin(s)
  PROVE  FenceInv'
<1>0. /\ TypeOK /\ TypeOK' /\ Fresh /\ Lined /\ Kept /\ OnUnit /\ Younger /\ Counted
      /\ Alive /\ Issued /\ Linked /\ Marked /\ Closing /\ Sound
  BY DEF FenceInv
<1>1. /\ at = "free" /\ at' = "sched" /\ ret' = "close" /\ closing' = s /\ s # -1
      /\ UNCHANGED <<used, gen, nextSeq, active, nbusy, late, gseq>>
  BY SchedAssumption DEF CloseBegin, hwVars, Slots
<1>2. \A i \in JobIds : i \in Unstarted(s) <=> job[i].st = "queued" /\ job[i].slot = s
  BY DEF Unstarted
<1>3. \A i \in JobIds :
        /\ i \in Unstarted(s) => job'[i] = FreeJob
        /\ i \notin Unstarted(s) =>
             /\ job'[i].st = job[i].st
             /\ job'[i].q = job[i].q /\ job'[i].slot = job[i].slot
             /\ job'[i].gen = job[i].gen /\ job'[i].seq = job[i].seq
             /\ job'[i].deps = job[i].deps
             /\ job'[i].mate = IF job[i].mate \in Unstarted(s) THEN NoJob ELSE job[i].mate
             /\ job'[i].derr = job[i].derr
             /\ job[i].mate \notin Unstarted(s) => job'[i] = job[i]
  BY <1>0, DiscardFields
<1>4. \A i \in JobIds : job'[i].st # "free" => i \notin Unstarted(s) /\ Live(i)
  BY <1>3, FreeFields DEF Live
<1>5. \A q \in Queues, t \in Slots : fifo'[q][t] = IF t = s THEN <<>> ELSE fifo[q][t]
  <2>1. fifo' = [q \in Queues |-> [fifo[q] EXCEPT ![s] = <<>>]]
    BY DEF CloseBegin
  <2>2. \A q \in Queues : DOMAIN fifo[q] = Slots
    BY <1>0 DEF TypeOK
  <2> QED
    BY <2>1, <2>2
<1>6. \A t \in Slots, q \in Queues :
        /\ deadFlush'[t][q] = IF t = s THEN nextSeq[s][q] ELSE deadFlush[t][q]
        /\ completed'[t][q] = IF t = s /\ FlushNow(s, q) THEN nextSeq[s][q] ELSE completed[t][q]
  <2>1. /\ deadFlush' = [deadFlush EXCEPT ![s] = nextSeq[s]]
        /\ completed' = [completed EXCEPT ![s] =
             [q \in Queues |-> IF FlushNow(s, q) THEN nextSeq[s][q] ELSE completed[s][q]]]
    BY DEF CloseBegin
  <2> QED
    BY <1>0, <2>1, ZenonT(30) DEF TypeOK
<1>7. Fresh'
  <2>1. ASSUME NEW i \in JobIds, i > gseq
        PROVE  job'[i] = FreeJob
    <3>1. job[i].st = "free" /\ job[i].mate = NoJob /\ job[i] = FreeJob
      BY <1>0, <2>1, FreeFields, ZenonT(20) DEF Fresh
    <3> QED
      BY <1>2, <1>3, <3>1, NoJobFact DEF Unstarted
  <2> QED
    BY <1>1, <2>1 DEF Fresh
<1>8. Lined'
  <2> SUFFICES ASSUME NEW p \in Queues, NEW t \in Slots
               PROVE  /\ \A i \in DOMAIN fifo'[p][t] :
                           LET x == fifo'[p][t][i]
                           IN  job'[x].st = "queued" /\ job'[x].q = p /\ job'[x].slot = t
                      /\ \A i, k \in DOMAIN fifo'[p][t] :
                           i < k => job'[fifo'[p][t][i]].seq < job'[fifo'[p][t][k]].seq
    BY Zenon DEF Lined
  <2>1. CASE t = s
    BY <1>5, <2>1
  <2>2. CASE t # s
    <3>0. fifo[p][t] \in Seq(JobIds) /\ fifo'[p][t] = fifo[p][t]
      BY <1>0, <1>5, <2>2 DEF TypeOK
    <3>1. \A i \in DOMAIN fifo[p][t] : fifo[p][t][i] \in JobIds
      BY <3>0
    <3>2. \A i \in DOMAIN fifo[p][t] : fifo[p][t][i] \notin Unstarted(s)
      BY <1>0, <1>2, <2>2, <3>1 DEF Lined
    <3>3. \A x \in JobIds : x \notin Unstarted(s) =>
            /\ job'[x].st = job[x].st /\ job'[x].q = job[x].q
            /\ job'[x].slot = job[x].slot /\ job'[x].seq = job[x].seq
      BY <1>3, ZenonT(20)
    <3>4. \A i \in DOMAIN fifo[p][t] : LET x == fifo[p][t][i]
                                       IN  job'[x].st = "queued" /\ job'[x].q = p /\ job'[x].slot = t
      BY <1>0, <3>1, <3>2, <3>3 DEF Lined
    <3>5. \A i, k \in DOMAIN fifo[p][t] : i < k => job[fifo[p][t][i]].seq < job[fifo[p][t][k]].seq
      BY <1>0, ZenonT(20) DEF Lined
    <3>6. \A i, k \in DOMAIN fifo[p][t] : i < k => job'[fifo[p][t][i]].seq < job'[fifo[p][t][k]].seq
      BY <3>1, <3>2, <3>3, <3>5, ZenonT(20)
    <3> QED
      BY <3>0, <3>4, <3>6
  <2> QED
    BY <2>1, <2>2
<1>9. Kept'
  <2>1. ASSUME NEW i \in JobIds, job'[i].st = "queued"
        PROVE  /\ job'[i].q = job[i].q /\ job'[i].slot = job[i].slot
               /\ fifo'[job[i].q][job[i].slot] = fifo[job[i].q][job[i].slot]
               /\ \E k \in DOMAIN fifo[job[i].q][job[i].slot] : fifo[job[i].q][job[i].slot][k] = i
    <3>1. i \notin Unstarted(s)
      BY <1>4, <2>1
    <3>2. job[i].st = "queued" /\ job'[i].q = job[i].q /\ job'[i].slot = job[i].slot
      BY <1>3, <2>1, <3>1
    <3>3. job[i].slot # s /\ job[i].slot \in Slots /\ job[i].q \in Queues
      BY <1>0, <1>2, <3>1, <3>2, JobFields
    <3> QED
      BY <1>0, <1>5, <3>2, <3>3 DEF Kept
  <2> QED
    BY <2>1 DEF Kept
<1>10. OnUnit' /\ Younger' /\ Counted'
  <2>1. OnUnit'
    <3>1. ASSUME NEW p \in Queues, active[p] # NoJob
          PROVE  job'[active[p]].st = "active" /\ job'[active[p]].q = p
      <4>1. active[p] \in JobIds /\ job[active[p]].st = "active" /\ job[active[p]].q = p
        <5>1. active[p] \in JobIds
          BY <1>0, <3>1, StateFields, ZenonT(20)
        <5> QED
          BY <1>0, <3>1, <5>1, ZenonT(20) DEF OnUnit
      <4> QED
        BY <1>2, <1>3, <4>1
    <3>2. ASSUME NEW i \in JobIds, job'[i].st = "active"
          PROVE  active[job'[i].q] = i
      <4>1. i \notin Unstarted(s)
        BY <1>4, <3>2, ZenonT(20)
      <4>2. job'[i].st = job[i].st /\ job'[i].q = job[i].q
        BY <1>3, <4>1, ZenonT(20)
      <4> QED
        BY <1>0, <3>2, <4>2, ZenonT(20) DEF OnUnit
    <3> QED
      BY <1>1, <3>1, <3>2 DEF OnUnit
  <2>2. Younger'
    BY <1>0, <1>3, <1>4 DEF Younger
  <2>3. Counted'
    BY <1>0, <1>1, ZenonT(20) DEF Counted, Busy
  <2> QED
    BY <2>1, <2>2, <2>3
<1>11. \A t \in Slots, q \in Queues :
         /\ completed[t][q] \in Nat /\ nextSeq[t][q] \in Nat
         /\ completed[t][q] <= nextSeq[t][q] /\ deadFlush[t][q] <= nextSeq[t][q]
         /\ completed[t][q] <= completed'[t][q] /\ completed'[t][q] <= nextSeq[t][q]
  <2>1. \A t \in Slots, q \in Queues : completed[t][q] \in Nat /\ nextSeq[t][q] \in Nat
    BY <1>0, StateFields, ZenonT(20)
  <2> QED
    BY <1>0, <1>6, <2>1 DEF Issued
<1>12. Alive' /\ Issued'
  <2>1. Issued'
    <3> SUFFICES ASSUME NEW t \in Slots, NEW q \in Queues
                 PROVE  completed'[t][q] <= nextSeq'[t][q] /\ deadFlush'[t][q] <= nextSeq'[t][q]
      BY ZenonT(20) DEF Issued
    <3>1. nextSeq[t][q] \in Nat /\ completed'[t][q] <= nextSeq[t][q] /\ deadFlush[t][q] <= nextSeq[t][q]
      BY <1>11, ZenonT(20)
    <3>2. nextSeq' = nextSeq /\ deadFlush'[t][q] = IF t = s THEN nextSeq[s][q] ELSE deadFlush[t][q]
      BY <1>1, <1>6, ZenonT(20)
    <3> QED
      BY <3>1, <3>2
  <2>2. ASSUME NEW i \in JobIds, Live(i)'
        PROVE  /\ job'[i].gen = gen'[job'[i].slot]
               /\ job'[i].st = "queued" => used'[job'[i].slot]
               /\ 0 < job'[i].seq /\ job'[i].seq <= nextSeq'[job'[i].slot][job'[i].q]
               /\ Orderly(job'[i].q) => completed'[job'[i].slot][job'[i].q] < job'[i].seq
    <3>1. i \notin Unstarted(s) /\ Live(i)
      BY <1>4, <2>2 DEF Live
    <3>2. job[i].slot \in Slots /\ job[i].q \in Queues
      BY <1>0, JobFields
    <3>3. completed'[job[i].slot][job[i].q] = completed[job[i].slot][job[i].q]
      <4>1. CASE job[i].slot # s
        BY <1>6, <3>2, <4>1
      <4>2. CASE job[i].slot = s
        <5>1. job[i].st = "active"
          BY <1>0, <1>2, <3>1, <4>2, JobFields DEF Live, Jobs
        <5>2. ActiveOf(s, job[i].q)
          BY <1>0, <4>2, <5>1, NoJobFact, ZenonT(20) DEF OnUnit, ActiveOf
        <5> QED
          BY <1>6, <3>2, <4>2, <5>2 DEF FlushNow
      <4> QED
        BY <4>1, <4>2, ZenonT(20)
    <3>4. /\ job'[i].st = job[i].st /\ job'[i].q = job[i].q /\ job'[i].slot = job[i].slot
          /\ job'[i].gen = job[i].gen /\ job'[i].seq = job[i].seq
      BY <1>3, <3>1, ZenonT(20)
    <3> QED
      BY <1>0, <1>1, <3>1, <3>3, <3>4, ZenonT(20) DEF Alive
  <2> QED
    BY <2>1, <2>2, ZenonT(20) DEF Alive, Orderly, NoFailure
<1>13. Linked'
  <2> SUFFICES ASSUME NEW i \in JobIds, job'[i].mate # NoJob
               PROVE  /\ Live(i)' /\ job'[job'[i].mate].mate = i
                      /\ job'[i].q = BIN => job'[job'[i].mate].q = RENDER
    BY DEF Linked
  <2>1. i \notin Unstarted(s) /\ job[i].mate \notin Unstarted(s) /\ job'[i] = job[i]
    BY <1>3, FreeFields, ZenonT(20)
  <2>2. /\ Live(i) /\ job[job[i].mate].mate = i /\ job[i].mate \in JobIds
        /\ job[i].q = BIN => job[job[i].mate].q = RENDER
    BY <1>0, <2>1, JobFields, ZenonT(20) DEF Linked
  <2>3. job'[job[i].mate] = job[job[i].mate]
    BY <1>3, <2>1, <2>2
  <2> QED
    BY <2>1, <2>2, <2>3 DEF Live
<1>14. Marked'
  <2>1. ASSUME NEW i \in JobIds, job'[i].derr
        PROVE  job'[i].q = RENDER /\ ~NoFailure
    <3>1. i \notin Unstarted(s)
      BY <1>3, <2>1, FreeFields, Zenon
    <3>2. job'[i].q = job[i].q /\ job[i].derr
      BY <1>3, <2>1, <3>1, Zenon
    <3> QED
      BY <1>0, <3>2, Zenon DEF Marked
  <2>2. ASSUME active'[RENDER] # NoJob
        PROVE  ~job'[active'[RENDER]].derr /\ job'[active'[RENDER]].mate = NoJob
    <3>1. PICK k \in JobIds : k = active[RENDER]
      BY <1>0, <1>1, <2>2, QueueFacts, ZenonT(30) DEF TypeOK
    <3>2. k # NoJob /\ active'[RENDER] = k /\ job[k].st = "active"
      BY <1>0, <1>1, <2>2, <3>1, QueueFacts DEF OnUnit
    <3>3. ~job[k].derr /\ job[k].mate = NoJob
      BY <1>0, <3>1, <3>2, Zenon DEF Marked
    <3>4. k \notin Unstarted(s)
      BY <1>2, <3>2
    <3>5. job'[k].derr = job[k].derr /\ job'[k].mate = NoJob
      BY <1>3, <3>3, <3>4, Zenon
    <3> QED
      BY <3>2, <3>3, <3>5, Zenon
  <2> QED
    BY <2>1, <2>2, Zenon DEF Marked
<1>15. Reaped' /\ Closing'
  <2>1. \A i \in JobIds : job'[i].st = "queued" => job'[i].slot # s
    <3> SUFFICES ASSUME NEW i \in JobIds, job'[i].st = "queued"
                 PROVE  job'[i].slot # s
      OBVIOUS
    <3>1. i \notin Unstarted(s)
      BY <1>4, ZenonT(20)
    <3>2. job[i].st = "queued" /\ job'[i].slot = job[i].slot
      BY <1>3, <3>1, ZenonT(20)
    <3> QED
      BY <1>2, <3>1, <3>2
  <2> QED
    BY <1>1, <2>1 DEF Reaped, Closing
<1>16. Sound'
  <2> SUFFICES ASSUME NoFailure
               PROVE  /\ at' # "wedge" /\ late' \subseteq {CPU}
                      /\ \A t \in Slots, p \in Queues : ~used'[t] \/ closing' = t =>
                           IF ActiveOf(t, p)' THEN deadFlush'[t][p] = nextSeq'[t][p]
                           ELSE completed'[t][p] = nextSeq'[t][p]
                      /\ \A i \in JobIds : Live(i)' => \A f \in job'[i].deps : f.gen <= gen'[f.slot]
                      /\ \A i \in JobIds : job'[i].st = "active" => \A f \in job'[i].deps : Signaled(f)'
    BY ZenonT(20) DEF Sound, NoFailure
  <2>1. at' # "wedge" /\ late' \subseteq {CPU}
    BY <1>0, <1>1 DEF Sound
  <2>2. ASSUME NEW t \in Slots, NEW p \in Queues, ~used'[t] \/ closing' = t
        PROVE  IF ActiveOf(t, p)' THEN deadFlush'[t][p] = nextSeq'[t][p]
               ELSE completed'[t][p] = nextSeq'[t][p]
    <3>1. ActiveOf(t, p)' <=> ActiveOf(t, p)
      <4>1. active[p] # NoJob => active[p] \in JobIds /\ job[active[p]].st = "active"
        <5>1. active[p] # NoJob => active[p] \in JobIds
          BY <1>0, ZenonT(20) DEF TypeOK
        <5> QED
          BY <1>0, <5>1, ZenonT(20) DEF OnUnit
      <4> QED
        BY <1>1, <1>2, <1>3, <4>1 DEF ActiveOf
    <3>2. CASE t = s
      BY <1>1, <1>6, <1>11, <3>1, <3>2 DEF FlushNow
    <3>3. CASE t # s
      <4>1. ~used[t]
        BY <1>1, <2>2, <3>3, ZenonT(20)
      <4> QED
        BY <1>0, <1>1, <1>6, <3>1, <3>3, <4>1 DEF Sound
    <3> QED
      BY <3>2, <3>3, ZenonT(20)
  <2>3. ASSUME NEW i \in JobIds, Live(i)', NEW f \in job'[i].deps
        PROVE  /\ f.gen <= gen'[f.slot]
               /\ job'[i].st = "active" => Signaled(f)'
    <3>1. Live(i) /\ i \notin Unstarted(s)
      BY <1>4, <2>3, ZenonT(20) DEF Live
    <3>2. f \in job[i].deps /\ f \in Fence /\ job'[i].st = job[i].st
      BY <1>0, <1>3, <2>3, <3>1, JobFields, ZenonT(20)
    <3>3. f.slot \in Slots /\ f.q \in Queues /\ f.seq \in Nat
      BY <3>2 DEF Fence
    <3>4. f.gen <= gen[f.slot] /\ (job[i].st = "active" => Signaled(f))
      BY <1>0, <3>1, <3>2, ZenonT(20) DEF Sound
    <3>5. /\ completed[f.slot][f.q] \in Nat /\ completed'[f.slot][f.q] \in Nat
          /\ completed[f.slot][f.q] <= completed'[f.slot][f.q]
      BY <1>0, <1>11, <3>3, ZenonT(30) DEF TypeOK
    <3> QED
      BY <1>1, <3>2, <3>3, <3>4, <3>5 DEF Signaled
  <2> QED
    BY <2>1, <2>2, <2>3, ZenonT(20) DEF Live
<1> QED
  BY <1>0, <1>7, <1>8, <1>9, <1>10, <1>12, <1>13, <1>14, <1>15, <1>16 DEF FenceInv

-----------------------------------------------------------------------------
(* The scheduler moves on                                                  *)

\* A step that changes no job, row or counter keeps the invariant if the lock
\* holder and the clock keep theirs.
LEMMA ControlFence ==
  ASSUME FenceInv, TypeOK', Closing', Reaped',
         NoFailure => at' # "wedge" /\ late' \subseteq {CPU},
         UNCHANGED <<slotVars, pageVars, jobVars, gseq>>,
         closing' = closing
  PROVE  FenceInv'
<1>1. /\ job' = job /\ fifo' = fifo /\ active' = active /\ nbusy' = nbusy /\ gseq' = gseq
      /\ used' = used /\ gen' = gen /\ nextSeq' = nextSeq /\ deadFlush' = deadFlush
      /\ completed' = completed
  BY DEF slotVars, pageVars, jobVars
<1>2. /\ Fresh /\ Lined /\ Kept /\ OnUnit /\ Younger /\ Counted
      /\ Alive /\ Issued /\ Linked /\ Marked /\ Sound
  BY Zenon DEF FenceInv
<1>3. Fresh' /\ Lined' /\ Kept' /\ OnUnit' /\ Younger' /\ Counted' /\ Linked' /\ Marked'
  BY <1>1, <1>2, JobFrame, Zenon
<1>4. Alive' /\ Issued'
  BY <1>1, <1>2, RowFrame, Zenon
<1>5. /\ \A s, q : ActiveOf(s, q)' <=> ActiveOf(s, q)
      /\ \A f : Signaled(f)' <=> Signaled(f)
  BY <1>1, RowFrame, Zenon
<1>6. Sound'
  BY <1>1, <1>2, <1>5, Zenon DEF Sound, Live
<1> QED
  BY <1>3, <1>4, <1>6, Zenon DEF FenceInv

\* The steps that only move the lock holder, the hardware or the clock.
LEMMA MoveFence ==
  ASSUME FenceInv, TypeOK',
         \/ SchedLeave \/ WedgeLeave \/ TickDone \/ EvBegin \/ SelfTest \/ TfuSilent
         \/ \E q \in HwQueues : TickWedge(q) \/ EvStray(q) \/ HwFinish(q)
         \/ \E q \in Queues : Deadline(q)
         \/ \E m \in Modes : SetMode(m)
  PROVE  FenceInv'
<1>1. /\ UNCHANGED <<slotVars, pageVars, jobVars, gseq>> /\ closing' = closing
      /\ at' # "kick" \/ at' = at
  BY ZenonT(20) DEF SchedLeave, WedgeLeave, TickDone, EvBegin, SelfTest, TfuSilent, TickWedge, EvStray,
         HwFinish, Deadline, SetMode, pcVars, FenceInv, TypeOK
<1>2. Reaped'
  BY <1>1, ZenonT(20) DEF FenceInv, Reaped, Reapable, ReadyHead, Ready, Signaled, jobVars, pageVars, slotVars
<1>3. Closing'
  <2>1. Closing /\ TypeOK
    BY DEF FenceInv
  <2>2. \A j \in JobIds : job'[j].st = "queued" => job'[j].slot # closing'
    BY <1>1, <2>1, ZenonT(20) DEF Closing, jobVars
  <2>3. /\ ret' = "close" <=> closing' # -1
        /\ at' = "close" => ret' = "close"
        /\ closing' # -1 => at' \notin {"free", "event"} /\ (at' = "wedge" => wret' = "ret")
    BY <1>1, <2>1, ZenonT(20) DEF Closing, SchedLeave, WedgeLeave, TickDone, EvBegin, SelfTest, TfuSilent, TickWedge,
         EvStray, HwFinish, Deadline, SetMode, pcVars, Kicking, Ticking, EvNext, TypeOK
  <2> QED
    BY <2>2, <2>3 DEF Closing
<1>4. ASSUME NoFailure
      PROVE  at' # "wedge" /\ late' \subseteq {CPU}
  <2>1. at # "wedge" /\ late \subseteq {CPU} /\ MayHang = {} /\ TypeOK
    BY <1>4, ZenonT(20) DEF FenceInv, Sound, NoFailure
  <2> QED
    BY <2>1, QueueFacts, ZenonT(30) DEF SchedLeave, WedgeLeave, TickDone, EvBegin, SelfTest, TfuSilent,
         TickWedge, EvStray, HwFinish, Deadline, SetMode, pcVars, hwVars, TypeOK
<1> QED
  BY <1>1, <1>2, <1>3, <1>4, ControlFence, ZenonT(20)

\* The end of a close: the slot has no queued job.
LEMMA CloseEndFence ==
  ASSUME FenceInv, TypeOK', CloseEnd
  PROVE  FenceInv'
<1>1. /\ TypeOK /\ Fresh /\ Lined /\ Kept /\ OnUnit /\ Younger /\ Counted
      /\ Alive /\ Issued /\ Linked /\ Marked /\ Closing /\ Sound
  BY Zenon DEF FenceInv
<1>2. TypeOK' /\ closing \in Slots
  BY <1>1, ZenonT(30) DEF Closing, CloseEnd, TypeOK
<1>3. /\ at = "close" /\ at' = "free" /\ ret' = "free" /\ closing' = -1 /\ used' = [used EXCEPT ![closing] = FALSE]
      /\ job' = job /\ fifo' = fifo /\ active' = active /\ nbusy' = nbusy /\ gseq' = gseq
      /\ gen' = gen /\ nextSeq' = nextSeq /\ deadFlush' = deadFlush
      /\ completed' = completed /\ late' = late
  BY DEF CloseEnd, pageVars, jobVars, hwVars
<1>4. Fresh' /\ Lined' /\ Kept' /\ OnUnit' /\ Younger' /\ Counted' /\ Linked' /\ Marked'
  BY <1>1, <1>3, JobFrame, Zenon
<1>5. \A s \in Slots : s # closing => used'[s] = used[s]
  BY <1>1, <1>3 DEF TypeOK
<1>6. Alive'
  <2>1. \A j \in JobIds : job[j].st = "queued" => job[j].slot # closing
    BY <1>1, Zenon DEF Closing
  <2>2. \A j \in JobIds : job[j].slot \in Slots
    BY <1>1, JobFields
  <2> QED
    BY <1>1, <1>3, <1>5, <2>1, <2>2, Zenon DEF Alive, Live
<1>7. Issued'
  BY <1>1, <1>3, Zenon DEF Issued
<1>8. Reaped'
  BY <1>3 DEF Reaped
<1>9. Closing'
  <2>1. \A j \in JobIds : job[j].slot # -1
    BY <1>1, JobFields, SlotFact
  <2> QED
    BY <1>3, <2>1 DEF Closing
<1>10. Sound'
  <2>1. \A s \in Slots : ~used'[s] \/ closing' = s => ~used[s] \/ closing = s
    <3>1. \A s \in Slots : s # -1
      BY SlotFact
    <3> QED
      BY <1>3, <1>5, <3>1, Zenon
  <2>2. \A s, q : ActiveOf(s, q)' <=> ActiveOf(s, q)
    BY <1>3, Zenon DEF ActiveOf
  <2>3. \A f : Signaled(f)' <=> Signaled(f)
    BY <1>3, Zenon DEF Signaled
  <2>4. at' # "wedge"
    BY <1>3
  <2> QED
    BY <1>1, <1>3, <2>1, <2>2, <2>3, <2>4, Zenon DEF Sound, Live
<1> QED
  BY <1>2, <1>4, <1>6, <1>7, <1>8, <1>9, <1>10, Zenon DEF FenceInv

-----------------------------------------------------------------------------
(* Submissions                                                             *)

\* After a step, job j is in the FIFO of queue q and slot t; its seqno is at most m.
InPlace(j, q, t) == job'[j].st = "queued" /\ job'[j].q = q /\ job'[j].slot = t
Older(j, m) == job'[j].seq = job[j].seq /\ job[j].seq <= m

\* What a submit does: client s gets a new job on each queue of A.
NewFields(s, a, i) ==
  /\ job'[i].st = "queued" /\ job'[i].q = a /\ job'[i].slot = s
  /\ job'[i].gen = gen[s] /\ job'[i].seq = nextSeq[s][a] + 1
  /\ job'[i].deps \subseteq PendingFences
  /\ job'[i].derr = FALSE

Adds(s, A, x) ==
  /\ at = "free" /\ at' = "sched" /\ used[s]
  /\ UNCHANGED <<used, gen, completed, deadFlush, active, nbusy, late, ret, wret, closing>>
  /\ gseq <= gseq'
  /\ \A a \in A : a \in Queues /\ x[a] \in JobIds
  /\ \A a \in A : gseq < x[a] /\ x[a] <= gseq' /\ NewFields(s, a, x[a])
  /\ \A a \in A : job'[x[a]].mate # NoJob =>
       \E b \in A : /\ job'[x[a]].mate = x[b] /\ job'[x[b]].mate = x[a]
                    /\ a = BIN => b = RENDER
  /\ \A i \in JobIds : (\A a \in A : i # x[a]) => job'[i] = job[i]
  /\ \A q \in Queues, t \in Slots :
       /\ t = s /\ q \in A => /\ fifo'[q][t] = Append(fifo[q][t], x[q])
                              /\ nextSeq'[t][q] = nextSeq[t][q] + 1
       /\ t # s \/ q \notin A => /\ fifo'[q][t] = fifo[q][t]
                                 /\ nextSeq'[t][q] = nextSeq[t][q]

\* The fences a submit can wait for are of the rows' present owners.
LEMMA PendingGen == \A f \in PendingFences : f.gen = gen[f.slot]
BY DEF PendingFences

\* A submit puts its jobs last in their FIFOs, with the next seqnos.
LEMMA SubmitFence ==
  ASSUME FenceInv, TypeOK', NEW s \in Slots, NEW A, NEW x, Adds(s, A, x)
  PROVE  FenceInv'
<1>0. /\ TypeOK /\ TypeOK' /\ Fresh /\ Lined /\ Kept /\ OnUnit /\ Younger /\ Counted
      /\ Alive /\ Issued /\ Linked /\ Marked /\ Closing /\ Sound
  BY ZenonT(20) DEF FenceInv
<1>1. /\ at = "free" /\ at' = "sched" /\ used[s]
      /\ UNCHANGED <<used, gen, completed, deadFlush, active, nbusy, late, ret, wret, closing>>
      /\ gseq \in Nat /\ gseq' \in Nat /\ gseq <= gseq'
  BY <1>0 DEF Adds, TypeOK
<1>2. \A a \in A : /\ x[a] \in JobIds /\ a \in Queues /\ gseq < x[a] /\ x[a] <= gseq'
                   /\ NewFields(s, a, x[a]) /\ job[x[a]] = FreeJob
  BY <1>0, ZenonT(20) DEF Adds, Fresh
<1>3. \A i \in JobIds : (\A a \in A : i # x[a]) => job'[i] = job[i]
  BY ZenonT(20) DEF Adds
<1>4. \A q \in Queues, t \in Slots :
        /\ t = s /\ q \in A => /\ fifo'[q][t] = Append(fifo[q][t], x[q])
                               /\ nextSeq'[t][q] = nextSeq[t][q] + 1
        /\ t # s \/ q \notin A => /\ fifo'[q][t] = fifo[q][t]
                                  /\ nextSeq'[t][q] = nextSeq[t][q]
  BY ZenonT(20) DEF Adds
<1>5. \A i \in JobIds : Live(i) => job'[i] = job[i]
  BY <1>2, <1>3, FreeFields, ZenonT(20) DEF Live
<1>6. Fresh'
  <2> SUFFICES ASSUME NEW i \in JobIds, i > gseq' PROVE job'[i] = FreeJob
    BY DEF Fresh
  <2>1. i \in Nat /\ \A a \in A : x[a] \in Nat
    BY <1>2 DEF JobIds
  <2>2. i > gseq /\ \A a \in A : i # x[a]
    BY <1>1, <1>2, <2>1
  <2> QED
    BY <1>0, <1>3, <2>2, ZenonT(20) DEF Fresh
<1>7. ASSUME NEW q \in Queues, NEW t \in Slots
      PROVE  /\ fifo[q][t] \in Seq(JobIds) /\ nextSeq[t][q] \in Nat /\ completed[t][q] \in Nat
             /\ Len(fifo[q][t]) \in Nat
             /\ DOMAIN fifo[q][t] = 1 .. Len(fifo[q][t])
             /\ \A i \in DOMAIN fifo[q][t] : fifo[q][t][i] \in JobIds
  <2>1. fifo[q][t] \in Seq(JobIds) /\ nextSeq[t][q] \in Nat /\ completed[t][q] \in Nat
    BY <1>0 DEF TypeOK
  <2> QED
    BY ONLY <2>1
<1>8. ASSUME NEW q \in A
      PROVE  /\ DOMAIN fifo'[q][s] = 1 .. Len(fifo[q][s]) + 1
             /\ \A i \in DOMAIN fifo[q][s] : fifo'[q][s][i] = fifo[q][s][i]
             /\ fifo'[q][s][Len(fifo[q][s]) + 1] = x[q]
  <2>1. fifo[q][s] \in Seq(JobIds) /\ x[q] \in JobIds /\ fifo'[q][s] = Append(fifo[q][s], x[q])
    BY <1>2, <1>4, <1>7, ZenonT(20)
  <2>2. Grown(fifo[q][s], Append(fifo[q][s], x[q]), x[q])
    BY <2>1, AppendFacts, ZenonT(20)
  <2>3. Grown(fifo[q][s], fifo'[q][s], x[q])
    BY <2>1, <2>2, ZenonT(20)
  <2> QED
    BY <2>3, ZenonT(20) DEF Grown
<1>9. \A q \in Queues, t \in Slots :
        /\ nextSeq[t][q] <= nextSeq'[t][q]
        /\ \A k \in DOMAIN fifo[q][t] :
             k \in DOMAIN fifo'[q][t] /\ fifo'[q][t][k] = fifo[q][t][k]
  <2> SUFFICES ASSUME NEW q \in Queues, NEW t \in Slots
               PROVE  /\ nextSeq[t][q] <= nextSeq'[t][q]
                      /\ \A k \in DOMAIN fifo[q][t] :
                           k \in DOMAIN fifo'[q][t] /\ fifo'[q][t][k] = fifo[q][t][k]
    OBVIOUS
  <2>1. nextSeq[t][q] \in Nat /\ Len(fifo[q][t]) \in Nat /\ DOMAIN fifo[q][t] = 1 .. Len(fifo[q][t])
    BY <1>7
  <2>2. CASE t = s /\ q \in A
    <3>1. nextSeq[t][q] <= nextSeq'[t][q]
      BY <1>4, <2>1, <2>2
    <3>2. ASSUME NEW k \in DOMAIN fifo[q][t]
          PROVE  k \in DOMAIN fifo'[q][t] /\ fifo'[q][t][k] = fifo[q][t][k]
      BY <1>8, <2>1, <2>2
    <3> QED
      BY <3>1, <3>2
  <2>3. CASE t # s \/ q \notin A
    BY <1>4, <2>1, <2>3
  <2> QED
    BY <2>2, <2>3, ZenonT(20)
<1>10. ASSUME NEW i \in JobIds, Live(i)
       PROVE  /\ job'[i] = job[i] /\ job[i].q \in Queues /\ job[i].slot \in Slots
              /\ job[i].seq \in Nat /\ job[i].seq <= nextSeq[job[i].slot][job[i].q]
  BY <1>0, <1>5, <1>10, JobFields, ZenonT(20) DEF Alive
<1>11. ASSUME NEW i \in JobIds, ~Live(i), Live(i)'
       PROVE  \E a \in A : i = x[a]
  BY <1>3, <1>11 DEF Live
<1>12. Lined'
  <2>1. ASSUME NEW q \in Queues, NEW t \in Slots, NEW k \in DOMAIN fifo[q][t]
        PROVE  /\ Live(fifo[q][t][k]) /\ fifo[q][t][k] \in JobIds
               /\ InPlace(fifo[q][t][k], q, t) /\ Older(fifo[q][t][k], nextSeq[t][q])
    <3>1. PICK j \in JobIds : j = fifo[q][t][k]
      BY <1>7, ZenonT(20)
    <3>2. job[j].st = "queued" /\ job[j].q = q /\ job[j].slot = t
      BY <1>0, <3>1, LinedFacts
    <3>3. Live(j)
      BY <3>2, ZenonT(20) DEF Live
    <3> QED
      BY <1>10, <3>1, <3>2, <3>3, ZenonT(20) DEF InPlace, Older
  <2>2. ASSUME NEW q \in Queues, NEW t \in Slots
        PROVE  /\ \A i \in DOMAIN fifo'[q][t] : InPlace(fifo'[q][t][i], q, t)
               /\ \A i, k \in DOMAIN fifo'[q][t] :
                    i < k => job'[fifo'[q][t][i]].seq < job'[fifo'[q][t][k]].seq
    <3>1. CASE t # s \/ q \notin A
      <4>1. fifo'[q][t] = fifo[q][t]
        BY <1>4, <3>1, ZenonT(20)
      <4>2. \A i, k \in DOMAIN fifo[q][t] :
              i < k => job[fifo[q][t][i]].seq < job[fifo[q][t][k]].seq
        BY <1>0, ZenonT(20) DEF Lined
      <4>3. \A i \in DOMAIN fifo'[q][t] : InPlace(fifo'[q][t][i], q, t)
        BY <2>1, <4>1, ZenonT(20)
      <4>4. ASSUME NEW i \in DOMAIN fifo'[q][t], NEW k \in DOMAIN fifo'[q][t], i < k
            PROVE  job'[fifo'[q][t][i]].seq < job'[fifo'[q][t][k]].seq
        <5>1. /\ job'[fifo[q][t][i]].seq = job[fifo[q][t][i]].seq
              /\ job'[fifo[q][t][k]].seq = job[fifo[q][t][k]].seq
          BY <2>1, <4>1, ZenonT(20) DEF Older
        <5>2. job[fifo[q][t][i]].seq < job[fifo[q][t][k]].seq
          BY <4>1, <4>2, <4>4, ZenonT(20)
        <5> QED
          BY <4>1, <5>1, <5>2, ZenonT(20)
      <4> QED
        BY <4>3, <4>4, ZenonT(20)
    <3>2. CASE t = s /\ q \in A
      <4>1. PICK n \in Nat : n = Len(fifo[q][t])
        BY <1>7, ZenonT(20)
      <4>2. /\ DOMAIN fifo[q][t] = 1 .. n /\ DOMAIN fifo'[q][t] = 1 .. n + 1
            /\ \A i \in 1 .. n : fifo'[q][t][i] = fifo[q][t][i]
            /\ fifo'[q][t][n + 1] = x[q]
        BY <1>7, <1>8, <3>2, <4>1, ZenonT(20)
      <4>3. InPlace(x[q], q, t) /\ job'[x[q]].seq = nextSeq[t][q] + 1
        BY <1>2, <3>2, ZenonT(20) DEF NewFields, InPlace
      <4>4. \A i \in 1 .. n + 1 : i \in 1 .. n \/ i = n + 1
        OBVIOUS
      <4>5. \A i \in DOMAIN fifo'[q][t] : InPlace(fifo'[q][t][i], q, t)
        <5>1. SUFFICES ASSUME NEW i \in DOMAIN fifo'[q][t]
                       PROVE  InPlace(fifo'[q][t][i], q, t)
          OBVIOUS
        <5>2. CASE i \in 1 .. n
          BY <2>1, <4>2, <5>2, ZenonT(20)
        <5>3. CASE i = n + 1
          BY <4>2, <4>3, <5>3, ZenonT(20)
        <5> QED
          BY <4>2, <4>4, <5>2, <5>3, ZenonT(20)
      <4>6. \A i \in 1 .. n : Older(fifo[q][t][i], nextSeq[t][q])
        BY <2>1, <4>2, ZenonT(20)
      <4>7. \A i \in 1 .. n : job[fifo[q][t][i]].seq \in Nat
        BY <1>10, <2>1, <4>2, ZenonT(20)
      <4>8. \A i, k \in 1 .. n : i < k => job[fifo[q][t][i]].seq < job[fifo[q][t][k]].seq
        BY <1>0, <4>2, ZenonT(20) DEF Lined
      <4>9. nextSeq[t][q] \in Nat
        BY <1>7, ZenonT(20)
      <4>10. \A i, k \in DOMAIN fifo'[q][t] : i < k => job'[fifo'[q][t][i]].seq < job'[fifo'[q][t][k]].seq
        <5>1. Appended(fifo[q][t], fifo'[q][t], n, x[q], job, job', nextSeq[t][q])
          BY <4>2, <4>3, <4>6, <4>7, <4>8, <4>9, ZenonT(20) DEF Appended, Older
        <5> QED
          BY <5>1, AppendOrder, ZenonT(20)
      <4> QED
        BY <4>5, <4>10
    <3> QED
      BY <3>1, <3>2, ZenonT(20)
  <2> QED
    BY <2>2, ZenonT(20) DEF Lined, InPlace
<1>13. Kept'
  <2> SUFFICES ASSUME NEW j \in JobIds, job'[j].st = "queued"
               PROVE  \E i \in DOMAIN fifo'[job'[j].q][job'[j].slot] :
                        fifo'[job'[j].q][job'[j].slot][i] = j
    BY ZenonT(20) DEF Kept
  <2>1. CASE Live(j)
    <3>1. job'[j] = job[j] /\ job[j].q \in Queues /\ job[j].slot \in Slots
      BY <1>10, <2>1
    <3>2. PICK i \in DOMAIN fifo[job[j].q][job[j].slot] : fifo[job[j].q][job[j].slot][i] = j
      BY <1>0, <3>1, ZenonT(20) DEF Kept
    <3> QED
      BY <1>9, <3>1, <3>2, ZenonT(20)
  <2>2. CASE ~Live(j)
    <3>1. PICK a \in A : j = x[a]
      BY <1>11, <2>2, ZenonT(20) DEF Live
    <3>2. job'[j].q = a /\ job'[j].slot = s
      BY <1>2, <3>1, ZenonT(20) DEF NewFields
    <3>3. Len(fifo[a][s]) \in Nat
      BY <1>2, <1>7, ZenonT(20)
    <3>4. Len(fifo[a][s]) + 1 \in DOMAIN fifo'[a][s] /\ fifo'[a][s][Len(fifo[a][s]) + 1] = j
      BY <1>8, <3>1, <3>3
    <3> QED
      BY <3>2, <3>4, ZenonT(20)
  <2> QED
    BY <2>1, <2>2, ZenonT(20)
<1>14. \A i \in JobIds : job'[i].st = "active" => job[i].st = "active" /\ job'[i] = job[i]
  <2> SUFFICES ASSUME NEW i \in JobIds, job'[i].st = "active"
               PROVE  job[i].st = "active" /\ job'[i] = job[i]
    OBVIOUS
  <2>1. \A a \in A : i # x[a]
    BY <1>2 DEF NewFields
  <2> QED
    BY <1>3, <2>1
<1>15. /\ \A q \in Queues : active[q] # NoJob => active[q] \in JobIds /\ Live(active[q])
       /\ OnUnit' /\ Counted'
  <2>1. \A q \in Queues : active[q] # NoJob => active[q] \in JobIds /\ Live(active[q])
    <3>1. \A q \in Queues : active[q] # NoJob => active[q] \in JobIds
      BY <1>0 DEF TypeOK
    <3>2. \A q \in Queues : active[q] # NoJob => job[active[q]].st = "active"
      BY <1>0, ZenonT(20) DEF OnUnit
    <3> QED
      BY <3>1, <3>2, ZenonT(20) DEF Live
  <2>2. OnUnit'
    BY <1>0, <1>1, <1>5, <1>14, <2>1, ZenonT(20) DEF OnUnit
  <2>3. Counted'
    BY <1>0, <1>1 DEF Counted, Busy
  <2> QED
    BY <2>1, <2>2, <2>3
<1>16. Younger'
  <2> SUFFICES ASSUME NEW i \in JobIds, NEW j \in JobIds,
                      job'[i].st = "active", job'[j].st = "queued",
                      job'[i].q = job'[j].q, job'[i].slot = job'[j].slot
               PROVE  job'[i].seq < job'[j].seq
    BY DEF Younger
  <2>1. job[i].st = "active" /\ job'[i] = job[i] /\ Live(i)
    BY <1>14 DEF Live
  <2>2. CASE Live(j)
    BY <1>0, <1>10, <2>1, <2>2, ZenonT(20) DEF Younger
  <2>3. CASE ~Live(j)
    <3>1. PICK a \in A : j = x[a]
      BY <1>11, <2>3 DEF Live
    <3>2. job'[j].q = a /\ job'[j].slot = s /\ job'[j].seq = nextSeq[s][a] + 1
      BY <1>2, <3>1, ZenonT(20) DEF NewFields
    <3>3. job[i].seq \in Nat /\ nextSeq[s][a] \in Nat /\ job[i].seq <= nextSeq[s][a]
      BY <1>2, <1>7, <1>10, <2>1, <3>2
    <3> QED
      BY <2>1, <3>2, <3>3
  <2> QED
    BY <2>2, <2>3, ZenonT(20)
<1>17. Alive' /\ Issued'
  <2>0. \A q \in Queues, t \in Slots :
          /\ nextSeq[t][q] \in Nat /\ nextSeq'[t][q] \in Nat /\ completed[t][q] \in Nat
          /\ deadFlush[t][q] \in Nat
    BY <1>0, ZenonT(20) DEF TypeOK
  <2>1. Issued'
    <3> SUFFICES ASSUME NEW t \in Slots, NEW q \in Queues
                 PROVE  completed'[t][q] <= nextSeq'[t][q] /\ deadFlush'[t][q] <= nextSeq'[t][q]
      BY Zenon DEF Issued
    <3>1. completed[t][q] <= nextSeq[t][q] /\ deadFlush[t][q] <= nextSeq[t][q]
      BY <1>0, Zenon DEF Issued
    <3>2. /\ nextSeq[t][q] \in Nat /\ nextSeq'[t][q] \in Nat /\ completed[t][q] \in Nat
          /\ deadFlush[t][q] \in Nat /\ nextSeq[t][q] <= nextSeq'[t][q]
      BY <1>9, <2>0, Zenon
    <3>3. completed' = completed /\ deadFlush' = deadFlush
      BY <1>1, Zenon
    <3> QED
      BY <3>1, <3>2, <3>3
  <2>2. ASSUME NEW i \in JobIds, Live(i)'
        PROVE  /\ job'[i].gen = gen'[job'[i].slot]
               /\ job'[i].st = "queued" => used'[job'[i].slot]
               /\ 0 < job'[i].seq /\ job'[i].seq <= nextSeq'[job'[i].slot][job'[i].q]
               /\ Orderly(job'[i].q) => completed'[job'[i].slot][job'[i].q] < job'[i].seq
    <3>1. CASE Live(i)
      <4>1. /\ job'[i] = job[i] /\ job[i].q \in Queues /\ job[i].slot \in Slots
            /\ job[i].seq \in Nat /\ job[i].seq <= nextSeq[job[i].slot][job[i].q]
        BY <1>10, <3>1
      <4>2. /\ nextSeq[job[i].slot][job[i].q] \in Nat /\ nextSeq'[job[i].slot][job[i].q] \in Nat
            /\ nextSeq[job[i].slot][job[i].q] <= nextSeq'[job[i].slot][job[i].q]
        BY <1>9, <2>0, <4>1, Zenon
      <4>3. job[i].seq <= nextSeq'[job[i].slot][job[i].q]
        BY <4>1, <4>2
      <4>4. /\ job[i].gen = gen[job[i].slot]
            /\ job[i].st = "queued" => used[job[i].slot]
            /\ 0 < job[i].seq
            /\ Orderly(job[i].q) => completed[job[i].slot][job[i].q] < job[i].seq
        BY <1>0, <3>1, Zenon DEF Alive
      <4>5. gen' = gen /\ used' = used /\ completed' = completed
        BY <1>1, Zenon
      <4> QED
        BY <4>1, <4>3, <4>4, <4>5, Zenon
    <3>2. CASE ~Live(i)
      <4>1. PICK a \in A : i = x[a]
        BY <1>11, <2>2, <3>2
      <4>2. /\ job'[i].st = "queued" /\ job'[i].q = a /\ job'[i].slot = s
            /\ job'[i].gen = gen[s] /\ job'[i].seq = nextSeq[s][a] + 1 /\ a \in Queues
        BY <1>2, <4>1 DEF NewFields
      <4>3. nextSeq'[s][a] = nextSeq[s][a] + 1 /\ completed[s][a] <= nextSeq[s][a]
        BY <1>0, <1>4, <4>2 DEF Issued
      <4>4. nextSeq[s][a] \in Nat /\ completed[s][a] \in Nat
        BY <2>0, <4>2, Zenon
      <4>5. /\ 0 < nextSeq[s][a] + 1 /\ nextSeq[s][a] + 1 <= nextSeq'[s][a]
            /\ completed[s][a] < nextSeq[s][a] + 1
        BY <4>3, <4>4
      <4>6. gen' = gen /\ used' = used /\ completed' = completed /\ used[s]
        BY <1>1, Zenon
      <4> QED
        BY <4>2, <4>5, <4>6, Zenon
    <3> QED
      BY <3>1, <3>2, ZenonT(20)
  <2> QED
    BY <2>1, <2>2 DEF Alive, Orderly, NoFailure
<1>18. Linked'
  <2> SUFFICES ASSUME NEW i \in JobIds, job'[i].mate # NoJob
               PROVE  /\ Live(i)' /\ job'[job'[i].mate].mate = i
                      /\ job'[i].q = BIN => job'[job'[i].mate].q = RENDER
    BY DEF Linked
  <2>1. CASE \E a \in A : i = x[a]
    <3>1. PICK a \in A : i = x[a]
      BY <2>1, ZenonT(20)
    <3>2. PICK b \in A : /\ job'[x[a]].mate = x[b] /\ job'[x[b]].mate = x[a]
                         /\ a = BIN => b = RENDER
      BY <3>1 DEF Adds
    <3>3. job'[x[a]].st = "queued" /\ job'[x[a]].q = a /\ job'[x[b]].q = b
      BY <1>2, ZenonT(20) DEF NewFields
    <3> QED
      BY <3>1, <3>2, <3>3 DEF Live
  <2>2. CASE \A a \in A : i # x[a]
    <3>1. job'[i] = job[i]
      BY <1>3, <2>2, ZenonT(20)
    <3>2. /\ Live(i) /\ job[i].mate \in JobIds /\ job[job[i].mate].mate = i
          /\ job[i].q = BIN => job[job[i].mate].q = RENDER
      BY <1>0, <3>1, JobFields, ZenonT(20) DEF Linked
    <3>3. Live(job[i].mate)
      BY <1>0, <3>2, NoJobFact, ZenonT(20) DEF Linked
    <3> QED
      BY <1>5, <3>1, <3>2, <3>3 DEF Live
  <2> QED
    BY <2>1, <2>2
<1>19. Marked'
  <2>1. ASSUME NEW i \in JobIds, job'[i].derr
        PROVE  job'[i].q = RENDER /\ ~NoFailure
    <3>1. \A a \in A : i # x[a]
      BY <1>2, <2>1, Zenon DEF NewFields
    <3>2. job'[i] = job[i]
      BY <1>3, <3>1
    <3> QED
      BY <1>0, <2>1, <3>2, Zenon DEF Marked
  <2>2. ASSUME active'[RENDER] # NoJob
        PROVE  ~job'[active'[RENDER]].derr /\ job'[active'[RENDER]].mate = NoJob
    <3>1. active'[RENDER] = active[RENDER] /\ active[RENDER] \in JobIds /\ Live(active[RENDER])
      BY <1>1, <1>15, <2>2, QueueFacts
    <3>2. job'[active[RENDER]] = job[active[RENDER]]
      BY <1>5, <3>1, ZenonT(20)
    <3> QED
      BY <1>0, <2>2, <3>1, <3>2, Zenon DEF Marked
  <2> QED
    BY <2>1, <2>2, Zenon DEF Marked
<1>20. Reaped' /\ Closing'
  <2>1. closing = -1 /\ ret # "close"
    BY <1>0, <1>1 DEF Closing
  <2>2. \A i \in JobIds : job'[i].slot # -1
    <3>1. \A i \in JobIds : job'[i] \in Jobs
      BY <1>0 DEF TypeOK
    <3>2. \A i \in JobIds : job'[i].slot \in Slots
      BY <3>1, ZenonT(20) DEF Jobs
    <3> QED
      BY <3>2, SlotFact, ZenonT(20)
  <2> QED
    BY <1>1, <2>1, <2>2 DEF Reaped, Closing
<1>21. Sound'
  <2> SUFFICES ASSUME NoFailure
               PROVE  /\ at' # "wedge" /\ late' \subseteq {CPU}
                      /\ \A t \in Slots, p \in Queues : ~used'[t] \/ closing' = t =>
                           IF ActiveOf(t, p)' THEN deadFlush'[t][p] = nextSeq'[t][p]
                           ELSE completed'[t][p] = nextSeq'[t][p]
                      /\ \A i \in JobIds : Live(i)' => \A f \in job'[i].deps : f.gen <= gen'[f.slot]
                      /\ \A i \in JobIds : job'[i].st = "active" => \A f \in job'[i].deps : Signaled(f)'
    BY ZenonT(20) DEF Sound, NoFailure
  <2>1. at' # "wedge" /\ late' \subseteq {CPU}
    BY <1>0, <1>1, ZenonT(20) DEF Sound
  <2>2. ASSUME NEW t \in Slots, NEW p \in Queues, ~used'[t] \/ closing' = t
        PROVE  IF ActiveOf(t, p)' THEN deadFlush'[t][p] = nextSeq'[t][p]
               ELSE completed'[t][p] = nextSeq'[t][p]
    <3>1. ActiveOf(t, p)' <=> ActiveOf(t, p)
      <4>1. active[p] # NoJob => active[p] \in JobIds /\ Live(active[p])
        BY <1>15
      <4> QED
        BY <1>1, <1>5, <4>1, ZenonT(20) DEF ActiveOf
    <3>2. ~used[t] \/ closing = t
      BY <1>1, <2>2
    <3>3. t # s
      <4>1. closing = -1
        BY <1>0, <1>1 DEF Closing
      <4> QED
        BY <1>1, <3>2, <4>1, SlotFact, ZenonT(20)
    <3> QED
      BY <1>0, <1>1, <1>4, <3>1, <3>2, <3>3, ZenonT(20) DEF Sound
  <2>3. ASSUME NEW i \in JobIds, Live(i)', NEW f \in job'[i].deps
        PROVE  f.gen <= gen'[f.slot]
    <3>1. CASE Live(i)
      <4>1. f \in job[i].deps
        BY <1>5, <2>3, <3>1
      <4>2. f.gen <= gen[f.slot]
        BY <1>0, <3>1, <4>1, Zenon DEF Sound
      <4> QED
        BY <1>1, <4>2
    <3>2. CASE ~Live(i)
      <4>1. PICK a \in A : i = x[a]
        BY <1>11, <2>3, <3>2
      <4>2. f \in PendingFences
        BY <1>2, <2>3, <4>1, ZenonT(20) DEF NewFields
      <4>3. f.gen = gen'[f.slot] /\ f.gen \in Nat
        <5>1. job'[i] \in Jobs
          BY Zenon DEF TypeOK
        <5>2. f \in Fence
          BY <2>3, <5>1 DEF Jobs
        <5>3. f.gen \in Nat
          BY <5>2 DEF Fence
        <5> QED
          BY <1>1, <4>2, <5>3, PendingGen
      <4> QED
        BY <4>3
    <3> QED
      BY <3>1, <3>2, ZenonT(20)
  <2>4. ASSUME NEW i \in JobIds, job'[i].st = "active", NEW f \in job'[i].deps
        PROVE  Signaled(f)'
    BY <1>0, <1>1, <1>14, <2>4, ZenonT(20) DEF Sound, Signaled
  <2> QED
    BY <2>1, <2>2, <2>3, <2>4, ZenonT(20)
<1> QED
  BY <1>0, <1>6, <1>12, <1>13, <1>15, <1>16, <1>17, <1>18, <1>19, <1>20, <1>21 DEF FenceInv

-----------------------------------------------------------------------------
(* The operations that submit                                              *)

\* What job j has become, and its mate.
Made(j, s, q, D, i) == job'[j] = NewJob(s, q, D, i)
Mated(j, i) == job'[j].mate = i

\* The fields of a new job.
LEMMA NewJobFields ==
  ASSUME NEW s, NEW q, NEW D, NEW i, NEW j, D \subseteq PendingFences, Made(j, s, q, D, i)
  PROVE  NewFields(s, q, j) /\ Mated(j, i)
<1>1. /\ job'[j].st = "queued" /\ job'[j].q = q /\ job'[j].slot = s /\ job'[j].gen = gen[s]
      /\ job'[j].seq = nextSeq[s][q] + 1 /\ job'[j].deps = D /\ job'[j].mate = i
  BY DEF NewJob, Made
<1>2. job'[j].derr = FALSE
  BY DEF NewJob, Made
<1> QED
  BY <1>1, <1>2, ZenonT(20) DEF NewFields, Mated

\* A submit of one job adds it.
LEMMA SubmitOneAdds ==
  ASSUME FenceInv, TypeOK', NEW s \in Slots, NEW op \in Ops \ {"CL", "SELFTEST"},
         NEW D \in SUBSET PendingFences, SubmitOne(s, op, D)
  PROVE  /\ OpQueue[op] \in Queues /\ gseq' = gseq + 1 /\ job'[gseq'].mate = NoJob
         /\ \E x : x[OpQueue[op]] = gseq' /\ Adds(s, {OpQueue[op]}, x)
<1>0. TypeOK /\ TypeOK'
  BY ZenonT(20) DEF FenceInv
<1>1. OpQueue[op] \in Queues
  <2>1. op \in {"RCL", "TFU", "CSD", "NOP", "JOIN"}
    BY SchedAssumption DEF AllOps
  <2> QED
    BY <2>1 DEF OpQueue, Queues, HwQueues
<1>2. PICK q \in Queues : q = OpQueue[op]
  BY <1>1, ZenonT(20)
<1>3. PICK j \in JobIds : j = gseq + 1
  <2>1. gseq \in Nat
    BY <1>0 DEF TypeOK
  <2>2. gseq + 1 <= MaxJobs
    BY DEF SubmitOne
  <2> QED
    BY ONLY <2>1, <2>2, SchedAssumption DEF JobIds
<1>4. /\ gseq \in Nat /\ gseq' = j /\ job' = [job EXCEPT ![j] = NewJob(s, q, D, NoJob)]
      /\ nextSeq' = [nextSeq EXCEPT ![s][q] = @ + 1]
      /\ fifo' = [fifo EXCEPT ![q][s] = Append(@, j)]
      /\ at = "free" /\ at' = "sched" /\ used[s]
      /\ UNCHANGED <<used, gen, completed, deadFlush, active, nbusy, late, ret, wret, closing>>
  <2>1. gseq \in Nat
    BY <1>0 DEF TypeOK
  <2>2. /\ gseq' = gseq + 1
        /\ job' = [job EXCEPT ![gseq + 1] = NewJob(s, OpQueue[op], D, NoJob)]
        /\ nextSeq' = [nextSeq EXCEPT ![s][OpQueue[op]] = @ + 1]
        /\ fifo' = [fifo EXCEPT ![OpQueue[op]][s] = Append(@, gseq + 1)]
    BY ZenonT(20) DEF SubmitOne
  <2>3. /\ at = "free" /\ at' = "sched" /\ used[s]
        /\ UNCHANGED <<used, gen, completed, deadFlush, active, nbusy, late, ret, wret, closing>>
    BY ZenonT(20) DEF SubmitOne, pageVars, hwVars
  <2> QED
    BY <1>2, <1>3, <2>1, <2>2, <2>3, ZenonT(20)
<1>5. D \subseteq PendingFences
  BY Zenon
<1>6. PICK x : x[q] = j
  <2>1. [a \in {q} |-> j][q] = j
    BY ZenonT(20)
  <2> QED
    BY <2>1, ZenonT(30)
<1>7. \A i \in JobIds : job'[i] = IF i = j THEN NewJob(s, q, D, NoJob) ELSE job[i]
  BY <1>0, <1>4, ZenonT(20) DEF TypeOK
<1>8. NewFields(s, q, j) /\ job'[j].mate = NoJob
  <2>1. Made(j, s, q, D, NoJob)
    BY <1>7, ZenonT(20) DEF Made
  <2>2. NewFields(s, q, j) /\ Mated(j, NoJob)
    BY <1>5, <2>1, NewJobFields, ZenonT(20)
  <2> QED
    BY <2>2, Zenon DEF Mated
<1>9. ASSUME NEW p \in Queues, NEW t \in Slots
      PROVE  /\ t = s /\ p = q => /\ fifo'[p][t] = Append(fifo[p][t], j)
                                  /\ nextSeq'[t][p] = nextSeq[t][p] + 1
             /\ t # s \/ p # q => /\ fifo'[p][t] = fifo[p][t]
                                  /\ nextSeq'[t][p] = nextSeq[t][p]
  <2>1. /\ DOMAIN fifo = Queues /\ DOMAIN fifo[p] = Slots /\ DOMAIN fifo[q] = Slots
        /\ DOMAIN nextSeq = Slots /\ DOMAIN nextSeq[t] = Queues /\ DOMAIN nextSeq[s] = Queues
    BY <1>0 DEF TypeOK
  <2>2. /\ t = s /\ p = q => fifo'[p][t] = Append(fifo[p][t], j)
        /\ t # s \/ p # q => fifo'[p][t] = fifo[p][t]
    BY <1>4, <2>1
  <2>3. /\ t = s /\ p = q => nextSeq'[t][p] = nextSeq[t][p] + 1
        /\ t # s \/ p # q => nextSeq'[t][p] = nextSeq[t][p]
    BY <1>4, <2>1
  <2> QED
    BY <2>2, <2>3, ZenonT(20)
<1>10. gseq <= gseq' /\ gseq < j /\ j <= gseq'
  BY <1>3, <1>4
<1>11. Adds(s, {q}, x)
  BY <1>4, <1>6, <1>7, <1>8, <1>9, <1>10 DEF Adds
<1> QED
  BY <1>2, <1>3, <1>4, <1>6, <1>8, <1>11, ZenonT(20)

\* So it keeps the invariant.
LEMMA SubmitOneFence ==
  ASSUME FenceInv, TypeOK', NEW s \in Slots, NEW op \in Ops \ {"CL", "SELFTEST"},
         NEW D \in SUBSET PendingFences, SubmitOne(s, op, D)
  PROVE  FenceInv'
<1>1. PICK x : Adds(s, {OpQueue[op]}, x)
  BY SubmitOneAdds, ZenonT(20)
<1> QED
  BY <1>1, SubmitFence, ZenonT(20)

\* A submit of a CL adds a bin and a render job that point at each other.
LEMMA SubmitCLAdds ==
  ASSUME FenceInv, TypeOK', NEW s \in Slots, NEW D \in SUBSET PendingFences,
         NEW R \in SUBSET PendingFences, SubmitCL(s, D, R)
  PROVE  /\ gseq' = gseq + 2
         /\ \E x : /\ x[BIN] = gseq + 1 /\ x[RENDER] = gseq + 2 /\ Adds(s, {BIN, RENDER}, x)
                   /\ job'[x[BIN]].mate = x[RENDER] /\ job'[x[RENDER]].mate = x[BIN]
<1>0. TypeOK /\ TypeOK'
  BY DEF FenceInv
<1>1. BIN \in Queues /\ RENDER \in Queues /\ BIN # RENDER
  BY QueueFacts
<1>2. gseq \in Nat /\ gseq' = gseq + 2 /\ gseq + 1 \in JobIds /\ gseq + 2 \in JobIds
  <2>1. gseq \in 0 .. MaxJobs
    BY <1>0, ZenonT(20) DEF TypeOK
  <2>2. gseq' = gseq + 2 /\ gseq + 2 <= MaxJobs
    BY DEF SubmitCL
  <2> QED
    BY <2>1, <2>2, SchedAssumption DEF JobIds
<1>3. PICK b \in JobIds, r \in JobIds : b = gseq + 1 /\ r = gseq + 2
  BY <1>2, ZenonT(20)
<1>4. /\ job' = [job EXCEPT ![b] = NewJob(s, BIN, D, r), ![r] = NewJob(s, RENDER, R, b)]
      /\ nextSeq' = [nextSeq EXCEPT ![s][BIN] = @ + 1, ![s][RENDER] = @ + 1]
      /\ fifo' = [fifo EXCEPT ![BIN][s] = Append(@, b), ![RENDER][s] = Append(@, r)]
      /\ at = "free" /\ at' = "sched" /\ used[s]
      /\ UNCHANGED <<used, gen, completed, deadFlush, active, nbusy, late, ret, wret, closing>>
  BY <1>3 DEF SubmitCL, pageVars, hwVars
<1>5. D \subseteq PendingFences /\ R \subseteq PendingFences
  BY Zenon
<1>6. PICK x : x[BIN] = b /\ x[RENDER] = r
  <2>1. /\ [a \in {BIN, RENDER} |-> IF a = BIN THEN b ELSE r][BIN] = b
        /\ [a \in {BIN, RENDER} |-> IF a = BIN THEN b ELSE r][RENDER] = r
    BY <1>1
  <2> QED
    BY <2>1, ZenonT(30)
<1>7. \A i \in JobIds : /\ i = b => job'[i] = NewJob(s, BIN, D, r)
                        /\ i = r => job'[i] = NewJob(s, RENDER, R, b)
                        /\ i # b /\ i # r => job'[i] = job[i]
  <2>1. DOMAIN job = JobIds /\ b # r
    BY <1>0, <1>2, <1>3 DEF TypeOK
  <2> QED
    BY <1>4, <2>1, ZenonT(20)
<1>8. /\ NewFields(s, BIN, b) /\ NewFields(s, RENDER, r)
      /\ job'[b].mate = r /\ job'[r].mate = b
  <2>1. Made(b, s, BIN, D, r) /\ Made(r, s, RENDER, R, b)
    BY <1>7, ZenonT(20) DEF Made
  <2>2. NewFields(s, BIN, b) /\ Mated(b, r)
    BY <1>5, <2>1, NewJobFields, ZenonT(20)
  <2>3. NewFields(s, RENDER, r) /\ Mated(r, b)
    BY <1>5, <2>1, NewJobFields, ZenonT(20)
  <2> QED
    BY <2>2, <2>3, Zenon DEF Mated
<1>9. ASSUME NEW p \in Queues, NEW t \in Slots
      PROVE  /\ t = s /\ p = BIN => /\ fifo'[p][t] = Append(fifo[p][t], b)
                                    /\ nextSeq'[t][p] = nextSeq[t][p] + 1
             /\ t = s /\ p = RENDER => /\ fifo'[p][t] = Append(fifo[p][t], r)
                                       /\ nextSeq'[t][p] = nextSeq[t][p] + 1
             /\ t # s \/ p \notin {BIN, RENDER} => /\ fifo'[p][t] = fifo[p][t]
                                                   /\ nextSeq'[t][p] = nextSeq[t][p]
  <2>1. /\ DOMAIN fifo = Queues /\ \A a \in Queues : DOMAIN fifo[a] = Slots
        /\ DOMAIN nextSeq = Slots /\ \A a \in Slots : DOMAIN nextSeq[a] = Queues
    BY <1>0, ZenonT(30) DEF TypeOK
  <2>2. /\ t = s /\ p = BIN => fifo'[p][t] = Append(fifo[p][t], b)
        /\ t = s /\ p = RENDER => fifo'[p][t] = Append(fifo[p][t], r)
        /\ t # s \/ p \notin {BIN, RENDER} => fifo'[p][t] = fifo[p][t]
    BY <1>1, <1>4, <2>1, ZenonT(30)
  <2>3. /\ t = s /\ p = BIN => nextSeq'[t][p] = nextSeq[t][p] + 1
        /\ t = s /\ p = RENDER => nextSeq'[t][p] = nextSeq[t][p] + 1
        /\ t # s \/ p \notin {BIN, RENDER} => nextSeq'[t][p] = nextSeq[t][p]
    BY <1>1, <1>4, <2>1
  <2> QED
    BY <2>2, <2>3, ZenonT(20)
<1>10. gseq <= gseq' /\ gseq < b /\ b <= gseq' /\ gseq < r /\ r <= gseq'
  BY <1>2, <1>3
<1>11. PICK A : A = {BIN, RENDER}
  BY Zenon
<1>12. Adds(s, A, x)
  <2>1. \A a \in A : gseq < x[a] /\ x[a] <= gseq' /\ NewFields(s, a, x[a])
    BY <1>6, <1>8, <1>10, <1>11, ZenonT(20)
  <2>2. \A a \in A : job'[x[a]].mate # NoJob =>
          \E c \in A : /\ job'[x[a]].mate = x[c] /\ job'[x[c]].mate = x[a]
                       /\ a = BIN => c = RENDER
    BY <1>1, <1>6, <1>8, <1>11, ZenonT(20)
  <2>3. \A i \in JobIds : (\A a \in A : i # x[a]) => job'[i] = job[i]
    BY <1>6, <1>7, <1>11, ZenonT(20)
  <2>4. \A q \in Queues, t \in Slots :
          /\ t = s /\ q \in A => /\ fifo'[q][t] = Append(fifo[q][t], x[q])
                                 /\ nextSeq'[t][q] = nextSeq[t][q] + 1
          /\ t # s \/ q \notin A => /\ fifo'[q][t] = fifo[q][t]
                                    /\ nextSeq'[t][q] = nextSeq[t][q]
    <3> SUFFICES ASSUME NEW q \in Queues, NEW t \in Slots
                 PROVE  /\ t = s /\ q \in A => /\ fifo'[q][t] = Append(fifo[q][t], x[q])
                                               /\ nextSeq'[t][q] = nextSeq[t][q] + 1
                        /\ t # s \/ q \notin A => /\ fifo'[q][t] = fifo[q][t]
                                                  /\ nextSeq'[t][q] = nextSeq[t][q]
      BY Zenon
    <3>1. CASE q = BIN
      BY <1>6, <1>9, <1>11, <3>1, ZenonT(20)
    <3>2. CASE q = RENDER
      BY <1>6, <1>9, <1>11, <3>2, ZenonT(20)
    <3>3. CASE q # BIN /\ q # RENDER
      BY <1>9, <1>11, <3>3, ZenonT(20)
    <3> QED
      BY <3>1, <3>2, <3>3, Zenon
  <2>5. \A a \in A : a \in Queues /\ x[a] \in JobIds
    BY <1>1, <1>6, <1>11
  <2> QED
    BY <1>4, <1>10, <2>1, <2>2, <2>3, <2>4, <2>5, ZenonT(30) DEF Adds
<1>13. Adds(s, {BIN, RENDER}, x)
  BY <1>11, <1>12, ZenonT(20)
<1> QED
  BY <1>2, <1>3, <1>6, <1>8, <1>13, ZenonT(20)

\* So it keeps the invariant.
LEMMA SubmitCLFence ==
  ASSUME FenceInv, TypeOK', NEW s \in Slots, NEW D \in SUBSET PendingFences,
         NEW R \in SUBSET PendingFences, SubmitCL(s, D, R)
  PROVE  FenceInv'
<1>1. PICK x : Adds(s, {BIN, RENDER}, x)
  BY SubmitCLAdds, ZenonT(20)
<1> QED
  BY <1>1, SubmitFence, ZenonT(20)

=============================================================================
