--------------------------- MODULE V3DSchedProofs ---------------------------
(***************************************************************************)
(* The theorems about V3DSched.  The scheduler's own steps, and the worker *)
(* threads', keep the invariant of V3DFenceInv; from it: the types, no     *)
(* fence is signalled before its job has left, a row keeps its owner while *)
(* a job of that owner is there, and, where no unit hangs, the fence page  *)
(* implements FenceTimeline.                                               *)
(***************************************************************************)
EXTENDS V3DFenceInv

-----------------------------------------------------------------------------
(* Numbers and sequences                                                   *)

\* Counters stay numbers.
LEMMA Counters ==
  /\ \A n \in Nat : n + 1 \in Nat
  /\ \A n \in Int : n + 1 \in Int /\ n - 1 \in Int
OBVIOUS

\* The ends of an interval are in it.
LEMMA Ends == \A m, n \in Nat : m <= n => m \in m .. n /\ n \in m .. n
OBVIOUS

\* The head and the rest of a FIFO.
LEMMA HeadType ==
  ASSUME NEW f \in Seq(JobIds), f # <<>>
  PROVE  Head(f) \in JobIds /\ Tail(f) \in Seq(JobIds)
OBVIOUS

\* A FIFO that a job is put in is a FIFO.
LEMMA AppendType == \A f \in Seq(JobIds), j \in JobIds : Append(f, j) \in Seq(JobIds)
OBVIOUS

\* A seqno above what a row has reached is not reached.
LEMMA NotReached == \A m, n \in Nat : m < n => ~(m >= n)
OBVIOUS

\* A number between two others is in the interval.
LEMMA Between ==
  ASSUME NEW a \in Nat, NEW b \in Nat, NEW n \in Nat, a <= n, n <= b
  PROVE  n \in a .. b
OBVIOUS

\* A free job record is a job.
LEMMA FreeJobType == FreeJob \in Jobs
BY SchedAssumption DEF FreeJob, Jobs, Queues, Slots, NoJob

\* The head of a FIFO waits.
LEMMA HeadQueued ==
  ASSUME TypeOK, Lined, NEW q \in Queues, NEW s \in Slots, fifo[q][s] # <<>>
  PROVE  job[Head(fifo[q][s])].st = "queued"
<1>1. fifo[q][s] \in Seq(JobIds)
  BY DEF TypeOK
<1>2. 1 \in DOMAIN fifo[q][s] /\ Head(fifo[q][s]) = fifo[q][s][1]
  BY <1>1
<1> QED
  BY <1>2 DEF Lined

\* In SERIAL mode a kick looks at srv.nbusy, which is 0 when all units are idle.
LEMMA SerialKick ==
  ASSUME mode = "SERIAL", Counted, NEW q \in HwQueues, NEW s \in Slots, KickHw(q, s)
  PROVE  \A p \in HwQueues : active[p] = NoJob
<1>1. nbusy = 0
  BY ZenonT(20) DEF KickHw, HwTurn, SerialTurn, PipelineTurn
<1> QED
  BY <1>1 DEF Counted, Busy, HwQueues

-----------------------------------------------------------------------------
(* A job is kicked                                                         *)

\* Whose turn it is: an idle unit, and a job that is ready and not marked.
LEMMA TurnFacts ==
  ASSUME FenceInv, NEW q \in Queues, NEW s \in Slots, Kicking,
         (q = CPU /\ CpuTurn(s)) \/ (q \in HwQueues /\ HwTurn(q, s))
  PROVE  /\ active[q] = NoJob
         /\ ReadyHead(q, s)
         /\ q = RENDER => ~job[Head(fifo[q][s])].derr
<1>1. ReadyHead(q, s)
  BY ZenonT(20) DEF CpuTurn, HwTurn, SerialTurn, PipelineTurn, Turn
<1>2. active[q] = NoJob
  <2>1. CASE Turn(q, s)
    BY <2>1, ZenonT(20) DEF Turn
  <2>2. CASE q \in HwQueues /\ nbusy = 0
    BY <2>2, QueueFacts DEF FenceInv, Counted, Busy
  <2> QED
    BY <2>1, <2>2 DEF CpuTurn, HwTurn, SerialTurn, PipelineTurn
<1>3. q = RENDER => ~Reapable(q, s)
  BY <1>2, ZenonT(20) DEF Kicking, FenceInv, Reaped
<1> QED
  BY <1>1, <1>2, <1>3, ZenonT(20) DEF Reapable

\* The fields of the jobs after a kick.
LEMMA KickFields ==
  ASSUME TypeOK, NEW j \in JobIds, job' = [job EXCEPT ![j].st = "active"]
  PROVE  \A i \in JobIds :
           /\ job'[i].st = IF i = j THEN "active" ELSE job[i].st
           /\ job'[i].q = job[i].q /\ job'[i].slot = job[i].slot
           /\ job'[i].gen = job[i].gen /\ job'[i].seq = job[i].seq
           /\ job'[i].deps = job[i].deps /\ job'[i].mate = job[i].mate
           /\ job'[i].derr = job[i].derr
           /\ i # j => job'[i] = job[i]
<1> TAKE i \in JobIds
<1>1. job[i] \in Jobs /\ job \in [JobIds -> Jobs]
  BY DEF TypeOK
<1>2. job'[i] = IF i = j THEN [job[i] EXCEPT !.st = "active"] ELSE job[i]
  BY <1>1, ZenonT(20)
<1> QED
  BY <1>1, <1>2, ZenonT(20) DEF Jobs

\* A kick takes the oldest waiting job of a client to an idle unit.
LEMMA KickFence ==
  ASSUME FenceInv, TypeOK', NEW q \in Queues, NEW s \in Slots, Kicking, Kick(q, s),
         active[q] = NoJob, ReadyHead(q, s), q = RENDER => ~job[Head(fifo[q][s])].derr,
         at' = "kick" \/ (at' = "wedge" /\ wret' = "ret" /\ ~NoFailure)
  PROVE  FenceInv'
<1> DEFINE j == Head(fifo[q][s])
<1>0. TypeOK /\ fifo[q][s] # <<>> /\ Ready(j)
  BY ZenonT(20) DEF FenceInv, ReadyHead
<1>1. /\ j \in JobIds /\ j = fifo[q][s][1] /\ 1 \in DOMAIN fifo[q][s]
      /\ job[j].st = "queued" /\ job[j].q = q /\ job[j].slot = s
  BY <1>0, PopFacts DEF FenceInv, Lined
<1>2. /\ fifo' = Popped(q, s) /\ active' = [active EXCEPT ![q] = j]
      /\ job' = [job EXCEPT ![j].st = "active"]
      /\ nbusy' = (IF q \in HwQueues THEN nbusy + 1 ELSE nbusy)
      /\ UNCHANGED <<completed, used, gen, nextSeq, deadFlush, gseq, ret, closing, late>>
  BY DEF Kick, pageVars, slotVars
<1> HIDE DEF j
<1>3. \A i \in JobIds :
        /\ job'[i].st = IF i = j THEN "active" ELSE job[i].st
        /\ job'[i].q = job[i].q /\ job'[i].slot = job[i].slot
        /\ job'[i].gen = job[i].gen /\ job'[i].seq = job[i].seq
        /\ job'[i].deps = job[i].deps /\ job'[i].mate = job[i].mate
        /\ job'[i].derr = job[i].derr
        /\ i # j => job'[i] = job[i]
  BY <1>0, <1>1, <1>2, KickFields, ZenonT(30)
<1>4. Fresh'
  <2>1. ~(j > gseq)
    BY <1>1, FreeFields, ZenonT(20) DEF FenceInv, Fresh
  <2> QED
    BY <1>2, <1>3, <2>1, ZenonT(20) DEF FenceInv, Fresh
<1>5. \A p \in Queues : active'[p] = IF p = q THEN j ELSE active[p]
  BY <1>0, <1>2, ZenonT(20) DEF TypeOK
<1>6. OnUnit'
  <2>1. OnUnit /\ \A p \in Queues : active[p] \in JobIds \cup {NoJob}
    BY DEF FenceInv, TypeOK
  <2> QED
    <3>1. ASSUME NEW p \in Queues, active'[p] # NoJob
          PROVE  job'[active'[p]].st = "active" /\ job'[active'[p]].q = p
      BY <1>1, <1>3, <1>5, <2>1, <3>1 DEF OnUnit
    <3>2. ASSUME NEW i \in JobIds, job'[i].st = "active"
          PROVE  active'[job'[i].q] = i
      <4>1. job[i].q \in Queues
        BY <1>0, JobFields, ZenonT(20)
      <4>2. CASE i = j
        BY <1>1, <1>3, <1>5, <4>2
      <4>3. CASE i # j
        BY <1>3, <1>5, <2>1, <3>2, <4>1, <4>3, NoJobFact DEF OnUnit
      <4> QED
        BY <4>2, <4>3, ZenonT(20)
    <3> QED
      BY <3>1, <3>2, ZenonT(20) DEF OnUnit
<1>7. Holds(Popped(q, s), j)
  BY <1>0, PopHolds, Zenon DEF FenceInv, j
<1>70. \A i \in JobIds :
         job[i].st = "queued" /\ job[i].q = q /\ job[i].slot = s /\ i # j => job[j].seq < job[i].seq
  BY <1>0, PopHolds, Zenon DEF FenceInv, j
<1>8. Younger'
  <2>1. ASSUME NEW a \in JobIds, NEW b \in JobIds,
               job'[a].st = "active", job'[b].st = "queued",
               job'[a].q = job'[b].q, job'[a].slot = job'[b].slot
        PROVE  job'[a].seq < job'[b].seq
    <3>1. b # j /\ job[b].st = "queued"
      BY <1>3, <2>1, ZenonT(20)
    <3>2. CASE a = j
      <4>1. job[b].q = q /\ job[b].slot = s
        BY <1>1, <1>3, <2>1, <3>2
      <4>2. job[j].seq < job[b].seq
        BY <1>70, <3>1, <4>1, ZenonT(20)
      <4> QED
        BY <1>1, <1>3, <3>2, <4>2, ZenonT(20)
    <3>3. CASE a # j
      BY <1>3, <2>1, <3>1, <3>3, ZenonT(20) DEF FenceInv, Younger
    <3> QED
      BY <3>2, <3>3
  <2> QED
    BY <2>1, ZenonT(20) DEF Younger
<1>9. Counted'
  <2>1. \A p \in HwQueues : p # q => active'[p] = active[p]
    BY <1>5, QueueFacts, ZenonT(20)
  <2>2. active'[q] # NoJob
    BY <1>1, <1>5, NoJobFact
  <2> QED
    BY <1>2, <2>1, <2>2, CountFacts, ZenonT(20) DEF FenceInv
<1>10. Alive' /\ Issued'
  <2>1. Alive /\ Issued
    BY ZenonT(20) DEF FenceInv
  <2>2. \A i \in JobIds : Live(i)' => Live(i)
    BY <1>1, <1>3 DEF Live
  <2>3. Issued'
    BY <1>2, <2>1, Zenon DEF Issued
  <2>4. ASSUME NEW i \in JobIds, Live(i)'
        PROVE  /\ job'[i].gen = gen'[job'[i].slot]
               /\ job'[i].st = "queued" => used'[job'[i].slot]
               /\ 0 < job'[i].seq /\ job'[i].seq <= nextSeq'[job'[i].slot][job'[i].q]
               /\ Orderly(job'[i].q) => completed'[job'[i].slot][job'[i].q] < job'[i].seq
    <3>1. /\ job[i].gen = gen[job[i].slot]
          /\ job[i].st = "queued" => used[job[i].slot]
          /\ 0 < job[i].seq /\ job[i].seq <= nextSeq[job[i].slot][job[i].q]
          /\ Orderly(job[i].q) => completed[job[i].slot][job[i].q] < job[i].seq
      BY <2>1, <2>2, <2>4, ZenonT(20) DEF Alive
    <3> QED
      BY <1>2, <1>3, <3>1
  <2> QED
    BY <2>3, <2>4, Zenon DEF Alive
<1>11. Lined'
  <2> SUFFICES ASSUME NEW p \in Queues, NEW t \in Slots
               PROVE  /\ \A i \in DOMAIN fifo'[p][t] :
                           LET x == fifo'[p][t][i]
                           IN  job'[x].st = "queued" /\ job'[x].q = p /\ job'[x].slot = t
                      /\ \A i, k \in DOMAIN fifo'[p][t] :
                           i < k => job'[fifo'[p][t][i]].seq < job'[fifo'[p][t][k]].seq
    BY Zenon DEF Lined
  <2> QED
    BY <1>2, <1>3, <1>7 DEF Holds
<1>12. Kept'
  <2> SUFFICES ASSUME NEW i \in JobIds, job'[i].st = "queued"
               PROVE  \E k \in DOMAIN fifo'[job'[i].q][job'[i].slot] :
                        fifo'[job'[i].q][job'[i].slot][k] = i
    BY Zenon DEF Kept
  <2>1. i # j /\ job[i].st = "queued" /\ job'[i].q = job[i].q /\ job'[i].slot = job[i].slot
    BY <1>3, ZenonT(20)
  <2> QED
    BY <1>2, <1>7, <2>1 DEF Holds
<1>13. Linked'
  <2> SUFFICES ASSUME NEW i \in JobIds, job'[i].mate # NoJob
               PROVE  /\ Live(i)' /\ job'[job'[i].mate].mate = i
                      /\ job'[i].q = BIN => job'[job'[i].mate].q = RENDER
    BY Zenon DEF Linked
  <2>1. job'[i].mate = job[i].mate /\ job'[i].q = job[i].q /\ job[i].mate \in JobIds
    BY <1>0, <1>3, JobFields
  <2>2. /\ Live(i) /\ job[job[i].mate].mate = i
        /\ job[i].q = BIN => job[job[i].mate].q = RENDER
    BY <2>1, Zenon DEF FenceInv, Linked
  <2>3. job'[job[i].mate].mate = job[job[i].mate].mate /\ job'[job[i].mate].q = job[job[i].mate].q
    BY <1>3, <2>1, ZenonT(20)
  <2>4. Live(i)'
    BY <1>3, <2>2 DEF Live
  <2> QED
    BY <2>1, <2>2, <2>3, <2>4
<1>14. Marked'
  <2>1. ASSUME NEW i \in JobIds, job'[i].derr
        PROVE  job'[i].q = RENDER /\ ~NoFailure
    <3>1. job[i].derr /\ job'[i].q = job[i].q
      BY <1>3, <2>1, Zenon
    <3> QED
      BY <3>1, Zenon DEF FenceInv, Marked
  <2>2. RENDER \in Queues /\ active[RENDER] \in JobIds \cup {NoJob}
    BY <1>0, QueueFacts DEF TypeOK
  <2>3. q = RENDER => job[j].mate = NoJob /\ ~job[j].derr
    BY <1>0, <1>1, ZenonT(20) DEF Ready, j
  <2>4. active'[RENDER] # NoJob => active'[RENDER] \in JobIds /\ ~job[active'[RENDER]].derr /\ job[active'[RENDER]].mate = NoJob
    BY <1>1, <1>5, <2>2, <2>3, Zenon DEF FenceInv, Marked
  <2> QED
    BY <1>3, <2>1, <2>4, Zenon DEF Marked
<1>15. Reaped'
  <2>1. CASE q = RENDER
    BY <1>1, <1>5, <2>1, QueueFacts, NoJobFact, ZenonT(20) DEF Reaped
  <2>2. CASE q # RENDER /\ active[RENDER] # NoJob
    BY <1>5, <2>2, QueueFacts, ZenonT(20) DEF Reaped
  <2>3. CASE q # RENDER /\ active[RENDER] = NoJob
    <3>1. ASSUME NEW t \in Slots
          PROVE  ~Reapable(RENDER, t)'
      <4>1. ~Reapable(RENDER, t)
        BY <2>3, QueueFacts, ZenonT(20) DEF Kicking, FenceInv, Reaped
      <4>2. fifo'[RENDER][t] = fifo[RENDER][t]
        BY <1>0, <1>2, <2>3, PopFacts, QueueFacts
      <4>3. fifo[RENDER][t] \in Seq(JobIds)
        BY <1>0, QueueFacts DEF TypeOK
      <4>4. CASE fifo[RENDER][t] = <<>>
        BY <4>2, <4>4, ZenonT(20) DEF Reapable, ReadyHead
      <4>5. CASE fifo[RENDER][t] # <<>>
        <5>1. PICK h \in JobIds : h = Head(fifo[RENDER][t])
          BY <4>3, <4>5
        <5>2. Ready(h)' <=> Ready(h)
          <6>1. \A f : Signaled(f)' <=> Signaled(f)
            BY <1>2 DEF Signaled
          <6>2. job'[h].q = job[h].q /\ job'[h].mate = job[h].mate /\ job'[h].deps = job[h].deps
            BY <1>3, <5>1, ZenonT(20)
          <6> QED
            BY <6>1, <6>2, Zenon DEF Ready
        <5>3. ~(Ready(h) /\ job[h].derr)
          BY <4>1, <4>5, <5>1, Zenon DEF Reapable, ReadyHead
        <5>4. ~(Ready(h)' /\ job'[h].derr)
          BY <1>3, <5>1, <5>2, <5>3, Zenon
        <5> QED
          BY <4>2, <5>1, <5>4, Zenon DEF Reapable, ReadyHead
      <4> QED
        BY <4>4, <4>5, ZenonT(20)
    <3> QED
      BY <3>1, ZenonT(20) DEF Reaped
  <2> QED
    BY <2>1, <2>2, <2>3, ZenonT(20)
<1>16. Closing'
  <2>1. Closing /\ at \in {"sched", "kick"}
    BY ZenonT(20) DEF FenceInv, Kicking
  <2> QED
    BY <1>2, <1>3, <2>1 DEF Closing
<1>17. Sound'
  <2>1. ASSUME NoFailure
        PROVE  /\ at' # "wedge" /\ late' \subseteq {CPU}
               /\ \A i \in JobIds : Live(i)' => \A f \in job'[i].deps : f.gen <= gen'[f.slot]
               /\ \A i \in JobIds : job'[i].st = "active" => \A f \in job'[i].deps : Signaled(f)'
    <3>1. \A f : Signaled(f)' <=> Signaled(f)
      BY <1>2, ZenonT(20) DEF Signaled
    <3>2. \A f \in job[j].deps : Signaled(f)
      BY <1>0 DEF Ready
    <3>3. /\ at # "wedge" /\ late \subseteq {CPU}
          /\ \A i \in JobIds : Live(i) => \A f \in job[i].deps : f.gen <= gen[f.slot]
          /\ \A i \in JobIds : job[i].st = "active" => \A f \in job[i].deps : Signaled(f)
      BY <2>1, Zenon DEF FenceInv, Sound
    <3>4. at' # "wedge" /\ late' \subseteq {CPU}
      BY <1>2, <2>1, <3>3, ZenonT(20)
    <3>5. \A i \in JobIds : Live(i)' => Live(i)
      BY <1>1, <1>3, ZenonT(20) DEF Live
    <3>6. \A i \in JobIds : job'[i].st = "active" => i = j \/ job[i].st = "active"
      BY <1>3, ZenonT(20)
    <3>7. \A i \in JobIds : job'[i].deps = job[i].deps
      BY <1>3, ZenonT(20)
    <3>8. gen' = gen
      BY <1>2
    <3> QED
      BY <3>1, <3>2, <3>3, <3>4, <3>5, <3>6, <3>7, <3>8, Zenon
  <2>2. ASSUME NoFailure, NEW t \in Slots, NEW p \in Queues, ~used'[t] \/ closing' = t
        PROVE  IF ActiveOf(t, p)' THEN deadFlush'[t][p] = nextSeq'[t][p]
               ELSE completed'[t][p] = nextSeq'[t][p]
    <3>1. t # s
      BY <1>1, <1>2, <2>2, ZenonT(20) DEF FenceInv, Alive, Live, Closing
    <3>2. ActiveOf(t, p)' <=> ActiveOf(t, p)
      <4>1. active[p] \in JobIds \cup {NoJob}
        BY <1>0, ZenonT(20) DEF TypeOK
      <4> QED
        BY <1>1, <1>3, <1>5, <3>1, <4>1 DEF ActiveOf
    <3> QED
      BY <1>2, <2>2, <3>2, Zenon DEF FenceInv, Sound
  <2> QED
    BY <2>1, <2>2, Zenon DEF Sound
<1> QED
  BY <1>4, <1>6, <1>8, <1>9, <1>10, <1>11, <1>12, <1>13, <1>14, <1>15, <1>16, <1>17 DEF FenceInv

\* The three kicks.
LEMMA KicksFence ==
  ASSUME FenceInv, TypeOK', NEW s \in Slots,
         (\E q \in HwQueues : KickHw(q, s)) \/ KickCpu(s) \/ KickCsdStuck(s)
  PROVE  FenceInv'
<1>1. ASSUME NEW q \in HwQueues, KickHw(q, s)
      PROVE  FenceInv'
  <2>1. q \in Queues /\ Kicking /\ Kick(q, s) /\ HwTurn(q, s) /\ at' = "kick"
    BY <1>1, QueueFacts, ZenonT(20) DEF KickHw
  <2> QED
    BY <2>1, TurnFacts, KickFence, ZenonT(20)
<1>2. CASE KickCpu(s)
  <2>1. CPU \in Queues /\ Kicking /\ Kick(CPU, s) /\ CpuTurn(s) /\ at' = "kick"
    BY <1>2, QueueFacts, ZenonT(20) DEF KickCpu
  <2> QED
    BY <2>1, TurnFacts, KickFence, ZenonT(20)
<1>3. CASE KickCsdStuck(s)
  <2>1. /\ CSD \in Queues /\ CSD \in HwQueues /\ Kicking /\ Kick(CSD, s) /\ HwTurn(CSD, s)
        /\ at' = "wedge" /\ wret' = "ret" /\ ~NoFailure
    BY <1>3, QueueFacts DEF KickCsdStuck, NoFailure
  <2> QED
    BY <2>1, TurnFacts, KickFence, ZenonT(20)
<1> QED
  BY <1>1, <1>2, <1>3, ZenonT(20)
-----------------------------------------------------------------------------
(* A job is done                                                           *)

\* The jobs after job j is done: its record is free, its mate is on its own and,
\* when a bin failed, marked.
DoneJobs(j, e) ==
  /\ job'[j] = FreeJob
  /\ \A i \in JobIds : i # j =>
       /\ job'[i].st = job[i].st
       /\ job'[i].q = job[i].q /\ job'[i].slot = job[i].slot
       /\ job'[i].gen = job[i].gen /\ job'[i].seq = job[i].seq
       /\ job'[i].deps = job[i].deps
       /\ job'[i].mate = IF i = job[j].mate THEN NoJob ELSE job[i].mate
       /\ job'[i].derr => job[i].derr \/ (i = job[j].mate /\ e /\ job[j].q = BIN)
       /\ i # job[j].mate => job'[i] = job[i]

\* Its unit, if it ran, is idle ...
DoneUnit(j) ==
  \A p \in Queues : active'[p] = IF active[p] = j THEN NoJob ELSE active[p]

\* ... and its fence is published.
DonePage(j) ==
  \A t \in Slots, p \in Queues :
    completed'[t][p] = IF t = job[j].slot /\ p = job[j].q THEN CompletedSeq(j) ELSE completed[t][p]

\* job_done frees the record and unlinks the mate.
LEMMA DoneFields ==
  ASSUME TypeOK, NEW j \in JobIds, NEW e \in BOOLEAN, job' = Unlinked(j, e)
  PROVE  DoneJobs(j, e)
<1>1. job'[j] = FreeJob
  BY ZenonT(30) DEF Unlinked
<1>2. ASSUME NEW i \in JobIds, i # j
      PROVE  /\ job'[i].st = job[i].st
             /\ job'[i].q = job[i].q /\ job'[i].slot = job[i].slot
             /\ job'[i].gen = job[i].gen /\ job'[i].seq = job[i].seq
             /\ job'[i].deps = job[i].deps
             /\ job'[i].mate = IF i = job[j].mate THEN NoJob ELSE job[i].mate
             /\ job'[i].derr => job[i].derr \/ (i = job[j].mate /\ e /\ job[j].q = BIN)
             /\ i # job[j].mate => job'[i] = job[i]
  <2>1. job[i] \in Jobs
    BY ZenonT(20) DEF TypeOK
  <2>2. CASE i # job[j].mate
    <3>1. job'[i] = job[i]
      BY <1>2, <2>2, ZenonT(30) DEF Unlinked
    <3> QED
      BY <2>2, <3>1
  <2>3. CASE i = job[j].mate
    <3>1. job'[i] = [job[i] EXCEPT !.mate = NoJob, !.derr = @ \/ (e /\ job[j].q = BIN)]
      BY <1>2, <2>3, ZenonT(30) DEF Unlinked
    <3>2. /\ job'[i].st = job[i].st
          /\ job'[i].q = job[i].q /\ job'[i].slot = job[i].slot
          /\ job'[i].gen = job[i].gen /\ job'[i].seq = job[i].seq
          /\ job'[i].deps = job[i].deps /\ job'[i].mate = NoJob
      BY <2>1, <3>1 DEF Jobs
    <3>3. job'[i].derr = (job[i].derr \/ (e /\ job[j].q = BIN))
      BY <2>1, <3>1, Zenon DEF Jobs
    <3> QED
      BY <2>3, <3>2, <3>3, ZenonT(30)
  <2> QED
    BY <2>2, <2>3, ZenonT(20)
<1> QED
  BY <1>1, <1>2, Zenon DEF DoneJobs

\* The record that is freed, and what the others keep.
LEMMA DoneFacts ==
  ASSUME NEW j \in JobIds, NEW e, DoneJobs(j, e)
  PROVE  /\ job'[j].st = "free" /\ job'[j].mate = NoJob /\ job'[j].derr = FALSE /\ ~Live(j)'
         /\ \A i \in JobIds : i # j =>
              /\ job'[i].st = job[i].st /\ job'[i].q = job[i].q
              /\ job'[i].slot = job[i].slot /\ job'[i].seq = job[i].seq
              /\ Live(i)' <=> Live(i)
<1>1. job'[j].st = "free" /\ job'[j].mate = NoJob /\ job'[j].derr = FALSE
  BY FreeFields, ZenonT(20) DEF DoneJobs
<1>2. \A i \in JobIds : i # j =>
        /\ job'[i].st = job[i].st /\ job'[i].q = job[i].q
        /\ job'[i].slot = job[i].slot /\ job'[i].seq = job[i].seq
  BY Zenon DEF DoneJobs
<1>3. ~Live(j)' /\ \A i \in JobIds : i # j => (Live(i)' <=> Live(i))
  BY <1>1, <1>2, ZenonT(20) DEF Live
<1> QED
  BY <1>1, <1>2, <1>3, Zenon

\* A fence completes no lower than its own and no higher than what was issued,
\* and beyond its own only for a client that is gone.
LEMMA CompletedFacts ==
  ASSUME FenceInv, NEW j \in JobIds, Live(j)
  PROVE  LET s == job[j].slot
             q == job[j].q
         IN  /\ CompletedSeq(j) \in Nat /\ job[j].seq \in Nat /\ deadFlush[s][q] \in Nat
             /\ completed[s][q] \in Nat /\ nextSeq[s][q] \in Nat
             /\ job[j].seq <= CompletedSeq(j) /\ CompletedSeq(j) <= nextSeq[s][q]
             /\ used[s] => CompletedSeq(j) = job[j].seq
             /\ ~used[s] => deadFlush[s][q] <= CompletedSeq(j)
             /\ Orderly(q) => completed[s][q] < CompletedSeq(j)
<1> DEFINE s == job[j].slot
           q == job[j].q
<1>1. TypeOK /\ s \in Slots /\ q \in Queues /\ job[j].seq \in Nat
  BY JobFields, ZenonT(20) DEF FenceInv
<1>2. completed[s][q] \in Nat /\ nextSeq[s][q] \in Nat /\ deadFlush[s][q] \in Nat
  BY <1>1, ZenonT(30) DEF TypeOK
<1>3. /\ job[j].seq <= nextSeq[s][q] /\ deadFlush[s][q] <= nextSeq[s][q]
      /\ Orderly(q) => completed[s][q] < job[j].seq
  BY <1>1, ZenonT(20) DEF FenceInv, Alive, Issued
<1>4. CompletedSeq(j) = IF ~used[s] /\ deadFlush[s][q] > job[j].seq THEN deadFlush[s][q] ELSE job[j].seq
  BY ZenonT(20) DEF CompletedSeq
<1> HIDE DEF s, q
<1>5. /\ CompletedSeq(j) \in Nat /\ job[j].seq <= CompletedSeq(j) /\ CompletedSeq(j) <= nextSeq[s][q]
      /\ used[s] => CompletedSeq(j) = job[j].seq
      /\ ~used[s] => deadFlush[s][q] <= CompletedSeq(j)
  BY <1>1, <1>2, <1>3, <1>4
<1>6. Orderly(q) => completed[s][q] < CompletedSeq(j)
  BY <1>1, <1>2, <1>3, <1>5
<1> QED
  BY <1>1, <1>2, <1>5, <1>6, ZenonT(20) DEF s, q

\* A finished job's record stays free and its mate's was in use.
LEMMA DoneFresh ==
  ASSUME Fresh, Linked, NEW j \in JobIds, NEW e, Live(j), DoneJobs(j, e), gseq' = gseq
  PROVE  Fresh'
<1> SUFFICES ASSUME NEW i \in JobIds, i > gseq
             PROVE  job'[i] = FreeJob
  BY Zenon DEF Fresh
<1>1. job[i] = FreeJob
  BY ZenonT(20) DEF Fresh
<1>2. i # j
  BY <1>1, FreeFields, ZenonT(20) DEF Live
<1>3. i # job[j].mate
  <2>1. CASE job[j].mate = NoJob
    BY <2>1, NoJobFact, ZenonT(20)
  <2>2. CASE job[j].mate # NoJob
    <3>1. job[job[j].mate].mate = j
      BY <2>2, Zenon DEF Linked
    <3> QED
      BY <1>1, <3>1, FreeFields, NoJobFact
  <2> QED
    BY <2>1, <2>2, ZenonT(20)
<1> QED
  BY <1>1, <1>2, <1>3, Zenon DEF DoneJobs

\* The units keep the jobs they run.
LEMMA DoneOnUnit ==
  ASSUME TypeOK, OnUnit, NEW j \in JobIds, NEW e, DoneJobs(j, e), DoneUnit(j)
  PROVE  OnUnit'
<1>1. ASSUME NEW p \in Queues, active'[p] # NoJob
      PROVE  job'[active'[p]].st = "active" /\ job'[active'[p]].q = p
  <2>1. active'[p] = active[p] /\ active[p] # NoJob /\ active[p] # j
    BY <1>1, Zenon DEF DoneUnit
  <2>2. active[p] \in JobIds
    BY <2>1 DEF TypeOK
  <2>3. job[active[p]].st = "active" /\ job[active[p]].q = p
    BY <2>1, Zenon DEF OnUnit
  <2>4. job'[active[p]].st = job[active[p]].st /\ job'[active[p]].q = job[active[p]].q
    BY <2>1, <2>2, DoneFacts, Zenon
  <2> QED
    BY <2>1, <2>3, <2>4
<1>2. ASSUME NEW i \in JobIds, job'[i].st = "active"
      PROVE  active'[job'[i].q] = i
  <2>1. i # j /\ job[i].st = "active" /\ job'[i].q = job[i].q
    BY <1>2, DoneFacts, ZenonT(20)
  <2>2. active[job[i].q] = i /\ job[i].q \in Queues
    BY <2>1, JobFields, ZenonT(20) DEF OnUnit
  <2> QED
    BY <2>1, <2>2, ZenonT(20) DEF DoneUnit
<1> QED
  BY <1>1, <1>2, Zenon DEF OnUnit

\* A client's waiting jobs stay younger than its running one.
LEMMA DoneYounger ==
  ASSUME Younger, NEW j \in JobIds, NEW e, DoneJobs(j, e)
  PROVE  Younger'
<1> SUFFICES ASSUME NEW a \in JobIds, NEW b \in JobIds,
                    job'[a].st = "active", job'[b].st = "queued",
                    job'[a].q = job'[b].q, job'[a].slot = job'[b].slot
             PROVE  job'[a].seq < job'[b].seq
  BY Zenon DEF Younger
<1>1. a # j /\ b # j
  BY DoneFacts, ZenonT(20)
<1>2. /\ job[a].st = "active" /\ job[b].st = "queued"
      /\ job[a].q = job[b].q /\ job[a].slot = job[b].slot
      /\ job'[a].seq = job[a].seq /\ job'[b].seq = job[b].seq
  BY <1>1, DoneFacts, ZenonT(20)
<1> QED
  BY <1>2, ZenonT(20) DEF Younger

\* FIFOs that hold the queued jobs but the one that is done hold them in order.
LEMMA HoldsLined ==
  ASSUME NEW j \in JobIds, NEW e, DoneJobs(j, e), Holds(fifo', j)
  PROVE  Lined' /\ Kept'
<1>2. ASSUME NEW p \in Queues, NEW t \in Slots, NEW i \in DOMAIN fifo'[p][t]
      PROVE  /\ job'[fifo'[p][t][i]].st = "queued" /\ job'[fifo'[p][t][i]].q = p
             /\ job'[fifo'[p][t][i]].slot = t
             /\ \A k \in DOMAIN fifo'[p][t] :
                  i < k => job'[fifo'[p][t][i]].seq < job'[fifo'[p][t][k]].seq
  <2>1. \A k \in DOMAIN fifo'[p][t] : fifo'[p][t][k] \in JobIds /\ fifo'[p][t][k] # j
    BY DEF Holds
  <2>2. /\ job[fifo'[p][t][i]].st = "queued" /\ job[fifo'[p][t][i]].q = p
        /\ job[fifo'[p][t][i]].slot = t
        /\ \A k \in DOMAIN fifo'[p][t] :
             i < k => job[fifo'[p][t][i]].seq < job[fifo'[p][t][k]].seq
    BY <1>2 DEF Holds
  <2>3. \A k \in DOMAIN fifo'[p][t] :
          /\ job'[fifo'[p][t][k]].st = job[fifo'[p][t][k]].st
          /\ job'[fifo'[p][t][k]].q = job[fifo'[p][t][k]].q
          /\ job'[fifo'[p][t][k]].slot = job[fifo'[p][t][k]].slot
          /\ job'[fifo'[p][t][k]].seq = job[fifo'[p][t][k]].seq
    BY <2>1, DoneFacts, ZenonT(20)
  <2> QED
    BY <2>2, <2>3, ZenonT(20)
<1>3. ASSUME NEW i \in JobIds, job'[i].st = "queued"
      PROVE  \E k \in DOMAIN fifo'[job'[i].q][job'[i].slot] :
               fifo'[job'[i].q][job'[i].slot][k] = i
  <2>1. /\ i # j /\ job[i].st = "queued"
        /\ job'[i].q = job[i].q /\ job'[i].slot = job[i].slot
    BY <1>3, DoneFacts, ZenonT(20)
  <2> QED
    BY <2>1, ZenonT(20) DEF Holds
<1>4. Lined'
  BY <1>2 DEF Lined
<1>5. Kept'
  BY <1>3, Zenon DEF Kept
<1> QED
  BY <1>4, <1>5, ZenonT(20)

\* The FIFOs still hold the queued jobs, in order.
LEMMA DoneLined ==
  ASSUME TypeOK, Lined, Kept, NEW j \in JobIds, NEW e, DoneJobs(j, e),
         (job[j].st = "active" /\ fifo' = fifo) \/ Holds(fifo', j)
  PROVE  Lined' /\ Kept'
<1>1. Holds(fifo', j)
  <2> SUFFICES ASSUME job[j].st = "active", fifo' = fifo
               PROVE  Holds(fifo, j)
    BY Zenon
  <2>1. \A p \in Queues, t \in Slots : fifo[p][t] \in Seq(JobIds)
    BY DEF TypeOK
  <2>2. ASSUME NEW p \in Queues, NEW t \in Slots, NEW i \in DOMAIN fifo[p][t]
        PROVE  /\ fifo[p][t][i] \in JobIds /\ fifo[p][t][i] # j
               /\ job[fifo[p][t][i]].st = "queued" /\ job[fifo[p][t][i]].q = p
               /\ job[fifo[p][t][i]].slot = t
               /\ \A k \in DOMAIN fifo[p][t] : i < k => job[fifo[p][t][i]].seq < job[fifo[p][t][k]].seq
    <3>1. fifo[p][t][i] \in JobIds
      BY <2>1
    <3>2. /\ job[fifo[p][t][i]].st = "queued" /\ job[fifo[p][t][i]].q = p
          /\ job[fifo[p][t][i]].slot = t
          /\ \A k \in DOMAIN fifo[p][t] : i < k => job[fifo[p][t][i]].seq < job[fifo[p][t][k]].seq
      BY LinedFacts, Zenon
    <3>3. fifo[p][t][i] # j
      BY <3>2, ZenonT(20)
    <3> QED
      BY <3>1, <3>2, <3>3, Zenon
  <2>3. \A i \in JobIds : job[i].st = "queued" /\ i # j =>
          \E k \in DOMAIN fifo[job[i].q][job[i].slot] : fifo[job[i].q][job[i].slot][k] = i
    BY Zenon DEF Kept
  <2> QED
    BY <2>2, <2>3, Zenon DEF Holds
<1> QED
  BY <1>1, HoldsLined, Zenon

\* The jobs that are left are their client's, and not signalled where jobs
\* complete in order: the one that is done ran before those that wait.
LEMMA DoneAlive ==
  ASSUME TypeOK, OnUnit, Younger, Alive, NEW j \in JobIds, NEW e, DoneJobs(j, e), DonePage(j),
         Orderly(job[j].q) => active[job[j].q] = j /\ job[j].st = "active",
         used[job[j].slot] => CompletedSeq(j) = job[j].seq,
         used' = used, gen' = gen, nextSeq' = nextSeq
  PROVE  Alive'
<1> SUFFICES ASSUME NEW i \in JobIds, Live(i)'
             PROVE  /\ job'[i].gen = gen'[job'[i].slot]
                    /\ job'[i].st = "queued" => used'[job'[i].slot]
                    /\ 0 < job'[i].seq /\ job'[i].seq <= nextSeq'[job'[i].slot][job'[i].q]
                    /\ Orderly(job'[i].q) => completed'[job'[i].slot][job'[i].q] < job'[i].seq
  BY Zenon DEF Alive, Orderly, NoFailure
<1>1. i # j /\ Live(i)
  BY DoneFacts, ZenonT(20)
<1>2. /\ job[i].gen = gen[job[i].slot]
      /\ job[i].st = "queued" => used[job[i].slot]
      /\ 0 < job[i].seq /\ job[i].seq <= nextSeq[job[i].slot][job[i].q]
      /\ Orderly(job[i].q) => completed[job[i].slot][job[i].q] < job[i].seq
  BY <1>1, ZenonT(20) DEF Alive
<1>3. job[i].slot \in Slots /\ job[i].q \in Queues
  BY JobFields, ZenonT(20)
<1>4. ASSUME Orderly(job[i].q)
      PROVE  completed'[job[i].slot][job[i].q] < job[i].seq
  <2>1. CASE ~(job[i].slot = job[j].slot /\ job[i].q = job[j].q)
    BY <1>2, <1>3, <1>4, <2>1, ZenonT(20) DEF DonePage
  <2>2. CASE job[i].slot = job[j].slot /\ job[i].q = job[j].q
    <3>1. active[job[j].q] = j /\ job[j].st = "active"
      BY <1>4, <2>2, ZenonT(20)
    <3>2. job[i].st = "queued"
      <4>1. job[i].st # "active"
        BY <1>1, <2>2, <3>1, ZenonT(20) DEF OnUnit
      <4> QED
        BY <1>1, <4>1, JobFields, ZenonT(20) DEF Live, Jobs
    <3>3. job[j].seq < job[i].seq
      BY <2>2, <3>1, <3>2, ZenonT(20) DEF Younger
    <3>4. used[job[j].slot]
      BY <1>2, <2>2, <3>2, ZenonT(20)
    <3>5. completed'[job[i].slot][job[i].q] = CompletedSeq(j)
      BY <1>3, <2>2 DEF DonePage
    <3> QED
      BY <3>3, <3>4, <3>5, ZenonT(20)
  <2> QED
    BY <2>1, <2>2, ZenonT(20)
<1>5. /\ job'[i].slot = job[i].slot /\ job'[i].q = job[i].q /\ job'[i].seq = job[i].seq
      /\ job'[i].st = job[i].st /\ job'[i].gen = job[i].gen
  BY <1>1, Zenon DEF DoneJobs
<1> QED
  BY <1>2, <1>4, <1>5, ZenonT(20)

\* The jobs that are still linked point at each other.
LEMMA DoneLinked ==
  ASSUME TypeOK, Linked, NEW j \in JobIds, NEW e, DoneJobs(j, e)
  PROVE  Linked'
<1> SUFFICES ASSUME NEW i \in JobIds, job'[i].mate # NoJob
             PROVE  /\ Live(i)' /\ job'[job'[i].mate].mate = i
                    /\ job'[i].q = BIN => job'[job'[i].mate].q = RENDER
  BY Zenon DEF Linked
<1>1. i # j
  BY DoneFacts, ZenonT(20)
<1>2. i # job[j].mate /\ job'[i] = job[i] /\ job[i].mate # NoJob
  BY <1>1, ZenonT(20) DEF DoneJobs
<1>3. /\ Live(i) /\ job[job[i].mate].mate = i
      /\ job[i].q = BIN => job[job[i].mate].q = RENDER
  BY <1>2, Zenon DEF Linked
<1>4. job[i].mate \in JobIds
  BY <1>2, JobFields, ZenonT(20)
<1>5. job[i].mate # j
  BY <1>2, <1>3, ZenonT(20)
<1>6. job[i].mate # job[j].mate
  <2>1. job[j].mate # NoJob => job[job[j].mate].mate = j
    BY Zenon DEF Linked
  <2> QED
    BY <1>1, <1>2, <1>3, <2>1
<1>7. job'[job[i].mate] = job[job[i].mate]
  BY <1>4, <1>5, <1>6, Zenon DEF DoneJobs
<1> QED
  BY <1>2, <1>3, <1>7, Zenon DEF Live

\* Only a failed bin marks its render job, and never one that runs.
LEMMA DoneMarked ==
  ASSUME TypeOK, OnUnit, Linked, Marked, NEW j \in JobIds, NEW e, DoneJobs(j, e), DoneUnit(j),
         NoFailure => ~(e /\ job[j].q = BIN)
  PROVE  Marked'
<1>1. job[j].mate # NoJob =>
        job[job[j].mate].mate = j /\ (job[j].q = BIN => job[job[j].mate].q = RENDER)
  BY Zenon DEF Linked
<1>2. ASSUME NEW i \in JobIds, job'[i].derr
      PROVE  job'[i].q = RENDER /\ ~NoFailure
  <2>1. i # j
    BY <1>2, DoneFacts, Zenon
  <2>2. job'[i].q = job[i].q /\ (job[i].derr \/ (i = job[j].mate /\ e /\ job[j].q = BIN))
    BY <1>2, <2>1, Zenon DEF DoneJobs
  <2>3. CASE job[i].derr
    BY <2>2, <2>3, Zenon DEF Marked
  <2>4. CASE i = job[j].mate /\ e /\ job[j].q = BIN
    BY <1>1, <2>2, <2>4, NoJobFact, Zenon
  <2> QED
    BY <2>2, <2>3, <2>4, Zenon
<1>3. ASSUME active'[RENDER] # NoJob
      PROVE  ~job'[active'[RENDER]].derr /\ job'[active'[RENDER]].mate = NoJob
  <2>1. RENDER \in Queues
    BY QueueFacts, ZenonT(20)
  <2>2. active'[RENDER] = active[RENDER] /\ active[RENDER] # j /\ active[RENDER] # NoJob
    BY <1>3, <2>1, Zenon DEF DoneUnit
  <2>3. active[RENDER] \in JobIds
    BY <2>1, <2>2 DEF TypeOK
  <2>4. ~job[active[RENDER]].derr /\ job[active[RENDER]].mate = NoJob
    BY <2>2, Zenon DEF Marked
  <2>5. active[RENDER] # job[j].mate
    BY <1>1, <2>2, <2>4, NoJobFact, ZenonT(20)
  <2>6. job'[active[RENDER]] = job[active[RENDER]]
    BY <2>2, <2>3, <2>5, Zenon DEF DoneJobs
  <2> QED
    BY <2>2, <2>4, <2>6, Zenon
<1> QED
  BY <1>2, <1>3, Zenon DEF Marked

\* Where nothing fails, the fences of a dead client's running job are published
\* with it, and no signalled fence is taken back.
LEMMA DoneSound ==
  ASSUME TypeOK, OnUnit, Closing, Sound, NEW j \in JobIds, NEW e, DoneJobs(j, e), DoneUnit(j),
         DonePage(j), NoFailure, at' = "event", closing = -1, closing' = -1, late' \subseteq late,
         active[job[j].q] = j, CompletedSeq(j) \in Nat,
         CompletedSeq(j) <= nextSeq[job[j].slot][job[j].q],
         ~used[job[j].slot] => deadFlush[job[j].slot][job[j].q] <= CompletedSeq(j),
         completed[job[j].slot][job[j].q] < CompletedSeq(j),
         used' = used, gen' = gen, nextSeq' = nextSeq, deadFlush' = deadFlush
  PROVE  Sound'
<1>0. job[j].slot \in Slots /\ job[j].q \in Queues
  BY JobFields, ZenonT(20)
<1>1. /\ late \subseteq {CPU}
      /\ \A s \in Slots, q \in Queues : ~used[s] =>
           IF ActiveOf(s, q) THEN deadFlush[s][q] = nextSeq[s][q]
           ELSE completed[s][q] = nextSeq[s][q]
      /\ \A i \in JobIds : Live(i) => \A f \in job[i].deps : f.gen <= gen[f.slot]
      /\ \A i \in JobIds : job[i].st = "active" => \A f \in job[i].deps : Signaled(f)
  BY Zenon DEF Sound
<1>2. at' # "wedge" /\ late' \subseteq {CPU}
  BY <1>1, ZenonT(20)
<1>3. ASSUME NEW t \in Slots, NEW p \in Queues, ~used'[t] \/ closing' = t
      PROVE  IF ActiveOf(t, p)' THEN deadFlush'[t][p] = nextSeq'[t][p]
             ELSE completed'[t][p] = nextSeq'[t][p]
  <2>1. ~used[t]
    BY <1>3, SlotFact, ZenonT(20)
  <2>2. IF ActiveOf(t, p) THEN deadFlush[t][p] = nextSeq[t][p]
        ELSE completed[t][p] = nextSeq[t][p]
    BY <1>1, <2>1, Zenon
  <2>3. CASE p = job[j].q
    <3>1. ActiveOf(t, p) <=> t = job[j].slot
      BY <2>3, NoJobFact, ZenonT(20) DEF ActiveOf
    <3>2. ~ActiveOf(t, p)'
      BY <1>0, <2>3, ZenonT(20) DEF ActiveOf, DoneUnit
    <3>3. CASE t = job[j].slot
      <4>1. deadFlush[t][p] = nextSeq[t][p]
        BY <2>2, <3>1, <3>3, Zenon
      <4>2. nextSeq[t][p] \in Nat
        BY StateFields, ZenonT(20)
      <4>3. CompletedSeq(j) = nextSeq[t][p]
        BY <2>1, <2>3, <3>3, <4>1, <4>2
      <4>4. completed'[t][p] = CompletedSeq(j)
        BY <2>3, <3>3, ZenonT(20) DEF DonePage
      <4> QED
        BY <3>2, <4>3, <4>4, ZenonT(20)
    <3>4. CASE t # job[j].slot
      <4>1. completed'[t][p] = completed[t][p]
        BY <3>4, ZenonT(20) DEF DonePage
      <4> QED
        BY <2>2, <3>1, <3>2, <3>4, <4>1, ZenonT(20)
    <3> QED
      BY <3>3, <3>4, ZenonT(20)
  <2>4. CASE p # job[j].q
    <3>1. active[p] # NoJob => job[active[p]].q = p
      BY Zenon DEF OnUnit
    <3>2. active[p] # j
      BY <2>4, <3>1, NoJobFact, ZenonT(20)
    <3>3. active'[p] = active[p]
      BY <3>2, ZenonT(20) DEF DoneUnit
    <3>4. active[p] # NoJob => active[p] \in JobIds /\ job'[active[p]].slot = job[active[p]].slot
      <4>1. active[p] \in JobIds \cup {NoJob}
        BY ZenonT(20) DEF TypeOK
      <4> QED
        BY <3>2, <4>1, DoneFacts, ZenonT(20)
    <3>5. ActiveOf(t, p)' <=> ActiveOf(t, p)
      BY <3>3, <3>4, ZenonT(20) DEF ActiveOf
    <3>6. completed'[t][p] = completed[t][p]
      BY <2>4, ZenonT(20) DEF DonePage
    <3> QED
      BY <2>2, <3>5, <3>6, ZenonT(20)
  <2> QED
    BY <2>3, <2>4, ZenonT(20)
<1>4. ASSUME NEW f \in Fence, Signaled(f)
      PROVE  Signaled(f)'
  <2>1. f.slot \in Slots /\ f.q \in Queues /\ f.seq \in Nat
    BY ZenonT(20) DEF Fence
  <2>2. completed[f.slot][f.q] \in Nat
    BY <2>1, ZenonT(20) DEF TypeOK
  <2>3. completed'[f.slot][f.q] \in Nat /\ completed[f.slot][f.q] <= completed'[f.slot][f.q]
    BY <2>1, <2>2 DEF DonePage
  <2> QED
    BY <1>4, <2>1, <2>2, <2>3 DEF Signaled
<1>5. ASSUME NEW i \in JobIds, Live(i)'
      PROVE  \A f \in job'[i].deps : f.gen <= gen'[f.slot]
  <2>1. i # j /\ Live(i)
    BY <1>5, DoneFacts, ZenonT(20)
  <2>2. job'[i].deps = job[i].deps
    BY <2>1, Zenon DEF DoneJobs
  <2> QED
    BY <1>1, <2>1, <2>2, Zenon
<1>6. ASSUME NEW i \in JobIds, job'[i].st = "active", NEW f \in job'[i].deps
      PROVE  Signaled(f)'
  <2>1. i # j /\ job[i].st = "active"
    BY <1>6, DoneFacts, ZenonT(20)
  <2>2. job'[i].deps = job[i].deps
    BY <2>1, Zenon DEF DoneJobs
  <2>3. Signaled(f) /\ f \in Fence
    BY <1>1, <1>6, <2>1, <2>2, JobFields, ZenonT(20)
  <2> QED
    BY <1>4, <2>3, ZenonT(20)
<1> QED
  BY <1>2, <1>3, <1>5, <1>6, Zenon DEF Sound

\* A job leaves its unit, or the head of a FIFO that is not orderly.
LEMMA DoneFence ==
  ASSUME FenceInv, TypeOK', NEW j \in JobIds, NEW e \in BOOLEAN, JobDone(j, e),
         UNCHANGED <<slotVars, gseq, at, ret, wret, closing>>,
         \/ active[job[j].q] = j /\ fifo' = fifo
         \/ ~Orderly(job[j].q) /\ job[j].st = "queued" /\ Holds(fifo', j),
         at # "kick", NoFailure => at = "event" /\ (e => job[j].q # BIN)
  PROVE  FenceInv'
<1>0. /\ TypeOK /\ Fresh /\ Lined /\ Kept /\ OnUnit /\ Younger /\ Counted
      /\ Alive /\ Issued /\ Linked /\ Marked /\ Closing /\ Sound
  BY Zenon DEF FenceInv
<1> DEFINE s == job[j].slot
           q == job[j].q
<1>1. s \in Slots /\ q \in Queues
  BY <1>0, JobFields, ZenonT(20)
<1>2. /\ active' = (IF active[q] = j THEN [active EXCEPT ![q] = NoJob] ELSE active)
      /\ nbusy' = (IF active[q] = j /\ q \in HwQueues THEN nbusy - 1 ELSE nbusy)
      /\ late' \subseteq late
      /\ completed' = [completed EXCEPT ![s][q] = CompletedSeq(j)]
      /\ job' = Unlinked(j, e)
  BY ZenonT(20) DEF JobDone, FenceComplete
<1>3. /\ used' = used /\ gen' = gen /\ nextSeq' = nextSeq /\ deadFlush' = deadFlush /\ gseq' = gseq
      /\ at' = at /\ ret' = ret /\ wret' = wret /\ closing' = closing
  BY ZenonT(20) DEF slotVars
<1>4. DoneJobs(j, e)
  BY <1>0, <1>2, DoneFields, Zenon
<1>5. active[q] = j => job[j].st = "active"
  BY <1>0, <1>1, NoJobFact, ZenonT(20) DEF OnUnit
<1>7. /\ (job[j].st = "active" /\ fifo' = fifo) \/ Holds(fifo', j)
      /\ job[j].st = "active" \/ job[j].st = "queued"
  BY <1>5, Zenon
<1>8. Live(j)
  BY <1>7 DEF Live
<1>9. Orderly(q) => active[q] = j /\ job[j].st = "active"
  BY <1>5, Zenon
<1>10. DonePage(j)
  <2>1. completed \in [Slots -> [Queues -> Nat]]
    BY <1>0, ZenonT(20) DEF TypeOK
  <2> QED
    BY <1>1, <1>2, <2>1, ZenonT(20) DEF DonePage
<1>11. DoneUnit(j)
  <2>1. \A p \in Queues : active[p] = j => p = q
    BY <1>0, NoJobFact, Zenon DEF OnUnit
  <2>2. active \in [Queues -> JobIds \cup {NoJob}]
    BY <1>0, ZenonT(20) DEF TypeOK
  <2> QED
    BY <1>1, <1>2, <2>1, <2>2, ZenonT(20) DEF DoneUnit
<1> HIDE DEF s, q
<1>12. /\ CompletedSeq(j) \in Nat /\ CompletedSeq(j) <= nextSeq[s][q]
       /\ used[s] => CompletedSeq(j) = job[j].seq
       /\ ~used[s] => deadFlush[s][q] <= CompletedSeq(j)
       /\ Orderly(q) => completed[s][q] < CompletedSeq(j)
  BY <1>8, CompletedFacts, Zenon DEF s, q
<1>13. Fresh'
  BY <1>0, <1>3, <1>4, <1>8, DoneFresh, Zenon
<1>14. OnUnit'
  BY <1>0, <1>4, <1>11, DoneOnUnit, Zenon
<1>15. Younger'
  BY <1>0, <1>4, DoneYounger, Zenon
<1>16. Lined' /\ Kept'
  BY <1>0, <1>4, <1>7, DoneLined, Zenon
<1>17. Alive'
  BY <1>0, <1>3, <1>4, <1>9, <1>10, <1>12, DoneAlive, Zenon DEF s, q
<1>18. Linked'
  BY <1>0, <1>4, DoneLinked, Zenon
<1>19. Marked'
  BY <1>0, <1>4, <1>11, DoneMarked, Zenon
<1>20. Counted'
  <2>1. CASE active[q] = j
    <3>1. active[q] # NoJob /\ active'[q] = NoJob
      BY <1>1, <1>11, <2>1, NoJobFact, ZenonT(20) DEF DoneUnit
    <3>2. \A p \in HwQueues : p # q => active'[p] = active[p]
      BY <1>0, <1>2 DEF TypeOK
    <3>3. nbusy' = IF q \in HwQueues THEN nbusy - 1 ELSE nbusy
      BY <1>2, <2>1, ZenonT(20)
    <3> QED
      BY <1>0, <3>1, <3>2, <3>3, CountFacts, Zenon
  <2>2. CASE active[q] # j
    <3>1. active' = active /\ nbusy' = nbusy
      BY <1>2, <2>2, Zenon
    <3> QED
      BY <1>0, <3>1, Zenon DEF Counted, Busy
  <2> QED
    BY <2>1, <2>2, ZenonT(20)
<1>21. Issued'
  <2> SUFFICES ASSUME NEW t \in Slots, NEW p \in Queues
               PROVE  completed'[t][p] <= nextSeq'[t][p] /\ deadFlush'[t][p] <= nextSeq'[t][p]
    BY Zenon DEF Issued
  <2>1. completed[t][p] <= nextSeq[t][p] /\ deadFlush[t][p] <= nextSeq[t][p]
    BY <1>0, Zenon DEF Issued
  <2>2. completed'[t][p] = IF t = s /\ p = q THEN CompletedSeq(j) ELSE completed[t][p]
    BY <1>10, Zenon DEF DonePage, s, q
  <2> QED
    BY <1>3, <1>12, <2>1, <2>2, ZenonT(20)
<1>22. Reaped'
  BY <1>3, ZenonT(20) DEF Reaped
<1>23. Closing'
  <2>1. \A i \in JobIds : job'[i].st = "queued" => job[i].st = "queued" /\ job'[i].slot = job[i].slot
    BY <1>4, DoneFacts, ZenonT(20)
  <2> QED
    BY <1>0, <1>3, <2>1, Zenon DEF Closing
<1>24. ASSUME NoFailure
       PROVE  Sound'
  <2>1. at' = "event" /\ closing = -1 /\ closing' = -1
    BY <1>0, <1>3, <1>24, ZenonT(20) DEF Closing
  <2>2. Orderly(q)
    BY <1>24, Zenon DEF Orderly
  <2>3. active[q] = j /\ completed[s][q] < CompletedSeq(j)
    BY <1>9, <1>12, <2>2, Zenon
  <2>4. late' \subseteq late
    BY <1>2, Zenon
  <2> QED
    BY <1>0, <1>3, <1>4, <1>10, <1>11, <1>12, <1>24, <2>1, <2>3, <2>4, DoneSound, Zenon DEF s, q
<1>25. Sound'
  BY <1>24, Zenon DEF Sound, NoFailure
<1> QED
  BY <1>13, <1>14, <1>15, <1>16, <1>17, <1>18, <1>19, <1>20, <1>21, <1>22, <1>23, <1>25, Zenon DEF FenceInv

\* The steps that end a job: done bits, the clock, a reset and the reaping of
\* renders whose bin failed.
LEMMA EndsFence ==
  ASSUME FenceInv, TypeOK',
         \/ \E q \in HwQueues : WedgeStep(q) \/ \E e \in BOOLEAN : EvDone(q, e)
         \/ TickCpu \/ TickTfuIdle
         \/ \E q \in Queues, s \in Slots : Reap(q, s)
  PROVE  FenceInv'
<1>0. TypeOK /\ TypeOK'
  BY ZenonT(20) DEF FenceInv
<1>1. ASSUME NEW q \in Queues, active[q] # NoJob
      PROVE  active[q] \in JobIds /\ job[active[q]].q = q
  BY <1>0, <1>1, ZenonT(20) DEF TypeOK, FenceInv, OnUnit
<1>2. NoFailure => at # "wedge"
  BY ZenonT(20) DEF FenceInv, Sound
<1>3. ASSUME NEW q \in HwQueues, WedgeStep(q)
      PROVE  FenceInv'
  <2>1. /\ active[q] \in JobIds /\ active[job[active[q]].q] = active[q] /\ JobDone(active[q], TRUE)
        /\ UNCHANGED <<slotVars, fifo, gseq, at, ret, wret, closing>> /\ at = "wedge"
    BY <1>1, <1>3, QueueFacts, ZenonT(30) DEF WedgeStep, pcVars
  <2> QED
    BY <1>0, <1>2, <2>1, DoneFence, ZenonT(30)
<1>4. ASSUME NEW q \in HwQueues, NEW e \in BOOLEAN, EvDone(q, e)
      PROVE  FenceInv'
  <2>1. /\ active[q] \in JobIds /\ active[job[active[q]].q] = active[q] /\ JobDone(active[q], e)
        /\ UNCHANGED <<slotVars, fifo, gseq, at, ret, wret, closing>> /\ at = "event"
        /\ e => job[active[q]].q # BIN
    BY <1>1, <1>4, QueueFacts, ZenonT(20) DEF EvDone, EvNext
  <2> QED
    BY <1>0, <2>1, DoneFence, ZenonT(20)
<1>5. ASSUME NEW q \in {CPU, TFU}, Ticking, active[q] # NoJob, JobDone(active[q], FALSE),
             UNCHANGED <<slotVars, fifo, pcVars, gseq>>
      PROVE  FenceInv'
  <2>1. /\ active[q] \in JobIds /\ active[job[active[q]].q] = active[q]
        /\ UNCHANGED <<slotVars, fifo, gseq, at, ret, wret, closing>> /\ at = "event"
    BY <1>1, <1>5, QueueFacts, ZenonT(20) DEF Ticking, pcVars
  <2> QED
    BY <1>0, <1>5, <2>1, DoneFence, ZenonT(30)
<1>6. CASE TickCpu \/ TickTfuIdle
  BY <1>5, <1>6, ZenonT(30) DEF TickCpu, TickTfuIdle
<1>7. ASSUME NEW q \in Queues, NEW s \in Slots, Reap(q, s)
      PROVE  FenceInv'
  <2>1. fifo[q][s] # <<>> /\ Reapable(q, s) /\ JobDone(Head(fifo[q][s]), TRUE) /\ fifo' = Popped(q, s)
    BY <1>7, Zenon DEF Reap, Reapable, ReadyHead
  <2>2. PICK j : j = Head(fifo[q][s])
    BY ZenonT(20)
  <2>3. Lined /\ Kept
    BY Zenon DEF FenceInv
  <2>4. Holds(fifo', j) /\ j \in JobIds /\ job[j].st = "queued" /\ job[j].q = q /\ job[j].slot = s
    <3>1. /\ Holds(Popped(q, s), Head(fifo[q][s])) /\ Head(fifo[q][s]) \in JobIds
          /\ job[Head(fifo[q][s])].st = "queued" /\ job[Head(fifo[q][s])].q = q
          /\ job[Head(fifo[q][s])].slot = s
      BY <1>0, <2>1, <2>3, PopHolds, ZenonT(30)
    <3> QED
      BY <2>1, <2>2, <3>1, ZenonT(30)
  <2>5. job[j].derr
    BY <2>1, <2>2, Zenon DEF Reapable
  <2>6. ~Orderly(q) /\ ~NoFailure
    BY <2>4, <2>5, Zenon DEF FenceInv, Marked, Orderly
  <2>7. UNCHANGED <<slotVars, gseq, at, ret, wret, closing>> /\ at = "sched"
    BY <1>7 DEF Reap, pcVars
  <2>8. at # "kick"
    BY <2>7, ZenonT(20)
  <2> QED
    BY <1>0, <2>1, <2>2, <2>4, <2>6, <2>7, <2>8, DoneFence, Zenon
<1> QED
  BY <1>3, <1>4, <1>6, <1>7, ZenonT(20)

-----------------------------------------------------------------------------
(* Type correctness                                                        *)

\* The new job record is a job.
LEMMA NewJobType ==
  ASSUME TypeOK, NEW s \in Slots, NEW q \in Queues, NEW D \in SUBSET Fence,
         NEW m \in JobIds \cup {NoJob}
  PROVE  NewJob(s, q, D, m) \in Jobs
<1>1. gen[s] \in Nat
  BY ZenonT(20) DEF TypeOK
<1>2. nextSeq[s][q] \in Nat
  BY DEF TypeOK
<1>3. nextSeq[s][q] + 1 \in Nat
  BY <1>2, Counters, ZenonT(20)
<1>. QED  BY <1>1, <1>3, ZenonT(20) DEF NewJob, Jobs

\* What JobDone assigns has its type.
LEMMA JobDoneType ==
  ASSUME TypeOK, NEW j \in JobIds, NEW e \in BOOLEAN, JobDone(j, e)
  PROVE  /\ active' \in [Queues -> JobIds \cup {NoJob}]
         /\ nbusy' \in Int
         /\ late' \in SUBSET Queues
         /\ hwSub' \in [Queues -> Nat]
         /\ hwDone' \in [Queues -> Nat]
         /\ job' \in [JobIds -> Jobs]
         /\ completed' \in [Slots -> [Queues -> Nat]]
         /\ errorSeq' \in [Slots -> Queues \X Nat]
<1>. DEFINE s == job[j].slot
            q == job[j].q
<1>1. /\ q \in Queues /\ s \in Slots /\ job[j].seq \in Nat
  BY ZenonT(20) DEF TypeOK, Jobs
<1>2. deadFlush[s][q] \in Nat
  BY <1>1, ZenonT(20) DEF TypeOK
<1>3. CompletedSeq(j) \in Nat
  BY <1>1, <1>2, ZenonT(20) DEF CompletedSeq
<1>4. job' \in [JobIds -> Jobs]
  <2>1. job' = Unlinked(j, e)
    BY ZenonT(20) DEF JobDone
  <2>2. ASSUME NEW i \in JobIds
        PROVE  [job[i] EXCEPT !.mate = NoJob,
                              !.derr = @ \/ (e /\ job[j].q = BIN)] \in Jobs
    <3>1. job[i] \in Jobs
      BY ZenonT(20) DEF TypeOK
    <3>2. (job[i].derr \/ (e /\ job[j].q = BIN)) \in BOOLEAN
      BY Zenon
    <3>. QED  BY <3>1, <3>2, ZenonT(20) DEF Jobs, NoJob
  <2>. QED  BY <2>1, <2>2, FreeJobType, ZenonT(20) DEF Unlinked, TypeOK
<1>5. completed' \in [Slots -> [Queues -> Nat]]
  BY <1>1, <1>3, ZenonT(20) DEF JobDone, FenceComplete, TypeOK
<1>6. errorSeq' \in [Slots -> Queues \X Nat]
  BY <1>1, <1>3, ZenonT(20) DEF JobDone, FenceComplete, TypeOK
<1>7. hwDone' \in [Queues -> Nat]
  <2>1. hwDone[q] \in Nat
    BY <1>1, ZenonT(20) DEF TypeOK
  <2>2. hwDone[q] + 1 \in Nat
    BY <2>1
  <2>. QED  BY <1>1, <2>2, ZenonT(20) DEF JobDone, FenceComplete, TypeOK
<1>8. hwSub' \in [Queues -> Nat]
  <2>1. hwSub[q] \in Nat
    BY <1>1, ZenonT(20) DEF TypeOK
  <2>2. hwSub[q] + 1 \in Nat
    BY <2>1, Counters, ZenonT(20)
  <2>. QED  BY <1>1, <2>2, ZenonT(20) DEF JobDone, CountedSubmit, TypeOK
<1>9. active' \in [Queues -> JobIds \cup {NoJob}]
  BY <1>1, ZenonT(20) DEF JobDone, TypeOK, NoJob
<1>10. nbusy' \in Int
  <2>1. nbusy' = nbusy \/ nbusy' = nbusy - 1
    BY ZenonT(20) DEF JobDone
  <2>2. nbusy \in Int
    BY Zenon DEF TypeOK
  <2>. QED  BY <2>1, <2>2, Counters, ZenonT(20)
<1>11. late' \in SUBSET Queues
  BY ZenonT(20) DEF JobDone, TypeOK
<1>. QED  BY <1>4, <1>5, <1>6, <1>7, <1>8, <1>9, <1>10, <1>11, ZenonT(20)

\* What Kick assigns has its type.
LEMMA KickType ==
  ASSUME TypeOK, NEW q \in Queues, NEW s \in Slots, fifo[q][s] # <<>>, Kick(q, s)
  PROVE  /\ fifo' \in [Queues -> [Slots -> Seq(JobIds)]]
         /\ pending' \in [Queues -> Int]
         /\ active' \in [Queues -> JobIds \cup {NoJob}]
         /\ job' \in [JobIds -> Jobs]
         /\ hwSub' \in [Queues -> Nat]
         /\ nbusy' \in Int
<1>. DEFINE j == Head(fifo[q][s])
<1>1. fifo[q][s] \in Seq(JobIds)
  BY ZenonT(20) DEF TypeOK
<1>2. j \in JobIds /\ Tail(fifo[q][s]) \in Seq(JobIds)
  BY <1>1, HeadType, Zenon
<1>3. fifo' \in [Queues -> [Slots -> Seq(JobIds)]]
  BY <1>2, ZenonT(20) DEF Kick, Popped, TypeOK
<1>4. pending' \in [Queues -> Int]
  <2>1. pending[q] \in Int
    BY ZenonT(20) DEF TypeOK
  <2>2. pending[q] - 1 \in Int
    BY <2>1
  <2>. QED  BY <2>2, ZenonT(20) DEF Kick, TypeOK
<1>5. active' \in [Queues -> JobIds \cup {NoJob}]
  BY <1>2, ZenonT(20) DEF Kick, TypeOK
<1>6. job' \in [JobIds -> Jobs]
  <2>1. job[j] \in Jobs
    BY <1>2, ZenonT(20) DEF TypeOK
  <2>2. [job[j] EXCEPT !.st = "active"] \in Jobs
    BY <2>1, ZenonT(20) DEF Jobs
  <2>3. job' = [job EXCEPT ![j] = [job[j] EXCEPT !.st = "active"]]
    BY ZenonT(20) DEF Kick
  <2>. QED  BY <1>2, <2>2, <2>3, ZenonT(20) DEF TypeOK
<1>7. hwSub' \in [Queues -> Nat]
  <2>1. hwSub[q] \in Nat
    BY ZenonT(20) DEF TypeOK
  <2>2. hwSub[q] + 1 \in Nat
    BY <2>1, Counters, ZenonT(20)
  <2>. QED  BY <2>2, ZenonT(20) DEF Kick, TypeOK
<1>8. nbusy' \in Int
  <2>1. nbusy' = nbusy \/ nbusy' = nbusy + 1
    BY ZenonT(20) DEF Kick
  <2>2. nbusy \in Int
    BY Zenon DEF TypeOK
  <2>. QED  BY <2>1, <2>2, Counters, ZenonT(20)
<1>. QED  BY <1>3, <1>4, <1>5, <1>6, <1>7, <1>8, ZenonT(20)

\* The initial state is well typed.
LEMMA InitType == Init => TypeOK
<1>. SUFFICES ASSUME Init PROVE TypeOK
  BY ZenonT(20)
<1>1. job \in [JobIds -> Jobs]
  BY FreeJobType, ZenonT(20) DEF Init
<1>2. fifo \in [Queues -> [Slots -> Seq(JobIds)]]
  BY DEF Init
<1>3. /\ nextSeq \in [Slots -> [Queues -> Nat]]
      /\ completed \in [Slots -> [Queues -> Nat]]
      /\ deadFlush \in [Slots -> [Queues -> Nat]]
  BY ZenonT(20) DEF Init
<1>4. errorSeq \in [Slots -> Queues \X Nat]
  BY ZenonT(20) DEF Init, Queues, HwQueues, BIN
<1>5. /\ gseq \in 0 .. MaxJobs
      /\ rr \in [Queues -> 0 .. NSlots]
      /\ mode \in AllModes
  BY SchedAssumption DEF Init
<1>. QED  BY <1>1, <1>2, <1>3, <1>4, <1>5 DEF Init, TypeOK

\* The in-fences a submit can name are fences.
LEMMA DepSetsType ==
  ASSUME TypeOK
  PROVE  /\ PendingFences \subseteq Fence
         /\ \A D \in DepSets : D \in SUBSET PendingFences
         /\ \A D \in RenderDepSets : D \in SUBSET PendingFences
<1>1. PendingFences \subseteq Fence
  <2>. SUFFICES ASSUME NEW s \in Slots, NEW q \in Queues,
                       NEW n \in completed[s][q] + 1 .. nextSeq[s][q]
                PROVE  [slot |-> s, q |-> q, gen |-> gen[s], seq |-> n] \in Fence
    BY DEF PendingFences
  <2>1. completed[s][q] \in Nat /\ gen[s] \in Nat
    BY ZenonT(20) DEF TypeOK
  <2>2. n \in Nat
    BY <2>1
  <2>. QED  BY <2>1, <2>2, ZenonT(20) DEF Fence
<1>. QED  BY <1>1, ZenonT(20) DEF DepSets, RenderDepSets

\* Requests keep the types.
LEMMA OpenType == ASSUME TypeOK, NEW s \in Slots, Open(s) PROVE TypeOK'
<1>1. gen[s] \in Nat
  BY ZenonT(20) DEF TypeOK
<1>2. gen[s] + 1 \in Nat
  BY <1>1
<1>3. gen' \in [Slots -> Nat] /\ used' \in [Slots -> BOOLEAN]
  BY <1>2, ZenonT(20) DEF Open, TypeOK
<1>4. /\ nextSeq' \in [Slots -> [Queues -> Nat]]
      /\ completed' \in [Slots -> [Queues -> Nat]]
      /\ deadFlush' \in [Slots -> [Queues -> Nat]]
  BY ZenonT(20) DEF Open, TypeOK
<1>5. errorSeq' \in [Slots -> Queues \X Nat]
  BY ZenonT(20) DEF Open, TypeOK, Queues, HwQueues, BIN
<1>. QED  BY <1>3, <1>4, <1>5, ZenonT(20) DEF Open, TypeOK, jobVars, hwVars, pcVars

\* So does a close.
LEMMA CloseBeginType == ASSUME TypeOK, NEW s \in Slots, CloseBegin(s) PROVE TypeOK'
<1>1. fifo' \in [Queues -> [Slots -> Seq(JobIds)]]
  BY DEF CloseBegin, TypeOK
<1>2. pending' \in [Queues -> Int]
  <2>1. ASSUME NEW q \in Queues PROVE pending[q] - Len(fifo[q][s]) \in Int
    <3>1. pending[q] \in Int /\ fifo[q][s] \in Seq(JobIds)
      BY ZenonT(20) DEF TypeOK
    <3>2. Len(fifo[q][s]) \in Nat
      BY <3>1
    <3>. QED  BY <3>1, <3>2
  <2>. QED  BY <2>1, ZenonT(20) DEF CloseBegin
<1>3. job' \in [JobIds -> Jobs]
  <2>1. ASSUME NEW j \in JobIds PROVE [job[j] EXCEPT !.mate = NoJob] \in Jobs
    <3>1. job[j] \in Jobs
      BY ZenonT(20) DEF TypeOK
    <3>. QED  BY <3>1, ZenonT(20) DEF Jobs, NoJob
  <2>. QED  BY <2>1, FreeJobType, ZenonT(20) DEF CloseBegin, TypeOK
<1>4. deadFlush' \in [Slots -> [Queues -> Nat]]
  BY ZenonT(20) DEF CloseBegin, TypeOK
<1>5. completed' \in [Slots -> [Queues -> Nat]]
  <2>1. completed[s] \in [Queues -> Nat] /\ nextSeq[s] \in [Queues -> Nat]
    BY ZenonT(20) DEF TypeOK
  <2>2. [q \in Queues |-> IF FlushNow(s, q) THEN nextSeq[s][q] ELSE completed[s][q]]
          \in [Queues -> Nat]
    BY <2>1, ZenonT(20)
  <2>. QED  BY <2>2, ZenonT(20) DEF CloseBegin, TypeOK
<1>6. errorSeq' \in [Slots -> Queues \X Nat]
  <2>. DEFINE P(q) == /\ FlushNow(s, q)
                      /\ \A p \in Queues : FlushNow(s, p) => p <= q
              c == CHOOSE q \in Queues : P(q)
  <2>1. CASE \E q \in Queues : FlushNow(s, q)
    <3>1. \E q \in Queues : P(q)
      <4>1. Queues = {0, 1, 2, 3, 5}
        BY ZenonT(20) DEF Queues, HwQueues, BIN, RENDER, TFU, CSD, CPU
      <4>2. CASE FlushNow(s, 5)  BY <4>1, <4>2
      <4>3. CASE ~FlushNow(s, 5) /\ FlushNow(s, 3)  BY <4>1, <4>3
      <4>4. CASE ~FlushNow(s, 5) /\ ~FlushNow(s, 3) /\ FlushNow(s, 2)  BY <4>1, <4>4
      <4>5. CASE ~FlushNow(s, 5) /\ ~FlushNow(s, 3) /\ ~FlushNow(s, 2) /\ FlushNow(s, 1)
        BY <4>1, <4>5
      <4>6. CASE ~FlushNow(s, 5) /\ ~FlushNow(s, 3) /\ ~FlushNow(s, 2) /\ ~FlushNow(s, 1)
        BY <4>1, <4>6, <2>1
      <4>. QED  BY <4>2, <4>3, <4>4, <4>5, <4>6, ZenonT(20)
    <3>2. c \in Queues
      BY <3>1, ZenonT(20)
    <3>3. nextSeq[s][c] \in Nat
      BY <3>2 DEF TypeOK
    <3>4. errorSeq' = [errorSeq EXCEPT ![s] = <<c, nextSeq[s][c]>>]
      BY <2>1, ZenonT(20) DEF CloseBegin
    <3>. HIDE DEF c
    <3>5. <<c, nextSeq[s][c]>> \in Queues \X Nat
      BY <3>2, <3>3, ZenonT(20)
    <3>. QED  BY <3>4, <3>5, ZenonT(20) DEF TypeOK
  <2>2. CASE ~\E q \in Queues : FlushNow(s, q)
    <3>1. errorSeq' = [errorSeq EXCEPT ![s] = @]
      BY <2>2, ZenonT(20) DEF CloseBegin
    <3>. QED  BY <3>1, ZenonT(20) DEF TypeOK
  <2>. QED  BY <2>1, <2>2, ZenonT(20)
<1>. QED  BY <1>1, <1>2, <1>3, <1>4, <1>5, <1>6, ZenonT(20) DEF CloseBegin, TypeOK, hwVars

\* So does a submit of one job.
LEMMA SubmitOneType ==
  ASSUME TypeOK, NEW s \in Slots, NEW op \in Ops \ {"CL", "SELFTEST"},
         NEW D \in SUBSET PendingFences, SubmitOne(s, op, D)
  PROVE  TypeOK'
<1>. DEFINE q == OpQueue[op]
            j == gseq + 1
<1>1. q \in Queues
  <2>1. op \in {"RCL", "TFU", "CSD", "NOP", "JOIN"}
    BY SchedAssumption, ZenonT(20) DEF AllOps
  <2>. QED  BY <2>1 DEF OpQueue, Queues, HwQueues
<1>2. j \in JobIds /\ gseq' \in 0 .. MaxJobs
  BY SchedAssumption DEF SubmitOne, TypeOK, JobIds
<1>3. NewJob(s, q, D, NoJob) \in Jobs
  <2>1. D \in SUBSET Fence /\ NoJob \in JobIds \cup {NoJob}
    BY DepSetsType, ZenonT(20)
  <2>. QED  BY <1>1, <2>1, NewJobType, ZenonT(20)
<1>. HIDE DEF q, j
<1>4. job' \in [JobIds -> Jobs]
  BY <1>2, <1>3, ZenonT(20) DEF SubmitOne, TypeOK, q, j
<1>5. nextSeq' \in [Slots -> [Queues -> Nat]]
  <2>1. nextSeq[s][q] \in Nat
    BY <1>1, ZenonT(20) DEF TypeOK
  <2>2. nextSeq[s][q] + 1 \in Nat
    BY <2>1, Counters, ZenonT(20)
  <2>3. nextSeq' = [nextSeq EXCEPT ![s][q] = @ + 1]
    BY ZenonT(20) DEF SubmitOne, q
  <2>. QED  BY <1>1, <2>2, <2>3, ZenonT(20) DEF TypeOK
<1>6. fifo' \in [Queues -> [Slots -> Seq(JobIds)]]
  <2>1. fifo[q][s] \in Seq(JobIds)
    BY <1>1 DEF TypeOK
  <2>2. Append(fifo[q][s], j) \in Seq(JobIds)
    BY <1>2, <2>1, AppendType, ZenonT(20)
  <2>3. fifo' = [fifo EXCEPT ![q][s] = Append(@, j)]
    BY ZenonT(20) DEF SubmitOne, q, j
  <2>. QED  BY <1>1, <2>2, <2>3, ZenonT(20) DEF TypeOK
<1>7. pending' \in [Queues -> Int]
  <2>1. pending[q] \in Int
    BY <1>1, ZenonT(20) DEF TypeOK
  <2>2. pending[q] + 1 \in Int
    BY <2>1, Counters, ZenonT(20)
  <2>3. pending' = [pending EXCEPT ![q] = @ + 1]
    BY ZenonT(20) DEF SubmitOne, q
  <2>. QED  BY <1>1, <2>2, <2>3, ZenonT(20) DEF TypeOK
<1>. QED  BY <1>2, <1>4, <1>5, <1>6, <1>7, ZenonT(20) DEF SubmitOne, TypeOK, pageVars, hwVars

\* So does a submit of a CL.
LEMMA SubmitCLType ==
  ASSUME TypeOK, NEW s \in Slots, NEW D \in SUBSET PendingFences,
         NEW R \in SUBSET PendingFences, SubmitCL(s, D, R)
  PROVE  TypeOK'
<1>. DEFINE bj == gseq + 1
            rj == gseq + 2
<1>0. BIN \in Queues /\ RENDER \in Queues /\ BIN # RENDER
  BY QueueFacts, ZenonT(20)
<1>1. bj \in JobIds /\ rj \in JobIds /\ gseq' \in 0 .. MaxJobs /\ bj # rj
  BY SchedAssumption DEF SubmitCL, TypeOK, JobIds
<1>2. NewJob(s, BIN, D, rj) \in Jobs /\ NewJob(s, RENDER, R, bj) \in Jobs
  <2>1. D \in SUBSET Fence /\ R \in SUBSET Fence
    BY DepSetsType, ZenonT(20)
  <2>. QED  BY <1>0, <1>1, <2>1, NewJobType, ZenonT(20)
<1>. HIDE DEF bj, rj
<1>3. job' \in [JobIds -> Jobs]
  <2>1. job' = [job EXCEPT ![bj] = NewJob(s, BIN, D, rj), ![rj] = NewJob(s, RENDER, R, bj)]
    BY ZenonT(20) DEF SubmitCL, bj, rj
  <2>. QED  BY <1>1, <1>2, <2>1, ZenonT(20) DEF TypeOK
<1>4. nextSeq' \in [Slots -> [Queues -> Nat]]
  <2>1. nextSeq[s] \in [Queues -> Nat]
    BY ZenonT(20) DEF TypeOK
  <2>2. nextSeq[s][BIN] + 1 \in Nat /\ nextSeq[s][RENDER] + 1 \in Nat
    BY <1>0, <2>1
  <2>3. nextSeq' = [nextSeq EXCEPT ![s] = [@ EXCEPT ![BIN] = nextSeq[s][BIN] + 1,
                                                   ![RENDER] = nextSeq[s][RENDER] + 1]]
    BY <1>0, ZenonT(20) DEF SubmitCL, TypeOK
  <2>4. [nextSeq[s] EXCEPT ![BIN] = nextSeq[s][BIN] + 1, ![RENDER] = nextSeq[s][RENDER] + 1]
          \in [Queues -> Nat]
    BY <2>1, <2>2, ZenonT(20)
  <2>. QED  BY <2>3, <2>4, ZenonT(20) DEF TypeOK
<1>5. fifo' \in [Queues -> [Slots -> Seq(JobIds)]]
  <2>1. fifo[BIN][s] \in Seq(JobIds) /\ fifo[RENDER][s] \in Seq(JobIds)
    BY <1>0 DEF TypeOK
  <2>2. Append(fifo[BIN][s], bj) \in Seq(JobIds) /\ Append(fifo[RENDER][s], rj) \in Seq(JobIds)
    BY <1>1, <2>1, AppendType, ZenonT(20)
  <2>3. fifo' = [fifo EXCEPT ![BIN][s] = Append(@, bj), ![RENDER][s] = Append(@, rj)]
    BY ZenonT(20) DEF SubmitCL, bj, rj
  <2>. QED  BY <1>0, <2>2, <2>3, ZenonT(20) DEF TypeOK
<1>6. pending' \in [Queues -> Int]
  <2>1. pending[BIN] \in Int /\ pending[RENDER] \in Int
    BY <1>0, ZenonT(20) DEF TypeOK
  <2>2. pending[BIN] + 1 \in Int /\ pending[RENDER] + 1 \in Int
    BY <2>1, Counters, ZenonT(20)
  <2>3. pending' = [pending EXCEPT ![BIN] = @ + 1, ![RENDER] = @ + 1]
    BY ZenonT(20) DEF SubmitCL
  <2>. QED  BY <1>0, <2>2, <2>3, ZenonT(20) DEF TypeOK
<1>. QED  BY <1>1, <1>3, <1>4, <1>5, <1>6, ZenonT(20) DEF SubmitCL, TypeOK, pageVars, hwVars

\* The requests keep the types.
LEMMA RequestsType == ASSUME TypeOK, Requests PROVE TypeOK'
<1>1. ASSUME NEW m \in Modes, SetMode(m) PROVE TypeOK'
  BY <1>1, SchedAssumption, ZenonT(20) DEF SetMode, TypeOK, pageVars, slotVars, jobVars, hwVars
<1>2. CASE SelfTest
  <2>1. ev' \in SUBSET HwQueues
    BY <1>2, ZenonT(20) DEF SelfTest, TypeOK, HwQueues
  <2>. QED  BY <1>2, <2>1, ZenonT(20) DEF SelfTest, TypeOK, pageVars, slotVars, jobVars, pcVars
<1>. QED
  BY <1>1, <1>2, OpenType, CloseBeginType, SubmitOneType, SubmitCLType,
     DepSetsType, ZenonT(20) DEF Requests

\* The hardware and the clock keep the types.
LEMMA EnvironmentType == ASSUME TypeOK, Environment PROVE TypeOK'
<1>1. ASSUME NEW q \in HwQueues, HwFinish(q) PROVE TypeOK'
  BY <1>1, ZenonT(20) DEF HwFinish, TypeOK, pageVars, slotVars, jobVars, pcVars
<1>2. ASSUME NEW q \in Queues, Deadline(q) PROVE TypeOK'
  BY <1>2, ZenonT(20) DEF Deadline, TypeOK, pageVars, slotVars, jobVars, pcVars
<1>3. CASE TfuSilent
  BY <1>3, ZenonT(20) DEF TfuSilent, TypeOK, pageVars, slotVars, jobVars, pcVars
<1>. QED  BY <1>1, <1>2, <1>3, ZenonT(20) DEF Environment

\* The steps that complete a job keep the types.
LEMMA CompletionType ==
  ASSUME TypeOK, NEW q \in HwQueues,
         \/ WedgeStep(q) \/ \E e \in BOOLEAN : EvDone(q, e)
         \/ TickCpu \/ TickTfuIdle
  PROVE  TypeOK'
<1>0. q \in Queues /\ CPU \in Queues /\ TFU \in Queues
  BY ZenonT(20) DEF Queues, HwQueues
<1>1. ASSUME NEW p \in Queues, active[p] # NoJob PROVE active[p] \in JobIds
  BY <1>1, ZenonT(20) DEF TypeOK
<1>2. CASE WedgeStep(q)
  <2>1. active[q] \in JobIds /\ JobDone(active[q], TRUE)
    BY <1>0, <1>1, <1>2, ZenonT(20) DEF WedgeStep
  <2>. QED  BY <2>1, <1>2, JobDoneType, ZenonT(20) DEF WedgeStep, TypeOK, slotVars, pcVars
<1>3. ASSUME NEW e \in BOOLEAN, EvDone(q, e) PROVE TypeOK'
  <2>1. active[q] \in JobIds /\ JobDone(active[q], e)
    BY <1>0, <1>1, <1>3, ZenonT(20) DEF EvDone
  <2>. QED  BY <2>1, <1>3, JobDoneType, ZenonT(20) DEF EvDone, TypeOK, slotVars
<1>4. CASE TickCpu
  <2>1. active[CPU] \in JobIds /\ JobDone(active[CPU], FALSE)
    BY <1>0, <1>1, <1>4, ZenonT(20) DEF TickCpu
  <2>. QED  BY <2>1, <1>4, JobDoneType, ZenonT(20) DEF TickCpu, TypeOK, slotVars, pcVars
<1>5. CASE TickTfuIdle
  <2>1. active[TFU] \in JobIds /\ JobDone(active[TFU], FALSE)
    BY <1>0, <1>1, <1>5, ZenonT(20) DEF TickTfuIdle
  <2>. QED  BY <2>1, <1>5, JobDoneType, ZenonT(20) DEF TickTfuIdle, TypeOK, slotVars, pcVars
<1>. QED  BY <1>2, <1>3, <1>4, <1>5, ZenonT(20)

\* The steps of the scheduler keep the types.
LEMMA SchedulerType ==
  ASSUME TypeOK, NEW s \in Slots,
         \/ \E q \in Queues : Reap(q, s)
         \/ \E q \in HwQueues : KickHw(q, s)
         \/ KickCpu(s)
         \/ KickCsdStuck(s)
  PROVE  TypeOK'
<1>0. CPU \in Queues /\ CSD \in HwQueues /\ HwQueues \subseteq Queues
  BY ZenonT(20) DEF Queues, HwQueues
<1>1. s + 1 \in 0 .. NSlots
  BY SchedAssumption DEF Slots
<1>2. ASSUME NEW q \in HwQueues, HwTurn(q, s)
      PROVE  fifo[q][s] # <<>> /\ rr' \in [Queues -> 0 .. NSlots]
  <2>1. fifo[q][s] # <<>>
    BY <1>2, ZenonT(20) DEF HwTurn, SerialTurn, PipelineTurn, Turn, ReadyHead
  <2>2. rr' = rr \/ rr' = [rr EXCEPT ![q] = s + 1]
    BY <1>2, ZenonT(20) DEF HwTurn
  <2>3. rr \in [Queues -> 0 .. NSlots]
    BY ZenonT(20) DEF TypeOK
  <2>4. rr' \in [Queues -> 0 .. NSlots]
    BY <1>0, <1>1, <2>2, <2>3, ZenonT(20)
  <2>. QED  BY <2>1, <2>4, ZenonT(20)
<1>3. ASSUME NEW q \in Queues, Reap(q, s) PROVE TypeOK'
  <2>1. fifo[q][s] # <<>> /\ fifo[q][s] \in Seq(JobIds)
    BY <1>3, ZenonT(20) DEF Reap, Reapable, ReadyHead, TypeOK
  <2>2. Head(fifo[q][s]) \in JobIds /\ Tail(fifo[q][s]) \in Seq(JobIds)
    BY <2>1, HeadType, Zenon
  <2>3. fifo' \in [Queues -> [Slots -> Seq(JobIds)]]
    BY <1>3, <2>2, ZenonT(20) DEF Reap, Popped, TypeOK
  <2>4. pending' \in [Queues -> Int]
    <3>1. pending[q] \in Int
      BY ZenonT(20) DEF TypeOK
    <3>2. pending[q] - 1 \in Int
      BY <3>1
    <3>. QED  BY <1>3, <3>2, ZenonT(20) DEF Reap, TypeOK
  <2>5. JobDone(Head(fifo[q][s]), TRUE)
    BY <1>3, ZenonT(20) DEF Reap
  <2>. QED  BY <1>3, <2>2, <2>3, <2>4, <2>5, JobDoneType, ZenonT(20) DEF Reap, TypeOK, slotVars, pcVars
<1>4. ASSUME NEW q \in HwQueues, KickHw(q, s) PROVE TypeOK'
  <2>1. HwTurn(q, s) /\ Kick(q, s) /\ q \in Queues
    BY <1>0, <1>4, ZenonT(20) DEF KickHw
  <2>2. hw' \in SUBSET HwQueues /\ ev' \in SUBSET HwQueues
    BY <1>4, ZenonT(20) DEF KickHw, Drained, TypeOK
  <2>. QED  BY <1>2, <1>4, <2>1, <2>2, KickType, ZenonT(20) DEF KickHw, Kick, TypeOK, pageVars, slotVars
<1>5. CASE KickCpu(s)
  <2>1. fifo[CPU][s] # <<>> /\ Kick(CPU, s)
    BY <1>5, ZenonT(20) DEF KickCpu, CpuTurn, Turn, ReadyHead
  <2>2. rr' \in [Queues -> 0 .. NSlots]
    BY <1>0, <1>1, <1>5, ZenonT(20) DEF KickCpu, TypeOK
  <2>. QED  BY <1>0, <1>5, <2>1, <2>2, KickType, ZenonT(20) DEF KickCpu, Kick, TypeOK, pageVars, slotVars
<1>6. CASE KickCsdStuck(s)
  <2>1. HwTurn(CSD, s) /\ Kick(CSD, s) /\ CSD \in Queues
    BY <1>0, <1>6, ZenonT(20) DEF KickCsdStuck
  <2>. QED
    BY <1>0, <1>2, <1>6, <2>1, KickType, ZenonT(20) DEF KickCsdStuck, Kick, TypeOK, pageVars, slotVars
<1>. QED  BY <1>3, <1>4, <1>5, <1>6, ZenonT(20)

\* The steps that only move the lock holder along keep the types.
LEMMA ControlType ==
  ASSUME TypeOK,
         \/ CloseEnd \/ SchedLeave \/ WedgeLeave \/ TickDone \/ EvBegin
         \/ \E q \in HwQueues : TickWedge(q) \/ EvStray(q)
  PROVE  TypeOK'
<1>. USE DEF TypeOK, pageVars, slotVars, jobVars, hwVars
<1>1. CASE CloseEnd  BY <1>1, ZenonT(20) DEF CloseEnd
<1>2. CASE SchedLeave  BY <1>2, ZenonT(20) DEF SchedLeave
<1>3. CASE WedgeLeave  BY <1>3, ZenonT(20) DEF WedgeLeave
<1>4. CASE TickDone  BY <1>4, ZenonT(20) DEF TickDone
<1>5. CASE EvBegin  BY <1>5, ZenonT(20) DEF EvBegin
<1>6. ASSUME NEW q \in HwQueues, TickWedge(q) PROVE TypeOK'
  BY <1>6, ZenonT(20) DEF TickWedge
<1>7. ASSUME NEW q \in HwQueues, EvStray(q) PROVE TypeOK'
  BY <1>7, ZenonT(20) DEF EvStray
<1>. QED  BY <1>1, <1>2, <1>3, <1>4, <1>5, <1>6, <1>7, ZenonT(20)

\* Every step keeps the types.
LEMMA NextType == TypeOK /\ [Next]_vars => TypeOK'
<1>. SUFFICES ASSUME TypeOK, [Next]_vars PROVE TypeOK'
  BY ZenonT(20)
<1>1. CASE Locked
  <2>0. BIN \in HwQueues
    BY ZenonT(20) DEF HwQueues
  <2>. QED  BY <1>1, <2>0, ControlType, SchedulerType, CompletionType, ZenonT(20) DEF Locked
<1>2. CASE UNCHANGED vars
  BY <1>2, ZenonT(20) DEF vars, TypeOK, pageVars, slotVars, jobVars, hwVars, pcVars
<1>. QED  BY <1>1, <1>2, ControlType, RequestsType, EnvironmentType, ZenonT(20) DEF Next

\* The server's state is well typed in every reachable state.
THEOREM TypeCorrect == Spec => []TypeOK
BY InitType, NextType, PTL DEF Spec

-----------------------------------------------------------------------------
(* The theorems                                                            *)

\* Every step keeps the invariant.
LEMMA FenceNext == FenceInv /\ [Next]_vars => FenceInv'
<1> SUFFICES ASSUME FenceInv, [Next]_vars PROVE FenceInv'
  BY ZenonT(20)
<1>0. TypeOK'
  BY NextType, ZenonT(20) DEF FenceInv
<1>1. CASE Locked
  BY <1>0, <1>1, CloseEndFence, MoveFence, KicksFence, EndsFence, ZenonT(20) DEF Locked
<1>2. CASE EvBegin
  BY <1>0, <1>2, MoveFence, ZenonT(20)
<1>3. CASE Requests
  <2>1. /\ \A D \in DepSets : D \in SUBSET PendingFences
        /\ \A D \in RenderDepSets : D \in SUBSET PendingFences
    BY DepSetsType, ZenonT(20) DEF FenceInv
  <2> QED
    BY <1>0, <1>3, <2>1, OpenFence, CloseFence, SubmitOneFence, SubmitCLFence, MoveFence, ZenonT(20)
       DEF Requests
<1>4. CASE Environment
  BY <1>0, <1>4, MoveFence, ZenonT(20) DEF Environment
<1>5. CASE UNCHANGED vars
  <2> USE <1>5 DEF vars, pageVars, slotVars, jobVars, hwVars, pcVars
  <2>1. Closing' /\ Reaped'
    BY ZenonT(20) DEF FenceInv, Closing, Reaped, Reapable, ReadyHead, Ready, Signaled
  <2>2. NoFailure => at' # "wedge" /\ late' \subseteq {CPU}
    BY ZenonT(20) DEF FenceInv, Sound
  <2> QED
    BY <1>0, <2>1, <2>2, ControlFence, ZenonT(20)
<1> QED
  BY <1>1, <1>2, <1>3, <1>4, <1>5, ZenonT(20) DEF Next

\* The invariant holds in every reachable state.
LEMMA FenceAlways == Spec => []FenceInv
<1>1. Init => FenceInv
  BY InitType, FenceInit, ZenonT(20)
<1> QED
  BY <1>1, FenceNext, PTL DEF Spec

\* Whatever hangs and whoever dies: no fence of a queue other than RENDER is
\* signalled while its job waits or runs; a running job's fence row still
\* belongs to its client (v3da_slot_assign, v3da_slot_busy); and no render is
\* started whose bin failed (reap_failed_heads).
THEOREM FencesSafe == Spec => [](NoEarlySignalNoReap /\ RowKeptWhileRunning /\ NoRenderOfFailedBin)
<1>1. ASSUME FenceInv
      PROVE  NoEarlySignalNoReap /\ RowKeptWhileRunning /\ NoRenderOfFailedBin
  <2>0. TypeOK /\ Alive /\ Marked
    BY <1>1, ZenonT(20) DEF FenceInv
  <2>1. NoEarlySignalNoReap
    <3> SUFFICES ASSUME NEW j \in JobIds, Live(j), job[j].q # RENDER
                 PROVE  ~Signaled(FenceOf(j))
      BY ZenonT(20) DEF NoEarlySignalNoReap
    <3>1. /\ job[j].gen = gen[job[j].slot]
          /\ completed[job[j].slot][job[j].q] < job[j].seq
      BY <2>0, ZenonT(20) DEF Alive, Orderly
    <3>2. job[j].seq \in Nat /\ completed[job[j].slot][job[j].q] \in Nat
      BY <2>0, JobFields, ZenonT(30) DEF TypeOK
    <3>3. ~(completed[job[j].slot][job[j].q] >= job[j].seq)
      BY <3>1, <3>2, NotReached, ZenonT(20)
    <3> QED
      BY <3>1, <3>3, ZenonT(20) DEF Signaled, FenceOf
  <2>2. RowKeptWhileRunning
    BY <2>0, ZenonT(20) DEF Alive, RowKeptWhileRunning
  <2>3. NoRenderOfFailedBin
    BY <2>0, Zenon DEF Marked, NoRenderOfFailedBin
  <2> QED
    BY <2>1, <2>2, <2>3, ZenonT(20)
<1> QED
  BY <1>1, FenceAlways, PTL

\* A slot whose job waits or runs is not given to another client, whatever hangs
\* (v3da_slot_busy).
COROLLARY RowsKept == Spec => []RowKeptWhileRunning
BY FencesSafe, PTL

\* A render is never kicked against the tile state of a failed bin, whatever hangs
\* (job_ready, reap_failed_heads).
COROLLARY FailedBinStops == Spec => []NoRenderOfFailedBin
BY FencesSafe, PTL

\* Where no unit hangs: no fence at all is signalled early, no job runs before
\* what it waits for has left, and a dead client's fences are all signalled
\* once nothing of it runs (v3da_jobs_client_gone, dead_flush).
THEOREM FencesExact ==
  ASSUME NoFailure
  PROVE  Spec => [](NoEarlySignal /\ DepsFinished /\ DeadFlushed)
<1>1. ASSUME FenceInv
      PROVE  NoEarlySignal /\ DepsFinished /\ DeadFlushed
  <2>0. TypeOK /\ Alive /\ OnUnit /\ Linked /\ Marked /\ Sound
    BY <1>1, ZenonT(20) DEF FenceInv
  <2>1. NoEarlySignal
    <3> SUFFICES ASSUME NEW j \in JobIds, Live(j)
                 PROVE  ~Signaled(FenceOf(j))
      BY ZenonT(20) DEF NoEarlySignal
    <3>1. /\ job[j].gen = gen[job[j].slot]
          /\ completed[job[j].slot][job[j].q] < job[j].seq
      BY <2>0, ZenonT(20) DEF Alive, Orderly
    <3>2. job[j].seq \in Nat /\ completed[job[j].slot][job[j].q] \in Nat
      BY <2>0, JobFields, ZenonT(30) DEF TypeOK
    <3>3. Signaled(FenceOf(j)) => completed[job[j].slot][job[j].q] >= job[j].seq
      BY <3>1, ZenonT(20) DEF Signaled, FenceOf
    <3> QED
      BY <3>1, <3>2, <3>3
  <2>2. DepsFinished
    <3> SUFFICES ASSUME NEW q \in Queues, active[q] # NoJob, NEW i \in JobIds, Live(i)
                 PROVE  /\ FenceOf(i) \notin job[active[q]].deps
                        /\ q = RENDER => job[i].mate # active[q]
      BY ZenonT(20) DEF DepsFinished
    <3>1. active[q] \in JobIds /\ job[active[q]].st = "active"
      BY <2>0, StateFields, ZenonT(20) DEF OnUnit
    <3>2. \A f \in job[active[q]].deps : Signaled(f)
      BY <2>0, <3>1, ZenonT(20) DEF Sound
    <3>3. q = RENDER => job[i].mate # active[q]
      BY <2>0, <3>1, NoJobFact DEF Linked, Marked
    <3> QED
      BY <2>1, <3>2, <3>3, ZenonT(20) DEF NoEarlySignal
  <2>3. DeadFlushed
    BY <2>0, ZenonT(20) DEF Sound, DeadFlushed
  <2> QED
    BY <2>1, <2>2, <2>3, ZenonT(20)
<1> QED
  BY <1>1, FenceAlways, PTL

\* Where no unit hangs, a job on a unit waits for nothing that is still to run
\* (job_ready).
COROLLARY DepsOver ==
  ASSUME NoFailure
  PROVE  Spec => []DepsFinished
BY FencesExact, PTL

\* Where no unit hangs, nobody waits for ever for a job that died with its client
\* (v3da_jobs_client_gone, dead_flush).
COROLLARY DeadAreFlushed ==
  ASSUME NoFailure
  PROVE  Spec => []DeadFlushed
BY FencesExact, PTL

-----------------------------------------------------------------------------
(* The page implements the timeline                                        *)

\* A completed job signals fences of its own row and queue, in order.
LEMMA DoneSignals ==
  ASSUME NoFailure, FenceInv, NEW j \in JobIds, Live(j), NEW e \in BOOLEAN,
         FenceComplete(j, e), UNCHANGED <<gen, nextSeq>>
  PROVE  \E s \in Slots : Timeline!Signal(s)
<1>0. TypeOK /\ Issued
  BY ZenonT(20) DEF FenceInv
<1>1. PICK s \in Slots, q \in Queues, n \in Nat :
        s = job[j].slot /\ q = job[j].q /\ n = CompletedSeq(j)
  BY <1>0, JobFields, CompletedFacts, ZenonT(20)
<1>2. completed[s][q] <= n /\ n <= nextSeq[s][q]
  <2>1. Orderly(q) => completed[s][q] < n
    BY <1>1, CompletedFacts, ZenonT(20)
  <2>2. n <= nextSeq[s][q]
    BY <1>1, CompletedFacts, ZenonT(20)
  <2>3. completed[s][q] \in Nat
    BY <1>0, StateFields, ZenonT(20)
  <2> QED
    BY <2>1, <2>2, <2>3 DEF Orderly
<1>3. completed' = [completed EXCEPT ![s][q] = n]
  BY <1>1, ZenonT(20) DEF FenceComplete
<1>4. \A t \in Slots : DOMAIN completed[t] = Queues
  BY <1>0, ZenonT(20) DEF TypeOK
<1>5. \A t \in Slots \ {s} : completed'[t] = completed[t]
  BY <1>0, <1>3, ZenonT(20) DEF TypeOK
<1>6. \A p \in Queues : completed'[s][p] = IF p = q THEN n ELSE completed[s][p]
  BY <1>0, <1>3, <1>4, ZenonT(30) DEF TypeOK
<1>7. \A p \in Queues :
        completed[s][p] \in Nat /\ nextSeq[s][p] \in Nat /\ completed[s][p] <= nextSeq[s][p]
  <2>1. \A p \in Queues : completed[s][p] \in Nat /\ nextSeq[s][p] \in Nat
    BY <1>0, StateFields, ZenonT(20)
  <2> QED
    BY <1>0, <2>1, ZenonT(20) DEF Issued
<1>8. ASSUME NEW p \in Queues
      PROVE  completed'[s][p] \in completed[s][p] .. nextSeq[s][p]
  <2>1. completed[s][p] <= nextSeq[s][p] /\ completed[s][p] \in Nat /\ nextSeq[s][p] \in Nat
    BY <1>7, ZenonT(20)
  <2>2. CASE p = q
    <3>1. completed'[s][p] = n /\ completed[s][p] <= n /\ n <= nextSeq[s][p]
      BY <1>2, <1>6, <2>2, ZenonT(20)
    <3>2. n \in completed[s][p] .. nextSeq[s][p]
      BY <2>1, <3>1, Between, ZenonT(20)
    <3> QED
      BY <3>1, <3>2, Zenon
  <2>3. CASE p # q
    <3>1. completed'[s][p] = completed[s][p]
      BY <1>6, <2>3, ZenonT(20)
    <3>2. completed[s][p] <= completed[s][p]
      BY <2>1
    <3>3. completed[s][p] \in completed[s][p] .. nextSeq[s][p]
      BY <2>1, <3>2, Between, ZenonT(20)
    <3> QED
      BY <3>1, <3>3, Zenon
  <2> QED
    BY <2>2, <2>3, ZenonT(20)
<1> QED
  BY <1>5, <1>8, ZenonT(20) DEF Timeline!Signal

\* Every step of the scheduler is a step of the timeline, or leaves it alone.
LEMMA TimelineStep ==
  ASSUME NoFailure, FenceInv, Next
  PROVE  Timeline!Next \/ UNCHANGED Timeline!vars
<1>0. TypeOK /\ OnUnit /\ Sound /\ Issued /\ Closing
  BY ZenonT(20) DEF FenceInv
<1>1. ASSUME NEW q \in Queues, active[q] # NoJob, NEW e \in BOOLEAN, JobDone(active[q], e),
             UNCHANGED slotVars
      PROVE  Timeline!Next
  <2>1. active[q] \in JobIds /\ Live(active[q])
    <3>1. active[q] \in JobIds
      BY <1>0, <1>1, ZenonT(20) DEF TypeOK
    <3>2. job[active[q]].st = "active"
      BY <1>0, <1>1, ZenonT(20) DEF OnUnit
    <3> QED
      BY <3>1, <3>2, ZenonT(20) DEF Live
  <2>2. FenceComplete(active[q], e) /\ UNCHANGED <<gen, nextSeq>>
    BY <1>1, ZenonT(20) DEF JobDone, slotVars
  <2> QED
    BY <2>1, <2>2, DoneSignals, ZenonT(20) DEF Timeline!Next
<1>2. CASE Locked
  <2>1. CASE \E q \in HwQueues : WedgeStep(q) \/ \E e \in BOOLEAN : EvDone(q, e)
    BY <1>1, <2>1, QueueFacts, ZenonT(30) DEF WedgeStep, EvDone
  <2>2. CASE TickCpu \/ TickTfuIdle
    BY <1>1, <2>2, QueueFacts, ZenonT(30) DEF TickCpu, TickTfuIdle
  <2>3. ASSUME NEW q \in Queues, NEW s \in Slots, Reap(q, s)
        PROVE  Timeline!Next
    <3>1. fifo[q][s] # <<>> /\ Reapable(q, s)
      BY <2>3, ZenonT(20) DEF Reap, Reapable, ReadyHead
    <3>2. Head(fifo[q][s]) \in JobIds
      BY <1>0, <3>1, PopFacts, ZenonT(20)
    <3>3. job[Head(fifo[q][s])].derr
      BY <3>1, Zenon DEF Reapable
    <3> QED
      BY <3>2, <3>3, Zenon DEF FenceInv, Marked
  <2>4. CASE \/ CloseEnd \/ SchedLeave \/ WedgeLeave \/ TickDone
             \/ \E s \in Slots : KickCpu(s) \/ KickCsdStuck(s)
             \/ \E q \in HwQueues, s \in Slots : KickHw(q, s)
             \/ \E q \in HwQueues : TickWedge(q) \/ EvStray(q)
    BY <2>4, ZenonT(30) DEF CloseEnd, SchedLeave, WedgeLeave, TickDone, KickCpu, KickCsdStuck, KickHw, Kick,
                TickWedge, EvStray, pageVars, slotVars, Timeline!vars
  <2> QED
    BY <1>2, <2>1, <2>2, <2>3, <2>4, ZenonT(20) DEF Locked
<1>3. CASE EvBegin \/ Environment \/ SelfTest \/ \E m \in Modes : SetMode(m)
  BY <1>3, ZenonT(20) DEF EvBegin, Environment, HwFinish, Deadline, TfuSilent, SelfTest, SetMode,
              pageVars, slotVars, Timeline!vars
<1>4. ASSUME NEW s \in Slots, Open(s)
      PROVE  Timeline!Reassign(s)
  <2>1. \A q \in Queues : completed[s][q] = nextSeq[s][q]
    BY <1>0, <1>4, ZenonT(20) DEF Open, Free, SlotBusy, Sound, ActiveOf
  <2>2. completed[s] = nextSeq[s]
    BY <1>0, <2>1 DEF TypeOK
  <2> QED
    BY <1>4, <2>2, ZenonT(20) DEF Open, Timeline!Reassign, Timeline!Zero
<1>5. ASSUME NEW s \in Slots, CloseBegin(s)
      PROVE  Timeline!Signal(s)
  <2>1. /\ completed' = [completed EXCEPT ![s] =
             [q \in Queues |-> IF FlushNow(s, q) THEN nextSeq[s][q] ELSE completed[s][q]]]
        /\ UNCHANGED <<gen, nextSeq>>
    BY <1>5, ZenonT(20) DEF CloseBegin
  <2>2. \A t \in Slots \ {s} : completed'[t] = completed[t]
    BY <1>0, <2>1, ZenonT(20) DEF TypeOK
  <2>3. \A q \in Queues :
          completed'[s][q] = IF FlushNow(s, q) THEN nextSeq[s][q] ELSE completed[s][q]
    BY <1>0, <2>1, ZenonT(20) DEF TypeOK
  <2>4. \A q \in Queues :
          completed[s][q] \in Nat /\ nextSeq[s][q] \in Nat /\ completed[s][q] <= nextSeq[s][q]
    BY <1>0, ZenonT(20) DEF TypeOK, Issued
  <2>5. \A q \in Queues : completed'[s][q] \in completed[s][q] .. nextSeq[s][q]
    BY <2>3, <2>4, Ends, ZenonT(20)
  <2> QED
    BY <2>1, <2>2, <2>5, ZenonT(20) DEF Timeline!Signal
<1>6. ASSUME NEW s \in Slots, NEW op \in Ops \ {"CL", "SELFTEST"}, NEW D \in DepSets,
             SubmitOne(s, op, D)
      PROVE  Timeline!Issue(s, {OpQueue[op]})
  <2>1. PICK q : q = OpQueue[op]
    BY ZenonT(20)
  <2>2. nextSeq' = [nextSeq EXCEPT ![s][q] = @ + 1] /\ UNCHANGED <<gen, completed>>
    BY <1>6, <2>1, ZenonT(20) DEF SubmitOne, pageVars
  <2>3. DOMAIN nextSeq = Slots /\ DOMAIN nextSeq[s] = Queues
    BY <1>0, ZenonT(20) DEF TypeOK
  <2>4. [nextSeq[s] EXCEPT ![q] = @ + 1]
          = [p \in Queues |-> IF p \in {q} THEN nextSeq[s][p] + 1 ELSE nextSeq[s][p]]
    BY <2>3, ZenonT(30)
  <2> QED
    BY <2>1, <2>2, <2>4, ZenonT(30) DEF Timeline!Issue
<1>7. ASSUME NEW s \in Slots, NEW D \in DepSets, NEW R \in RenderDepSets, SubmitCL(s, D, R)
      PROVE  Timeline!Issue(s, {BIN, RENDER})
  <2>1. /\ nextSeq' = [nextSeq EXCEPT ![s][BIN] = @ + 1, ![s][RENDER] = @ + 1]
        /\ UNCHANGED <<gen, completed>>
    BY <1>7, ZenonT(20) DEF SubmitCL, pageVars
  <2>2. DOMAIN nextSeq = Slots /\ DOMAIN nextSeq[s] = Queues /\ BIN # RENDER
    BY <1>0, QueueFacts, ZenonT(20) DEF TypeOK
  <2>3. [[nextSeq[s] EXCEPT ![BIN] = @ + 1] EXCEPT ![RENDER] = @ + 1]
          = [p \in Queues |-> IF p \in {BIN, RENDER} THEN nextSeq[s][p] + 1 ELSE nextSeq[s][p]]
    BY <2>2, ZenonT(30)
  <2>4. nextSeq' = [nextSeq EXCEPT ![s] = [[nextSeq[s] EXCEPT ![BIN] = @ + 1] EXCEPT ![RENDER] = @ + 1]]
    BY <2>1, <2>2, ZenonT(30)
  <2> QED
    BY <2>1, <2>3, <2>4, ZenonT(30) DEF Timeline!Issue
<1>8. \A op \in Ops \ {"CL", "SELFTEST"} : OpQueue[op] \in Queues
  BY SchedAssumption DEF AllOps, OpQueue, Queues, HwQueues
<1>9. CASE Requests
  BY <1>3, <1>4, <1>5, <1>6, <1>7, <1>8, <1>9, QueueFacts, ZenonT(30) DEF Requests, Timeline!Next
<1> QED
  BY <1>2, <1>3, <1>9, ZenonT(20) DEF Next

\* Where no unit hangs, the page of fences implements FenceTimeline: fences are
\* issued one by one, signalled in order and only when issued, and a row changes
\* its owner only when all of its fences are signalled.
THEOREM PageRefines ==
  ASSUME NoFailure
  PROVE  Spec => PageIsTimeline
<1>1. Init => Timeline!Init
  BY ZenonT(20) DEF Init, Timeline!Init, Timeline!Zero
<1>2. FenceInv /\ [Next]_vars => [Timeline!Next]_(Timeline!vars)
  <2>1. UNCHANGED vars => UNCHANGED Timeline!vars
    BY ZenonT(20) DEF vars, slotVars, pageVars, Timeline!vars
  <2> QED
    BY <2>1, TimelineStep, ZenonT(20)
<1> QED
  BY <1>1, <1>2, FenceAlways, PTL DEF Spec, PageIsTimeline, Timeline!Spec

-----------------------------------------------------------------------------
(* The units                                                               *)

\* A unit that works has its queue's active job, and no done bit is on its way for it;
\* after a reset none works; only the event thread holds done bits.
UnitInv ==
  /\ \A q \in hw : active[q] # NoJob /\ q \notin ev /\ q \notin grab
  /\ at = "wedge" => hw = {}
  /\ at # "event" => grab = {}

\* Steps that leave units, done bits and active jobs alone, and hold no done bit
\* outside the event thread.
LEMMA UnitFrame ==
  ASSUME UnitInv, active' = active, hw' = hw, ev' = ev, grab' \subseteq grab,
         at' = "wedge" => at = "wedge", at' # "event" => grab' = {}
  PROVE  UnitInv'
BY ZenonT(20) DEF UnitInv

\* A job ends that is on no unit that works.
LEMMA UnitEnds ==
  ASSUME TypeOK, UnitInv, NEW j, NEW e, JobDone(j, e), \A q \in hw : active[q] # j,
         hw' = hw, ev' = ev, grab' \subseteq grab, at' = at
  PROVE  UnitInv'
<1>1. active' = IF active[job[j].q] = j THEN [active EXCEPT ![job[j].q] = NoJob] ELSE active
  BY Zenon DEF JobDone
<1>2. ASSUME NEW q \in hw
      PROVE  active'[q] = active[q]
  <2>1. active[q] # j /\ q \in DOMAIN active
    BY QueueFacts, ZenonT(20) DEF TypeOK
  <2>2. CASE active[job[j].q] = j
    <3>1. q # job[j].q
      BY <2>1, <2>2, Zenon
    <3> QED
      BY <1>1, <2>1, <2>2, <3>1, ZenonT(20)
  <2>3. CASE active[job[j].q] # j
    BY <1>1, <2>3, Zenon
  <2> QED
    BY <2>2, <2>3, ZenonT(20)
<1> QED
  BY <1>2, ZenonT(20) DEF UnitInv

\* A job goes to an idle unit.
LEMMA UnitStarts ==
  ASSUME FenceInv, UnitInv, NEW q \in Queues, NEW s \in Slots, Kicking, Kick(q, s),
         (q = CPU /\ CpuTurn(s)) \/ (q \in HwQueues /\ HwTurn(q, s)),
         \/ hw' = hw /\ ev' = ev /\ at' = "kick"
         \/ hw' = hw \cup {q} /\ ev' = ev \ {q} /\ at' = "kick"
         \/ hw' = {} /\ ev' = {} /\ at' = "wedge"
  PROVE  UnitInv'
<1>1. active[q] = NoJob /\ ReadyHead(q, s) /\ TypeOK
  BY TurnFacts, Zenon DEF FenceInv
<1>2. PICK j \in JobIds : j = Head(fifo[q][s])
  <2>1. fifo[q][s] \in Seq(JobIds) /\ fifo[q][s] # <<>>
    BY <1>1, ZenonT(20) DEF TypeOK, ReadyHead
  <2> QED
    BY <2>1, HeadType, Zenon
<1>3. active' = [active EXCEPT ![q] = j] /\ grab' = grab
  BY <1>2, Zenon DEF Kick
<1>4. at # "event" /\ grab = {}
  <2>1. at # "event"
    BY ZenonT(20) DEF Kicking
  <2> QED
    BY <2>1, Zenon DEF UnitInv
<1>5. DOMAIN active = Queues /\ hw \subseteq Queues /\ j # NoJob
  BY <1>1, NoJobFact, QueueFacts, ZenonT(20) DEF TypeOK
<1>6. q \notin hw
  BY <1>1, Zenon DEF UnitInv
<1>7. active'[q] = j /\ \A p \in hw : active'[p] = active[p]
  BY <1>3, <1>5, <1>6, ZenonT(20)
<1>8. \A p \in hw' : active'[p] # NoJob /\ p \notin ev'
  BY <1>5, <1>7, ZenonT(20) DEF UnitInv
<1> QED
  BY <1>3, <1>4, <1>8, ZenonT(20) DEF UnitInv

\* Every step keeps the units' invariant.
LEMMA UnitNext == FenceInv /\ UnitInv /\ [Next]_vars => UnitInv'
<1> SUFFICES ASSUME FenceInv, UnitInv, [Next]_vars PROVE UnitInv'
  BY ZenonT(20)
<1>0. TypeOK /\ \A q \in Queues : active[q] # NoJob => job[active[q]].q = q /\ job[active[q]].st = "active"
  BY Zenon DEF FenceInv, OnUnit
<1>1. ASSUME NEW q \in Queues, NEW p \in Queues, active[q] # NoJob, active[p] = active[q]
      PROVE  p = q
  BY <1>0, <1>1, Zenon
<1>2. hw \subseteq Queues /\ HwQueues \subseteq Queues /\ CPU \in Queues /\ CPU \notin hw /\ TFU \in Queues
  BY <1>0, QueueFacts, ZenonT(20) DEF TypeOK
<1>3. ASSUME NEW q \in HwQueues, WedgeStep(q)
      PROVE  UnitInv'
  <2>1. at = "wedge" /\ JobDone(active[q], TRUE) /\ hw' = hw /\ ev' = ev /\ grab' = grab /\ at' = at
    BY <1>3, ZenonT(20) DEF WedgeStep, pcVars
  <2>2. \A p \in hw : active[p] # active[q]
    BY <2>1, Zenon DEF UnitInv
  <2> QED
    BY <1>0, <2>1, <2>2, UnitEnds, Zenon
<1>4. ASSUME NEW q \in HwQueues, NEW e \in BOOLEAN, EvDone(q, e)
      PROVE  UnitInv'
  <2>1. /\ q \in grab /\ active[q] # NoJob /\ JobDone(active[q], e)
        /\ hw' = hw /\ ev' = ev /\ grab' \subseteq grab /\ at' = at
    BY <1>4, ZenonT(20) DEF EvDone, EvNext
  <2>2. q \notin hw
    BY <2>1, Zenon DEF UnitInv
  <2>3. \A p \in hw : active[p] # active[q]
    BY <1>1, <1>2, <2>1, <2>2, ZenonT(20)
  <2> QED
    BY <1>0, <2>1, <2>3, UnitEnds, Zenon
<1>5. ASSUME NEW q \in Queues, q \notin hw, active[q] # NoJob, JobDone(active[q], FALSE),
             hw' = hw, ev' = ev, UNCHANGED pcVars
      PROVE  UnitInv'
  <2>1. grab' = grab /\ at' = at
    BY <1>5, ZenonT(20) DEF pcVars
  <2>2. \A p \in hw : active[p] # active[q]
    BY <1>1, <1>2, <1>5, ZenonT(20)
  <2> QED
    BY <1>0, <1>5, <2>1, <2>2, UnitEnds, Zenon
<1>6. CASE TickCpu \/ TickTfuIdle
  BY <1>2, <1>5, <1>6, ZenonT(20) DEF TickCpu, TickTfuIdle
<1>7. ASSUME NEW q \in Queues, NEW s \in Slots, Reap(q, s)
      PROVE  UnitInv'
  <2>1. /\ JobDone(Head(fifo[q][s]), TRUE) /\ Reapable(q, s)
        /\ hw' = hw /\ ev' = ev /\ grab' = grab /\ at' = at
    BY <1>7, ZenonT(20) DEF Reap, pcVars
  <2>2. job[Head(fifo[q][s])].st = "queued"
    <3>1. fifo[q][s] # <<>> /\ TypeOK /\ Lined
      BY <2>1, Zenon DEF Reapable, ReadyHead, FenceInv
    <3> QED
      BY <3>1, HeadQueued, Zenon
  <2>3. \A p \in hw : active[p] # Head(fifo[q][s])
    <3> SUFFICES ASSUME NEW p \in hw, active[p] = Head(fifo[q][s]) PROVE FALSE
      BY Zenon
    <3>1. active[p] # NoJob /\ p \in Queues
      BY <1>2, Zenon DEF UnitInv
    <3>2. job[Head(fifo[q][s])].st = "active"
      BY <1>0, <3>1, Zenon
    <3> QED
      BY <2>2, <3>2, ZenonT(20)
  <2> QED
    BY <1>0, <2>1, <2>3, UnitEnds, Zenon
<1>8. ASSUME NEW q \in HwQueues, NEW s \in Slots, KickHw(q, s)
      PROVE  UnitInv'
  <2>1. /\ Kicking /\ Kick(q, s) /\ HwTurn(q, s) /\ q \in Queues
        /\ hw' = hw \cup {q} /\ ev' = ev \ {q} /\ at' = "kick"
    BY <1>2, <1>8, ZenonT(20) DEF KickHw, Drained
  <2> QED
    BY <2>1, UnitStarts, Zenon
<1>9. ASSUME NEW s \in Slots, KickCpu(s)
      PROVE  UnitInv'
  <2>1. /\ Kicking /\ Kick(CPU, s) /\ CpuTurn(s) /\ CPU \in Queues
        /\ hw' = hw /\ ev' = ev /\ at' = "kick"
    BY <1>2, <1>9, ZenonT(20) DEF KickCpu
  <2> QED
    BY <2>1, UnitStarts, Zenon
<1>10. ASSUME NEW s \in Slots, KickCsdStuck(s)
       PROVE  UnitInv'
  <2>1. /\ Kicking /\ Kick(CSD, s) /\ HwTurn(CSD, s) /\ CSD \in Queues /\ CSD \in HwQueues
        /\ hw' = {} /\ ev' = {} /\ at' = "wedge"
    BY <1>10, QueueFacts, ZenonT(20) DEF KickCsdStuck
  <2> QED
    BY <2>1, UnitStarts, Zenon
<1>11. ASSUME NEW q \in HwQueues, TickWedge(q)
       PROVE  UnitInv'
  <2>1. hw' = {} /\ grab' = {} /\ at' = "wedge"
    BY <1>11, ZenonT(20) DEF TickWedge, Ticking
  <2> QED
    BY <2>1, ZenonT(20) DEF UnitInv
<1>12. CASE EvBegin
  <2>1. hw' = hw /\ active' = active /\ grab' = ev /\ ev' = {} /\ at' = "event"
    BY <1>12, ZenonT(20) DEF EvBegin, jobVars
  <2> QED
    BY <2>1, ZenonT(20) DEF UnitInv
<1>13. CASE SelfTest
  <2>1. /\ hw' = hw /\ active' = active /\ grab' = grab /\ at' = at
        /\ ev' = ev \cup {BIN, TFU} /\ active[BIN] = NoJob /\ active[TFU] = NoJob
    BY <1>13, ZenonT(20) DEF SelfTest, jobVars, pcVars
  <2> QED
    BY <2>1, ZenonT(20) DEF UnitInv
<1>14. ASSUME NEW q \in HwQueues, HwFinish(q) \/ TfuSilent
       PROVE  UnitInv'
  <2>1. PICK p : /\ hw' = hw \ {p} /\ (ev' = ev \/ ev' = ev \cup {p})
                 /\ active' = active /\ grab' = grab /\ at' = at
    BY <1>14, ZenonT(20) DEF HwFinish, TfuSilent, jobVars, pcVars
  <2> QED
    BY <2>1, ZenonT(20) DEF UnitInv
<1>15. ASSUME active' = active, hw' = hw, ev' = ev, grab' = grab, at # "event", at' # "wedge"
       PROVE  UnitInv'
  <2>1. grab = {}
    BY <1>15, Zenon DEF UnitInv
  <2> QED
    BY <1>15, <2>1, UnitFrame, ZenonT(20)
<1>16. CASE CloseEnd \/ SchedLeave
  <2>1. active' = active /\ hw' = hw /\ ev' = ev /\ grab' = grab /\ at # "event"
    BY <1>16, ZenonT(20) DEF CloseEnd, SchedLeave, Kicking, jobVars, hwVars
  <2>2. at' # "wedge"
    BY <1>0, <1>16, ZenonT(20) DEF CloseEnd, SchedLeave, TypeOK
  <2> QED
    BY <1>15, <2>1, <2>2, Zenon
<1>17. CASE WedgeLeave
  <2>1. /\ active' = active /\ hw' = hw /\ ev' = ev /\ grab' = grab /\ at # "event"
    BY <1>17, ZenonT(20) DEF WedgeLeave, jobVars, hwVars
  <2>2. at' # "wedge"
    BY <1>0, <1>17, ZenonT(20) DEF WedgeLeave, TypeOK
  <2> QED
    BY <1>15, <2>1, <2>2, Zenon
<1>18. CASE TickDone
  <2>1. active' = active /\ hw' = hw /\ ev' = ev /\ grab' = grab /\ grab = {} /\ at' # "wedge"
    BY <1>18, ZenonT(20) DEF TickDone, Ticking, jobVars, hwVars
  <2> QED
    BY <2>1, UnitFrame, ZenonT(20)
<1>19. ASSUME NEW q \in HwQueues, EvStray(q)
       PROVE  UnitInv'
  <2>1. active' = active /\ hw' = hw /\ ev' = ev /\ grab' \subseteq grab /\ at' = at /\ at = "event"
    BY <1>19, ZenonT(20) DEF EvStray, EvNext, jobVars, hwVars
  <2> QED
    BY <2>1, UnitFrame, ZenonT(20)
<1>20. ASSUME NEW s \in Slots, Open(s) \/ CloseBegin(s)
       PROVE  UnitInv'
  <2>1. /\ active' = active /\ hw' = hw /\ ev' = ev /\ grab' = grab /\ at = "free" /\ at' \in {"free", "sched"}
    BY <1>20, ZenonT(20) DEF Open, CloseBegin, jobVars, hwVars, pcVars
  <2> QED
    BY <1>15, <2>1, ZenonT(20)
<1>21. ASSUME NEW s \in Slots, NEW op, NEW D, NEW R, SubmitOne(s, op, D) \/ SubmitCL(s, D, R)
       PROVE  UnitInv'
  <2>1. /\ active' = active /\ hw' = hw /\ ev' = ev /\ grab' = grab /\ at = "free" /\ at' = "sched"
    BY <1>21, ZenonT(20) DEF SubmitOne, SubmitCL, hwVars
  <2> QED
    BY <1>15, <2>1, ZenonT(20)
<1>22. ASSUME NEW m \in Modes, SetMode(m)
       PROVE  UnitInv'
  <2>1. /\ active' = active /\ hw' = hw /\ ev' = ev /\ grab' = grab /\ at = "free" /\ at' = "sched"
    BY <1>22, ZenonT(20) DEF SetMode, jobVars, hwVars
  <2> QED
    BY <1>15, <2>1, ZenonT(20)
<1>23. CASE (\E q \in Queues : Deadline(q)) \/ UNCHANGED vars
  <2>1. active' = active /\ hw' = hw /\ ev' = ev /\ grab' = grab /\ at' = at
    BY <1>23, ZenonT(20) DEF Deadline, vars, jobVars, hwVars, pcVars
  <2> QED
    BY <2>1, ZenonT(20) DEF UnitInv
<1>24. CASE Locked
  BY <1>3, <1>4, <1>6, <1>7, <1>8, <1>9, <1>10, <1>11, <1>16, <1>17, <1>18, <1>19, <1>24, ZenonT(20) DEF Locked
<1>25. CASE Requests
  BY <1>13, <1>20, <1>21, <1>22, <1>25, ZenonT(20) DEF Requests
<1>26. CASE Environment
  BY <1>14, <1>23, <1>26, QueueFacts, ZenonT(20) DEF Environment
<1> QED
  BY <1>12, <1>23, <1>24, <1>25, <1>26, Zenon DEF Next

\* The two invariants hold in every reachable state.
LEMMA UnitAlways == Spec => [](FenceInv /\ UnitInv)
<1>1. Init => UnitInv
  BY ZenonT(20) DEF Init, UnitInv
<1> QED
  BY <1>1, FenceAlways, UnitNext, PTL DEF Spec

\* A step that starts a unit is a kick of that unit.
LEMMA StartIsKick ==
  ASSUME TypeOK, [Next]_vars, ~(hw' \subseteq hw)
  PROVE  \E q \in HwQueues, s \in Slots : KickHw(q, s)
<1>1. CASE Locked
  <2>1. CASE CloseEnd \/ SchedLeave \/ WedgeLeave \/ TickCpu \/ TickTfuIdle \/ TickDone
    <3>1. hw' = hw
      BY <2>1, ZenonT(20) DEF CloseEnd, SchedLeave, WedgeLeave, TickCpu, TickTfuIdle, TickDone, hwVars
    <3> QED
      BY <3>1, ZenonT(20)
  <2>2. ASSUME NEW q \in Queues, NEW s \in Slots, Reap(q, s) PROVE FALSE
    BY <2>2, ZenonT(20) DEF Reap
  <2>3. ASSUME NEW s \in Slots, KickCpu(s) \/ KickCsdStuck(s) PROVE FALSE
    BY <2>3, ZenonT(20) DEF KickCpu, KickCsdStuck
  <2>4. ASSUME NEW q \in HwQueues, WedgeStep(q) \/ TickWedge(q) \/ EvStray(q) \/ \E e \in BOOLEAN : EvDone(q, e)
        PROVE  FALSE
    BY <2>4, ZenonT(20) DEF WedgeStep, TickWedge, EvStray, EvDone, hwVars
  <2> QED
    BY <1>1, <2>1, <2>2, <2>3, <2>4, ZenonT(20) DEF Locked
<1>2. CASE EvBegin \/ UNCHANGED vars
  BY <1>2, ZenonT(20) DEF EvBegin, vars, hwVars
<1>3. ASSUME Requests PROVE FALSE
  <2>1. hw' = hw
    BY <1>3, ZenonT(20) DEF Requests, Open, CloseBegin, SubmitOne, SubmitCL, SetMode, SelfTest, hwVars
  <2> QED
    BY <2>1, ZenonT(20)
<1>4. ASSUME Environment PROVE FALSE
  BY <1>4, ZenonT(20) DEF Environment, HwFinish, Deadline, TfuSilent
<1> QED
  BY <1>1, <1>2, <1>3, <1>4, Zenon DEF Next

\* In SERIAL mode no unit is started while another one works, whichever mode that one
\* was started in and whatever hangs, is reset or tested (v3da_set_mode): srv.nbusy is
\* exact, and a unit that works is one that it counts.
THEOREM SerialIsAlone == Spec => SerialAlone
<1>1. ASSUME FenceInv, UnitInv, [Next]_vars
      PROVE  [mode = "SERIAL" /\ ~(hw' \subseteq hw) => hw = {}]_vars
  <2> SUFFICES ASSUME mode = "SERIAL", ~(hw' \subseteq hw) PROVE hw = {}
    BY Zenon
  <2>1. TypeOK /\ Counted
    BY <1>1, Zenon DEF FenceInv
  <2>2. PICK q \in HwQueues, s \in Slots : KickHw(q, s)
    BY <1>1, <2>1, StartIsKick, Zenon
  <2>4. \A p \in HwQueues : active[p] = NoJob
    BY <2>1, <2>2, SerialKick, Zenon
  <2>5. hw \subseteq HwQueues
    BY <2>1 DEF TypeOK
  <2> QED
    BY <1>1, <2>4, <2>5 DEF UnitInv
<1> QED
  BY <1>1, UnitAlways, PTL DEF Spec, SerialAlone

=============================================================================
