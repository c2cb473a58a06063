--------------------------- MODULE V3DSchedProps ---------------------------
(***************************************************************************)
(* What the scheduler of the render server promises (V3DSched).            *)
(***************************************************************************)
EXTENDS V3DSched

Jobs == [st : {"free", "queued", "active"}, q : Queues, slot : Slots, gen : Nat,
         seq : Nat, deps : SUBSET Fence, mate : JobIds \cup {NoJob}, derr : BOOLEAN]

\* The type invariant of the server's state, with its bookkeeping of threads.
TypeOK ==
  /\ used \in [Slots -> BOOLEAN]
  /\ gen \in [Slots -> Nat]
  /\ nextSeq \in [Slots -> [Queues -> Nat]]
  /\ completed \in [Slots -> [Queues -> Nat]]
  /\ errorSeq \in [Slots -> Queues \X Nat]
  /\ deadFlush \in [Slots -> [Queues -> Nat]]
  /\ job \in [JobIds -> Jobs]
  /\ gseq \in 0 .. MaxJobs
  /\ fifo \in [Queues -> [Slots -> Seq(JobIds)]]
  /\ active \in [Queues -> JobIds \cup {NoJob}]
  /\ rr \in [Queues -> 0 .. NSlots]
  /\ pending \in [Queues -> Int]
  /\ nbusy \in Int
  /\ hwSub \in [Queues -> Nat]
  /\ hwDone \in [Queues -> Nat]
  /\ mode \in AllModes
  /\ hw \in SUBSET HwQueues
  /\ ev \in SUBSET HwQueues
  /\ late \in SUBSET Queues
  /\ at \in {"free", "event", "sched", "kick", "wedge", "close"}
  /\ ret \in {"free", "close"}
  /\ wret \in {"free", "event", "ret"}
  /\ grab \in SUBSET HwQueues
  /\ closing \in Slots \cup {-1}

Live(j) == job[j].st # "free"

\* A fence is never signalled while its job still waits or runs, on any queue:
\* what every dependency, every wait and every buffer release relies on.
NoEarlySignal == \A j \in JobIds : Live(j) => ~Signaled(FenceOf(j))

\* The same for the queues that never complete a job out of turn: all but
\* RENDER, whose heads reap_failed_heads may complete past a running job.
NoEarlySignalNoReap ==
  \A j \in JobIds : Live(j) /\ job[j].q # RENDER => ~Signaled(FenceOf(j))

\* No job is on a unit while a job it has to wait for (an in-fence resolved at
\* submit, or its own bin) still waits or runs: job_ready, over whole runs.
DepsFinished ==
  \A q \in Queues : active[q] # NoJob =>
    \A i \in JobIds : Live(i) =>
      /\ FenceOf(i) \notin job[active[q]].deps
      /\ q = RENDER => job[i].mate # active[q]

\* A render is never kicked against the tile state of a bin that failed.
NoRenderOfFailedBin == active[RENDER] # NoJob => ~job[active[RENDER]].derr

\* A slot is reassigned only after the last job of its owner has left the
\* hardware (v3da_slot_busy): the row a running job will complete into is
\* still its own.
RowKeptWhileRunning ==
  \A j \in JobIds : Live(j) =>
    /\ job[j].gen = gen[job[j].slot]
    /\ job[j].st = "queued" => used[job[j].slot]

\* Every job is in exactly one place, and the counters the server decides by
\* (srv.nbusy, q.pending, hw_submitted against hw_completed) count exactly
\* the jobs that are there.
Placed(j) ==
  {p \in Queues \X Slots \X JobIds :
     p[3] <= Len(fifo[p[1]][p[2]]) /\ fifo[p[1]][p[2]][p[3]] = j}

Accounting ==
  /\ \A j \in JobIds :
       /\ job[j].st = "queued" <=> Placed(j) # {}
       /\ job[j].st = "active" <=> \E q \in Queues : active[q] = j
       /\ Cardinality(Placed(j)) <= 1
       /\ \A p \in Placed(j) : p[1] = job[j].q /\ p[2] = job[j].slot
  /\ \A q \in Queues :
       /\ pending[q] = Cardinality({j \in JobIds : job[j].st = "queued" /\ job[j].q = q})
       /\ hwSub[q] - hwDone[q] = (IF active[q] = NoJob THEN 0 ELSE 1)
  /\ nbusy = Cardinality({q \in HwQueues : active[q] # NoJob})

\* The server and the hardware agree: a unit runs only the queue's active job,
\* and a unit that finished has left a done bit for the event thread to take;
\* no kick or self-test loses or steals it (drain_for_kick).
HardwareAgrees ==
  \A q \in HwQueues :
    /\ q \in hw => active[q] # NoJob
    /\ active[q] # NoJob /\ q \notin hw =>
         at = "wedge" \/ q \in ev \cup grab \/ (q = TFU /\ TFU \in MayHang)

\* No completion is taken for a job whose unit still runs it: the done bit of
\* an earlier job or of the self-test never completes a later one.
NoStaleCompletion ==
  \A q \in HwQueues : q \in hw => q \notin ev \cup grab

\* In SERIAL mode no unit is started while another one runs, whichever mode
\* those were started in ("Both switches are safe at any time", v3da_set_mode).
SerialAlone == [][mode = "SERIAL" /\ ~(hw' \subseteq hw) => hw = {}]_vars

\* All fences of a client that is gone are signalled once its last job is off
\* the hardware (v3da_jobs_client_gone, dead_flush): nobody waits for a
\* discarded job.
DeadFlushed ==
  \A s \in Slots, q \in Queues :
    ~used[s] /\ ~ActiveOf(s, q) => completed[s][q] = nextSeq[s][q]

\* The fence page implements the timeline its readers rely on.
Timeline == INSTANCE FenceTimeline
              WITH Rows <- Slots, Lines <- Queues,
                   epoch <- gen, issued <- nextSeq, signalled <- completed

PageIsTimeline == Timeline!Spec

\* Every job that was accepted leaves the server: it runs, fails or is
\* discarded, whatever hangs and whoever dies.
EveryJobLeaves == \A j \in JobIds : Live(j) ~> ~Live(j)
=============================================================================
