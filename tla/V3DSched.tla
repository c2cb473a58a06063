------------------------------ MODULE V3DSched ------------------------------
(***************************************************************************)
(* The scheduler of the asynchronous V3D render server: client slots and   *)
(* the fence page, the per-client FIFOs of every queue, the job on each    *)
(* hardware unit, completion, the watchdog and the GPU reset.              *)
(*                                                                         *)
(* Sources: v3da_jobs.c, v3da_sched.c (fence page), v3da_main.c (client    *)
(* open and close), all under src/tools/gpu-lane/v3d-async/.               *)
(*                                                                         *)
(* One mutex (srv.lock) covers every handler.  A handler is a chain of     *)
(* steps taken while `at' is not "free"; nothing but the hardware moves    *)
(* in between, yet every intermediate state is visible, as it is to a      *)
(* client that reads the shared fence page without the lock.               *)
(***************************************************************************)
EXTENDS Integers, Sequences, FiniteSets

CONSTANTS
  NSlots,       \* V3DA_MAX_CLIENTS: rows of the fence page
  MaxJobs,      \* bound: jobs ever submitted
  MaxGen,       \* bound: owners a slot ever has
  MaxDeps,      \* bound: in-fences of one job (V3DA_SUBMIT_MAX_SEMS)
  Ops,          \* the submit operations the clients use
  Modes,        \* the scheduling modes in use
  RenderSems,   \* TRUE: in-fences with V3DA_SEM_RENDER are in use
  MayHang,      \* the hardware units that may fail to finish a job
  CsdMayStick   \* TRUE: the CSD unit may still hold a dispatch at a kick

AllOps == {"CL", "RCL", "TFU", "CSD", "NOP", "JOIN", "SELFTEST"}
AllModes == {"SERIAL", "PIPELINE"}

ASSUME SchedAssumption ==
  /\ NSlots \in Nat \ {0}
  /\ MaxJobs \in Nat \ {0}
  /\ MaxGen \in Nat
  /\ MaxDeps \in Nat
  /\ Ops \subseteq AllOps
  /\ Modes \subseteq AllModes
  /\ Modes # {}
  /\ RenderSems \in BOOLEAN
  /\ MayHang \subseteq {0, 1, 2, 3}
  /\ CsdMayStick \in BOOLEAN

Slots == 0 .. NSlots - 1
JobIds == 1 .. MaxJobs
NoJob == 0

\* enum v3da_queue; no operation ever makes a job for V3DA_Q_CACHE_CLEAN (4)
BIN == 0
RENDER == 1
TFU == 2
CSD == 3
CPU == 5
HwQueues == {BIN, RENDER, TFU, CSD}
Queues == HwQueues \cup {CPU}

VARIABLES
  used,       \* clients[s].used
  gen,        \* slot_gen[s], also the page's slot[s].gen
  nextSeq,    \* clients[s].next_seq[q]
  completed,  \* page: slot[s].completed[q]
  errorSeq,   \* page: slot[s].error_seq, a queue and a seqno
  deadFlush,  \* dead_flush[s][q]
  job,        \* the allocated v3da_job_t, by gseq
  gseq,       \* the last gseq given out
  fifo,       \* q[q].head[s] ... tail[s]
  active,     \* q[q].active
  rr,         \* q[q].rr
  pending,    \* q[q].pending
  nbusy,      \* srv.nbusy
  hwSub,      \* page: hw_submitted[q]
  hwDone,     \* page: hw_completed[q]
  mode,       \* srv.mode
  hw,         \* the hardware units that execute a job now
  ev,         \* done bits in hw.ev_core, hw.ev_hub
  late,       \* queues whose active job is past its deadline
  at,         \* where the thread that holds srv.lock is
  ret,        \* where it goes after v3da_sched_run
  wret,       \* where it goes after wedge
  grab,       \* done bits the event thread took out of ev
  closing     \* the slot being closed, or -1

pageVars == <<completed, errorSeq>>
slotVars == <<used, gen, nextSeq, deadFlush>>
jobVars == <<job, fifo, active, pending, nbusy, hwSub, hwDone>>
hwVars == <<hw, ev, late>>
pcVars == <<at, ret, wret, grab, closing>>
vars == <<pageVars, slotVars, jobVars, hwVars, pcVars, gseq, rr, mode>>

-----------------------------------------------------------------------------
(* Fences                                                                  *)

Fence == [slot : Slots, q : Queues, gen : Nat, seq : Nat]

FreeJob == [st |-> "free", q |-> CPU, slot |-> 0, gen |-> 0, seq |-> 0,
            deps |-> {}, mate |-> NoJob, derr |-> FALSE]

FenceOf(j) == [slot |-> job[j].slot, q |-> job[j].q,
               gen |-> job[j].gen, seq |-> job[j].seq]

\* v3da_fence_signaled
Signaled(f) == \/ gen[f.slot] # f.gen
               \/ completed[f.slot][f.q] >= f.seq

\* The fences handed out and not yet signalled: what an in-syncobj, an
\* attached fence or a shared BO can make a new job wait for (add_dep keeps
\* only those).
PendingFences ==
  UNION {{[slot |-> s, q |-> q, gen |-> gen[s], seq |-> n] :
             n \in completed[s][q] + 1 .. nextSeq[s][q]} :
         s \in Slots, q \in Queues}

\* v3da_slot_busy
SlotBusy(s) == \E q \in Queues : active[q] # NoJob /\ job[active[q]].slot = s

-----------------------------------------------------------------------------
(* Initial state: the server just started, no client                       *)

Init ==
  /\ used = [s \in Slots |-> FALSE]
  /\ gen = [s \in Slots |-> 0]
  /\ nextSeq = [s \in Slots |-> [q \in Queues |-> 0]]
  /\ completed = [s \in Slots |-> [q \in Queues |-> 0]]
  /\ errorSeq = [s \in Slots |-> <<0, 0>>]
  /\ deadFlush = [s \in Slots |-> [q \in Queues |-> 0]]
  /\ job = [j \in JobIds |-> FreeJob]
  /\ gseq = 0
  /\ fifo = [q \in Queues |-> [s \in Slots |-> <<>>]]
  /\ active = [q \in Queues |-> NoJob]
  /\ rr = [q \in Queues |-> 0]
  /\ pending = [q \in Queues |-> 0]
  /\ nbusy = 0
  /\ hwSub = [q \in Queues |-> 0]
  /\ hwDone = [q \in Queues |-> 0]
  /\ mode \in Modes
  /\ hw = {}
  /\ ev = {}
  /\ late = {}
  /\ at = "free"
  /\ ret = "free"
  /\ wret = "free"
  /\ grab = {}
  /\ closing = -1

-----------------------------------------------------------------------------
(* Clients come and go                                                     *)

\* client_open and v3da_slot_assign: the first slot that is unused and has no
\* job of its previous owner in flight; the row is zeroed, then the new
\* generation is published.
\* Mutant: the slot of a dead client is reused under its running job.
FreeIgnoringJobs(s) == ~used[s]

Free(s) == ~used[s] /\ ~SlotBusy(s)

Open(s) ==
  /\ at = "free"
  /\ Free(s)
  /\ \A t \in Slots : t < s => ~Free(t)
  /\ gen[s] < MaxGen
  /\ used' = [used EXCEPT ![s] = TRUE]
  /\ gen' = [gen EXCEPT ![s] = @ + 1]
  /\ nextSeq' = [nextSeq EXCEPT ![s] = [q \in Queues |-> 0]]
  /\ completed' = [completed EXCEPT ![s] = [q \in Queues |-> 0]]
  /\ deadFlush' = [deadFlush EXCEPT ![s] = [q \in Queues |-> 0]]
  /\ errorSeq' = [errorSeq EXCEPT ![s] = <<0, 0>>]
  /\ UNCHANGED <<jobVars, hwVars, pcVars, gseq, rr, mode>>

\* The job of slot s on queue q's unit, if it is there
ActiveOf(s, q) == active[q] # NoJob /\ job[active[q]].slot = s

\* Jobs of slot s that were never kicked (job_discard frees them)
Unstarted(s) == {j \in JobIds : job[j].st = "queued" /\ job[j].slot = s}

\* v3da_jobs_client_gone: which queues of a dying client complete at once
\* Mutants: the running job is not excepted; the discarded fences are forgotten.
FlushAnyway(s, q) == nextSeq[s][q] > completed[s][q]
FlushNever(s, q) == FALSE

FlushNow(s, q) == ~ActiveOf(s, q) /\ nextSeq[s][q] > completed[s][q]

\* client_close up to the scheduler run inside v3da_jobs_client_gone.
\* The last flushed queue is the one left in error_seq.
CloseBegin(s) ==
  /\ at = "free"
  /\ used[s]
  /\ fifo' = [q \in Queues |-> [fifo[q] EXCEPT ![s] = <<>>]]
  /\ pending' = [q \in Queues |-> pending[q] - Len(fifo[q][s])]
  /\ job' = [j \in JobIds |->
               IF j \in Unstarted(s) THEN FreeJob
               ELSE IF job[j].mate \in Unstarted(s) THEN [job[j] EXCEPT !.mate = NoJob]
               ELSE job[j]]
  /\ deadFlush' = [deadFlush EXCEPT ![s] = nextSeq[s]]
  /\ completed' = [completed EXCEPT ![s] =
                     [q \in Queues |-> IF FlushNow(s, q) THEN nextSeq[s][q] ELSE completed[s][q]]]
  /\ errorSeq' = [errorSeq EXCEPT ![s] =
                    IF \E q \in Queues : FlushNow(s, q)
                    THEN LET q == CHOOSE q \in Queues :
                                    /\ FlushNow(s, q)
                                    /\ \A p \in Queues : FlushNow(s, p) => p <= q
                         IN <<q, nextSeq[s][q]>>
                    ELSE @]
  /\ closing' = s
  /\ at' = "sched"
  /\ ret' = "close"
  /\ UNCHANGED <<used, gen, nextSeq, active, nbusy, hwSub, hwDone, hwVars,
                 wret, grab, gseq, rr, mode>>

\* The rest of client_close: only now is the slot unused.
CloseEnd ==
  /\ at = "close"
  /\ used' = [used EXCEPT ![closing] = FALSE]
  /\ closing' = -1
  /\ at' = "free"
  /\ ret' = "free"
  /\ UNCHANGED <<gen, nextSeq, deadFlush, pageVars, jobVars, hwVars, wret, grab,
                 gseq, rr, mode>>

-----------------------------------------------------------------------------
(* Completion                                                              *)

\* v3da_fence_complete: the seqno that is published.  A dead client's
\* discarded jobs complete together with its last one.
\* Mutants: dead_flush is not applied; the submit counter is published.
CompletedSeqOwn(j) == job[j].seq
CompletedSeqGlobal(j) == gseq

CompletedSeq(j) ==
  LET s == job[j].slot
      q == job[j].q
  IN  IF ~used[s] /\ deadFlush[s][q] > job[j].seq THEN deadFlush[s][q] ELSE job[j].seq

FenceComplete(j, error) ==
  LET s == job[j].slot
      q == job[j].q
  IN  /\ completed' = [completed EXCEPT ![s][q] = CompletedSeq(j)]
      /\ errorSeq' = IF error \/ CompletedSeq(j) # job[j].seq
                     THEN [errorSeq EXCEPT ![s] = <<q, CompletedSeq(j)>>]
                     ELSE errorSeq
      /\ hwDone' = [hwDone EXCEPT ![q] = @ + 1]

\* The CL link is undone; a failed bin marks its render.
Unlinked(j, error) ==
  [i \in JobIds |->
    IF i = j THEN FreeJob
    ELSE IF i = job[j].mate
         THEN [job[i] EXCEPT !.mate = NoJob,
                             !.derr = @ \/ (error /\ job[j].q = BIN)]
         ELSE job[i]]

\* A job that completes without a kick counts as submitted first.
\* Mutant: it does not.
CountedSubmitNot(j) == hwSub

CountedSubmit(j) ==
  IF active[job[j].q] = j THEN hwSub ELSE [hwSub EXCEPT ![job[j].q] = @ + 1]

\* job_done
JobDone(j, error) ==
  LET q == job[j].q
      running == active[q] = j
  IN  /\ active' = IF running THEN [active EXCEPT ![q] = NoJob] ELSE active
      /\ nbusy' = IF running /\ q \in HwQueues THEN nbusy - 1 ELSE nbusy
      /\ late' = IF running THEN late \ {q} ELSE late
      /\ hwSub' = CountedSubmit(j)
      /\ job' = Unlinked(j, error)
      /\ FenceComplete(j, error)

-----------------------------------------------------------------------------
(* v3da_sched_run                                                          *)

\* job_ready
\* Mutants: the bin job, or the in-fences, are not waited for.
ReadyWithoutBin(j) == \A f \in job[j].deps : Signaled(f)
ReadyWithoutDeps(j) == job[j].q = RENDER => job[j].mate = NoJob

Ready(j) == /\ job[j].q = RENDER => job[j].mate = NoJob
            /\ \A f \in job[j].deps : Signaled(f)

ReadyHead(q, s) == fifo[q][s] # <<>> /\ Ready(Head(fifo[q][s]))

Popped(q, s) == [fifo EXCEPT ![q][s] = Tail(@)]

\* reap_failed_heads, once at the start of every run: a head whose bin failed
\* completes without running.  A head the kicks uncover waits for the next run.
\* Mutant: nobody looks at dep_error.
ReapableNever(q, s) == FALSE

Reapable(q, s) == ReadyHead(q, s) /\ job[Head(fifo[q][s])].derr

Kicking ==
  \/ at = "kick"
  \/ at = "sched" /\ \A q \in Queues, s \in Slots : ~Reapable(q, s)

Reap(q, s) ==
  /\ at = "sched"
  /\ Reapable(q, s)
  /\ fifo' = Popped(q, s)
  /\ pending' = [pending EXCEPT ![q] = @ - 1]
  /\ JobDone(Head(fifo[q][s]), TRUE)
  /\ UNCHANGED <<slotVars, hw, ev, pcVars, gseq, rr, mode>>

\* Round-robin: the first ready client from q[q].rr on
Distance(q, s) == (s + NSlots - (rr[q] % NSlots)) % NSlots

Turn(q, s) == /\ active[q] = NoJob
              /\ ReadyHead(q, s)
              /\ \A t \in Slots : ReadyHead(q, t) => Distance(q, s) <= Distance(q, t)

CpuTurn(s) == Turn(CPU, s)

\* SERIAL: one hardware job at a time, the globally oldest ready one
\* Mutant: SERIAL looks at its own queue only.
SerialTurnPerQueue(q, s) ==
  /\ \A t \in Slots : ~CpuTurn(t)
  /\ mode = "SERIAL"
  /\ active[q] = NoJob
  /\ ReadyHead(q, s)

SerialTurn(q, s) ==
  /\ \A t \in Slots : ~CpuTurn(t)
  /\ mode = "SERIAL"
  /\ nbusy = 0
  /\ ReadyHead(q, s)
  /\ \A p \in HwQueues, t \in Slots :
        ReadyHead(p, t) => Head(fifo[q][s]) <= Head(fifo[p][t])

\* PIPELINE: every idle hardware queue, in the order of the queue numbers
PipelineTurn(q, s) ==
  /\ \A t \in Slots : ~CpuTurn(t)
  /\ mode = "PIPELINE"
  /\ Turn(q, s)
  /\ \A p \in HwQueues, t \in Slots : Turn(p, t) => q <= p

\* drain_for_kick: what the kick leaves of the folded done bits
\* Mutants: no drain at all; INT_CLR drops the bits of every queue.
DrainedNot(q) == ev
DrainedAll(q) == {}

Drained(q) == ev \ {q}

\* job_kick of the head of slot s on queue q
Kick(q, s) ==
  LET j == Head(fifo[q][s])
  IN  /\ fifo' = Popped(q, s)
      /\ pending' = [pending EXCEPT ![q] = @ - 1]
      /\ active' = [active EXCEPT ![q] = j]
      /\ job' = [job EXCEPT ![j].st = "active"]
      /\ hwSub' = [hwSub EXCEPT ![q] = @ + 1]
      /\ nbusy' = IF q \in HwQueues THEN nbusy + 1 ELSE nbusy
      /\ UNCHANGED <<pageVars, slotVars, hwDone, gseq, mode, ret, grab, closing, late>>

KickCpu(s) ==
  /\ Kicking
  /\ CpuTurn(s)
  /\ Kick(CPU, s)
  /\ rr' = [rr EXCEPT ![CPU] = s + 1]
  /\ at' = "kick"
  /\ UNCHANGED <<hw, ev, wret>>

\* Which queue runs next, and the round-robin step that PIPELINE alone takes
\* Mutant: the round-robin index is incremented and never wrapped.
HwTurnCounting(q, s) ==
  \/ SerialTurn(q, s) /\ UNCHANGED rr
  \/ PipelineTurn(q, s) /\ rr' = [rr EXCEPT ![q] = @ + 1]

HwTurn(q, s) ==
  \/ SerialTurn(q, s) /\ UNCHANGED rr
  \/ PipelineTurn(q, s) /\ rr' = [rr EXCEPT ![q] = s + 1]

KickHw(q, s) ==
  /\ Kicking
  /\ HwTurn(q, s)
  /\ Kick(q, s)
  /\ hw' = hw \cup {q}
  /\ ev' = Drained(q)
  /\ at' = "kick"
  /\ UNCHANGED wret

\* kick_csd finds the unit busy: the reset of wedge, whose failures follow;
\* CSD is the last hardware queue, so the scheduler pass is over after it.
KickCsdStuck(s) ==
  /\ Kicking
  /\ CsdMayStick
  /\ HwTurn(CSD, s)
  /\ Kick(CSD, s)
  /\ hw' = {}
  /\ ev' = {}
  /\ at' = "wedge"
  /\ wret' = "ret"

SchedLeave ==
  /\ Kicking
  /\ \A s \in Slots : ~CpuTurn(s)
  /\ \A q \in HwQueues, s \in Slots : ~SerialTurn(q, s) /\ ~PipelineTurn(q, s)
  /\ at' = ret
  /\ UNCHANGED <<pageVars, slotVars, jobVars, hwVars, ret, wret, grab, closing, gseq, rr, mode>>

-----------------------------------------------------------------------------
(* wedge: the reset has killed every unit, their jobs fail one by one      *)

WedgeStep(q) ==
  /\ at = "wedge"
  /\ active[q] # NoJob
  /\ \A p \in HwQueues : active[p] # NoJob => q <= p
  /\ JobDone(active[q], TRUE)
  /\ UNCHANGED <<slotVars, fifo, pending, hw, ev, pcVars, gseq, rr, mode>>

WedgeLeave ==
  /\ at = "wedge"
  /\ \A q \in HwQueues : active[q] = NoJob
  /\ at' = IF wret = "ret" THEN ret ELSE "event"
  /\ wret' = "free"
  /\ UNCHANGED <<pageVars, slotVars, jobVars, hwVars, ret, grab, closing, gseq, rr, mode>>

-----------------------------------------------------------------------------
(* The event thread: take the done bits, complete, tick, schedule          *)

EvBegin ==
  /\ at = "free"
  /\ at' = "event"
  /\ grab' = ev
  /\ ev' = {}
  /\ UNCHANGED <<pageVars, slotVars, jobVars, hw, late, ret, wret, closing, gseq, rr, mode>>

\* v3da_jobs_events looks at FLDONE, FRDONE, CSDDONE and then at the TFU bits.
EvRank(q) == IF q = TFU THEN CSD + 1 ELSE q

EvNext(q) == /\ at = "event"
             /\ q \in grab
             /\ \A p \in grab : EvRank(q) <= EvRank(p)

EvDone(q, error) ==
  /\ EvNext(q)
  /\ active[q] # NoJob
  /\ error => q = TFU          \* only the TFU reports a failure (TFUF)
  /\ JobDone(active[q], error)
  /\ grab' = grab \ {q}
  /\ UNCHANGED <<slotVars, fifo, pending, hw, ev, at, ret, wret, closing, gseq, rr, mode>>

\* A done bit of an idle queue is counted (stray_fldone, stray_tfuc) or ignored.
EvStray(q) ==
  /\ EvNext(q)
  /\ active[q] = NoJob
  /\ grab' = grab \ {q}
  /\ UNCHANGED <<pageVars, slotVars, jobVars, hwVars, at, ret, wret, closing, gseq, rr, mode>>

\* v3da_jobs_tick.  First the CPU job ...
Ticking == at = "event" /\ grab = {}

TickCpu ==
  /\ Ticking
  /\ active[CPU] # NoJob
  /\ CPU \in late
  /\ JobDone(active[CPU], FALSE)
  /\ UNCHANGED <<slotVars, fifo, pending, hw, ev, pcVars, gseq, rr, mode>>

\* ... then the hardware queues in their order: a TFU that went idle without
\* a TFUC is completed,
TickTfuIdle ==
  /\ Ticking
  /\ late \cap {CPU, BIN, RENDER} = {}
  /\ active[TFU] # NoJob
  /\ TFU \notin hw
  /\ JobDone(active[TFU], FALSE)
  /\ UNCHANGED <<slotVars, fifo, pending, hw, ev, pcVars, gseq, rr, mode>>

\* a job past its limit resets the GPU.
TickWedge(q) ==
  /\ Ticking
  /\ CPU \notin late
  /\ q \in late
  /\ \A p \in late : q <= p
  /\ ~(TFU \in late /\ TFU \notin hw /\ TFU <= q)
  /\ hw' = {}
  /\ ev' = {}
  /\ at' = "wedge"
  /\ wret' = "event"
  /\ UNCHANGED <<pageVars, slotVars, jobVars, late, ret, grab, closing, gseq, rr, mode>>

TickDone ==
  /\ Ticking
  /\ late = {}
  /\ at' = "sched"
  /\ ret' = "free"
  /\ UNCHANGED <<pageVars, slotVars, jobVars, hwVars, wret, grab, closing, gseq, rr, mode>>

-----------------------------------------------------------------------------
(* Requests: each ends with a scheduler run                                *)

\* job_new and the assignment of the seqno
NewJob(s, q, deps, mate) ==
  [st |-> "queued", q |-> q, slot |-> s, gen |-> gen[s], seq |-> nextSeq[s][q] + 1,
   deps |-> deps, mate |-> mate, derr |-> FALSE]

\* The queue of an operation that makes a single job
OpQueue == [RCL |-> RENDER, TFU |-> TFU, CSD |-> CSD, NOP |-> CPU, JOIN |-> CPU]

\* v3da_submit (render-only CL, TFU, CSD), v3da_submit_nop, v3da_bo_attach_fence
SubmitOne(s, op, deps) ==
  LET q == OpQueue[op]
      j == gseq + 1
  IN  /\ at = "free"
      /\ used[s]
      /\ op \in Ops \ {"CL", "SELFTEST"}
      /\ op = "NOP" => deps = {}
      /\ op = "JOIN" => deps # {}
      /\ j <= MaxJobs
      /\ gseq' = j
      /\ job' = [job EXCEPT ![j] = NewJob(s, q, deps, NoJob)]
      /\ nextSeq' = [nextSeq EXCEPT ![s][q] = @ + 1]
      /\ fifo' = [fifo EXCEPT ![q][s] = Append(@, j)]
      /\ pending' = [pending EXCEPT ![q] = @ + 1]
      /\ at' = "sched"
      /\ UNCHANGED <<pageVars, used, gen, deadFlush, active, nbusy, hwSub, hwDone, hwVars,
                     ret, wret, grab, closing, rr, mode>>

\* v3da_submit of a CL with a binning list: a bin and a render job, linked.
\* deps gate the bin, rdeps (V3DA_SEM_RENDER) only the render.
SubmitCL(s, deps, rdeps) ==
  LET b == gseq + 1
      r == gseq + 2
  IN  /\ at = "free"
      /\ used[s]
      /\ "CL" \in Ops
      /\ r <= MaxJobs
      /\ gseq' = r
      /\ job' = [job EXCEPT ![b] = NewJob(s, BIN, deps, r),
                            ![r] = NewJob(s, RENDER, rdeps, b)]
      /\ nextSeq' = [nextSeq EXCEPT ![s][BIN] = @ + 1, ![s][RENDER] = @ + 1]
      /\ fifo' = [fifo EXCEPT ![BIN][s] = Append(@, b), ![RENDER][s] = Append(@, r)]
      /\ pending' = [pending EXCEPT ![BIN] = @ + 1, ![RENDER] = @ + 1]
      /\ at' = "sched"
      /\ UNCHANGED <<pageVars, used, gen, deadFlush, active, nbusy, hwSub, hwDone, hwVars,
                     ret, wret, grab, closing, rr, mode>>

\* The in-fences a submit can name
DepSets == {D \in SUBSET PendingFences : Cardinality(D) <= MaxDeps}

RenderDepSets == IF RenderSems THEN DepSets ELSE {{}}

\* v3da_set_mode
SetMode(m) ==
  /\ at = "free"
  /\ m # mode
  /\ mode' = m
  /\ at' = "sched"
  /\ UNCHANGED <<pageVars, slotVars, jobVars, hwVars, ret, wret, grab, closing, gseq, rr>>

\* v3da_hw_selftest: raises FLDONE and TFUC by hand, while both queues idle
SelfTest ==
  /\ at = "free"
  /\ "SELFTEST" \in Ops
  /\ active[BIN] = NoJob
  /\ active[TFU] = NoJob
  /\ ev' = ev \cup {BIN, TFU}
  /\ UNCHANGED <<pageVars, slotVars, jobVars, hw, late, pcVars, gseq, rr, mode>>

-----------------------------------------------------------------------------
(* The hardware and the clock                                              *)

\* A unit finishes: its done bit is latched and folded into the event words.
HwFinish(q) ==
  /\ q \in hw
  /\ hw' = hw \ {q}
  /\ ev' = ev \cup {q}
  /\ UNCHANGED <<pageVars, slotVars, jobVars, late, pcVars, gseq, rr, mode>>

\* The TFU goes idle and its TFUC never arrives.
TfuSilent ==
  /\ TFU \in hw
  /\ TFU \in MayHang
  /\ hw' = hw \ {TFU}
  /\ UNCHANGED <<pageVars, slotVars, jobVars, ev, late, pcVars, gseq, rr, mode>>

\* Time passes a job's deadline: done_at_us of a CPU job; no progress for
\* wedge_ms, or WD_HARD_CAP_US, of a hardware job.  Both are compared with a
\* clock read before the pass, so only time before the pass counts.
Deadline(q) ==
  /\ at = "free"
  /\ active[q] # NoJob
  /\ q \notin late
  /\ q \in MayHang \cup {CPU}
  /\ late' = late \cup {q}
  /\ UNCHANGED <<pageVars, slotVars, jobVars, hw, ev, pcVars, gseq, rr, mode>>

-----------------------------------------------------------------------------

\* The steps of whoever holds the lock
Locked ==
  \/ CloseEnd \/ SchedLeave \/ WedgeLeave \/ TickCpu \/ TickTfuIdle \/ TickDone
  \/ \E q \in Queues, s \in Slots : Reap(q, s)
  \/ \E s \in Slots : KickCpu(s) \/ KickCsdStuck(s)
  \/ \E q \in HwQueues, s \in Slots : KickHw(q, s)
  \/ \E q \in HwQueues : \/ WedgeStep(q) \/ TickWedge(q) \/ EvStray(q)
                         \/ \E error \in BOOLEAN : EvDone(q, error)

Requests ==
  \/ \E s \in Slots : \/ Open(s)
                      \/ CloseBegin(s)
                      \/ \E op \in Ops \ {"CL", "SELFTEST"}, D \in DepSets : SubmitOne(s, op, D)
                      \/ \E D \in DepSets, R \in RenderDepSets : SubmitCL(s, D, R)
  \/ \E m \in Modes : SetMode(m)
  \/ SelfTest

Environment ==
  \/ \E q \in HwQueues : HwFinish(q)
  \/ \E q \in Queues : Deadline(q)
  \/ TfuSilent

Next == Locked \/ EvBegin \/ Requests \/ Environment

Spec == Init /\ [][Next]_vars

\* The lock is fair to the event thread, which never sleeps longer than its
\* backstop; time passes.  A unit that may hang is not assumed to finish.
Fairness ==
  /\ WF_vars(Locked)
  /\ WF_vars(EvBegin)
  /\ SF_vars(Deadline(CPU))
  /\ \A q \in HwQueues : IF q \in MayHang THEN SF_vars(Deadline(q)) ELSE WF_vars(HwFinish(q))

FairSpec == Spec /\ Fairness

=============================================================================
