----------------------------- MODULE V3DBoProps -----------------------------
(***************************************************************************)
(* What the BO manager of the render server promises (V3DBo).              *)
(***************************************************************************)
EXTENDS V3DBo

LiveJob(j) == job[j].st # "free"

\* Every reference is somebody's: a BO's count is its creator's handle, its
\* imports and the open descriptors of its name, its pins are the jobs that
\* hold it in their list, and its name is published only while referenced
\* (bo_unref, v3da_bo_unpin, export_withdraw).
HandleRefs ==
  \A b \in Bos : bo[b].st = "live" =>
    /\ bo[b].refs = (IF bo[b].owner = NoSlot THEN 0 ELSE 1)
                     + Cardinality(bo[b].sharers) + bo[b].opens
    /\ bo[b].inflight = Cardinality({j \in JobIds : LiveJob(j) /\ job[j].q # BIN /\ b \in names[j]})
    /\ bo[b].exported => bo[b].refs > 0
    /\ bo[b].refs + bo[b].inflight > 0

\* A block is handed out again only when no unit can still write it: every job
\* that was on a unit when the block was unmapped has left it, no live job
\* names it, and no translation of it is left in the TLB ("let a quarantined
\* BO pass while an older job still runs", job_done; v3da_bo_quarantine_poll).
BlockIdle ==
  \A b \in Bos : bo[b].st = "gone" =>
    /\ ~bo[b].stale
    /\ \A q \in Queues : active[q] # NoJob =>
         active[q] \notin ran[b] /\ b \notin names[active[q]]

\* No client has gone yet (where no slot is ever reopened, MaxGen = 1).
AllAlive == closing = -1 /\ \A s \in Slots : gen[s] = 0 \/ used[s]

\* A BO whose last-use fences are all signalled is idle: what BO_WAIT,
\* BO_LAST_FENCE and the implicit dependencies of the next submit conclude
\* from them ("last[] still implies every earlier use of the BO", mark_use).
IdleIsIdle ==
  \A b \in Bos, j \in JobIds :
    bo[b].st = "live" /\ LiveJob(j) /\ b \in names[j] => PendingUses(b) # {}

\* The same as long as no client has died: a dying client's queued uses are
\* signalled at once, the uses they waited for are not over.
IdleWhileAlive == AllAlive => IdleIsIdle

\* A submit that names a BO another client still uses waits for that use: two
\* clients never use one BO at the same time (v3da_bo_implicit_deps).
NoSharedUse ==
  \A p, q \in Queues :
    p # q /\ active[p] # NoJob /\ active[q] # NoJob
      /\ job[active[p]].slot # job[active[q]].slot
      => names[active[p]] \cap names[active[q]] = {}

\* What a submit names stays mapped until the last job of the submit is over,
\* whoever closes it and whichever of its jobs fails: the jobs of a client that
\* has not gone never lose the pages under them ("every BO a submit names is
\* pinned until the job that holds the list completes; a close while pinned only
\* drops the handle", v3da_bo.c).  Of a client that goes, the render that holds
\* the list is discarded while its bin may be on the unit.
UsedIsMapped ==
  \A j \in JobIds :
    LiveJob(j) /\ used[job[j].slot] /\ closing # job[j].slot
      => \A b \in names[j] : bo[b].st = "live"

\* A job is on a unit only after a TLB flush that shows it the pages of every
\* BO it names ("The TLB flush that makes these PTEs visible happens in every
\* job prologue", v3da_bo_create).  A render-only list is the exception: its kick
\* is the one that does not flush.
SeenByJob ==
  \A q \in Queues : active[q] # NoJob => \A b \in names[active[q]] : ~bo[b].unseen

\* The lock holder goes on, the event thread runs again and again, and a unit
\* ends its job or misses its deadline.
BoFairness ==
  /\ WF_allVars(JobsLeave \/ JobStarts \/ Reset \/ ClientGone \/ TickPoll
                 \/ (Locked /\ OtherSteps))
  /\ WF_allVars(EvBegin /\ OtherSteps)
  /\ SF_allVars(Deadline(CPU) /\ OtherSteps)
  /\ \A q \in HwQueues : IF q \in MayHang THEN SF_allVars(Deadline(q) /\ OtherSteps)
                         ELSE WF_allVars(HwFinish(q) /\ OtherSteps)

BoFairSpec == BoSpec /\ BoFairness

\* A flushed block does not stay in quarantine: the event thread returns it
\* to the pool once the units have passed it.
FlushedIsReturned ==
  \A b \in Bos : bo[b].st = "quarantine" /\ ~bo[b].stale ~> bo[b].st = "gone"
=============================================================================
