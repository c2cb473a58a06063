------------------------------- MODULE V3DBo -------------------------------
(***************************************************************************)
(* The buffer objects (BOs) of the render server, composed with its        *)
(* scheduler: handles, shares and descriptors of an exported name, the     *)
(* pins of the jobs that name a BO, the last-use fences and the implicit   *)
(* dependencies made from them, and the quarantine a released block goes   *)
(* through before the pool may hand it out again.                          *)
(*                                                                         *)
(* Sources: v3da_bo.c, and the calls into it from v3da_jobs.c,             *)
(* v3da_sched.c and v3da_main.c (src/tools/gpu-lane/v3d-async/).           *)
(*                                                                         *)
(* Every function here runs with srv.lock held.  A scheduler step of       *)
(* V3DSched that calls into the BO manager is that step together with what *)
(* the call does to the BO table.  Handles are never reused (a per-slot    *)
(* generation), so a handle stands for its BO and for the block behind it: *)
(* "gone" means the block is in the pool, free for another owner.          *)
(*                                                                         *)
(* The page-table and TLB generations only decide whether the TLB was      *)
(* flushed since a change: `unseen' since the BO's PTEs were written,      *)
(* `stale' since they were cleared (tlb_gen < clear_pt_gen).               *)
(***************************************************************************)
EXTENDS V3DSched

CONSTANTS
  MaxBos,     \* bound: BOs ever created
  MaxOpens,   \* bound: descriptors of one name open at a time
  ListMax     \* V3DA_SUBMIT_MAX_SEMS, the length of a job's dependency list

ASSUME BoAssumption ==
  /\ MaxBos \in Nat \ {0}
  /\ MaxOpens \in Nat
  /\ ListMax \in Nat
  /\ MaxDeps <= ListMax

Bos == 1 .. MaxBos
NoSlot == -1
NoFence == [slot |-> 0, q |-> CPU, gen |-> 0, seq |-> 0]

VARIABLES
  bo,      \* srv.bos, by handle
  names,   \* the BOs a job reads or writes; v3da_job_t.bos of the job that pins
  ran      \* history: the jobs on the units when a BO was unmapped

boVars == <<bo, names, ran>>
allVars == <<vars, boVars>>

NewBo == [st |-> "none", owner |-> NoSlot, sharers |-> {}, opens |-> 0, refs |-> 0,
          inflight |-> 0, exported |-> FALSE, last |-> [q \in Queues |-> NoFence],
          pass |-> [q \in Queues |-> 0], unseen |-> FALSE, stale |-> FALSE]

BoInit ==
  /\ Init
  /\ bo = [b \in Bos |-> NewBo]
  /\ names = [j \in JobIds |-> {}]
  /\ ran = [b \in Bos |-> {}]

\* v3da_bo_find: a handle somebody still holds
Held(b) == bo[b].st = "live" /\ bo[b].refs > 0

-----------------------------------------------------------------------------
(* TLB flush and quarantine, as functions of the BO table B                *)

\* v3da_hw_mmu_flush
Flushed(B) == [b \in Bos |-> [B[b] EXCEPT !.unseen = FALSE, !.stale = FALSE]]

\* The BOs whose last reference and last pin are gone
\* Mutant: bo_unref does not look at the pins.
ReleasableUnpinned(B) == {b \in Bos : B[b].st = "live" /\ B[b].refs = 0}

Releasable(B) == {b \in Bos : B[b].st = "live" /\ B[b].refs = 0 /\ B[b].inflight = 0}

\* quarantine_begin of every such BO, with `sub' as hw_submitted: the name is
\* withdrawn, the PTEs are cleared and the queues to pass are recorded.
\* Mutant: no queue has to be passed.
UnmappedUnfenced(B, sub) ==
  [b \in Bos |->
    IF b \in Releasable(B)
    THEN [B[b] EXCEPT !.st = "quarantine", !.exported = FALSE, !.stale = TRUE]
    ELSE B[b]]

Unmapped(B, sub) ==
  [b \in Bos |->
    IF b \in Releasable(B)
    THEN [B[b] EXCEPT !.st = "quarantine", !.exported = FALSE, !.stale = TRUE, !.pass = sub]
    ELSE B[b]]

\* A flush with a unit at work is left to the next job's prologue.
IdleFlush(B, act) == IF \A q \in HwQueues : act[q] = NoJob THEN Flushed(B) ELSE B

\* The table after a change B and the quarantine it causes.  Queues and
\* counters are the ones after the step: job_done has taken its job off the
\* unit and counted it before it unpins.
Settled(B) == IF Releasable(B) = {} THEN B ELSE IdleFlush(Unmapped(B, hwSub'), active')

Witness(B) ==
  ran' = [b \in Bos |->
            IF b \in Releasable(B) THEN {active'[q] : q \in Queues} \ {NoJob} ELSE ran[b]]

\* v3da_bo_quarantine_poll: the blocks that may be handed out again
\* Mutant: the counters have to run past the snapshot.
MayReusePastPass(B, b) ==
  B[b].st = "quarantine" /\ ~B[b].stale /\ \A q \in Queues : hwDone[q] > B[b].pass[q]

MayReuse(B, b) ==
  /\ B[b].st = "quarantine"
  /\ ~B[b].stale
  /\ \A q \in Queues : hwDone[q] >= B[b].pass[q]

Polled(B) ==
  [b \in Bos |->
    IF MayReuse(B, b) THEN [NewBo EXCEPT !.st = "gone", !.stale = B[b].stale] ELSE B[b]]

\* bo_unref of `n' references of one BO; the name goes with the last one.
Unref(r, n) == [r EXCEPT !.refs = @ - n, !.exported = @ /\ r.refs > n]

-----------------------------------------------------------------------------
(* The scheduler's steps and what they do to the BOs                       *)

\* The pins of the jobs that leave the server in this step.  A CL's list is
\* held by its render job alone.
PinsDropped(b) ==
  {j \in JobIds : job[j].st # "free" /\ job'[j].st = "free" /\ job[j].q # BIN /\ b \in names[j]}

\* v3da_bo_unpin, from job_done and job_discard
Unpin ==
  LET B == [b \in Bos |-> [bo[b] EXCEPT !.inflight = @ - Cardinality(PinsDropped(b))]]
  IN  /\ bo' = Settled(B)
      /\ Witness(B)
      /\ names' = [j \in JobIds |-> IF job'[j].st = "free" THEN {} ELSE names[j]]

JobsLeave ==
  /\ \/ \E s \in Slots : CloseBegin(s)
     \/ \E q \in Queues, s \in Slots : Reap(q, s)
     \/ \E q \in HwQueues : WedgeStep(q) \/ \E error \in BOOLEAN : EvDone(q, error)
     \/ TickCpu
     \/ TickTfuIdle
  /\ Unpin

\* tlb_step: kick_bin, kick_tfu and kick_csd flush, kick_render does not.
FlushingQueues == {BIN, TFU, CSD}

JobStarts ==
  /\ \E q \in HwQueues, s \in Slots :
       KickHw(q, s) /\ bo' = IF q \in FlushingQueues THEN Flushed(bo) ELSE bo
  /\ UNCHANGED <<names, ran>>

\* The reset of wedge flushes as well.
Reset ==
  /\ (\E q \in HwQueues : TickWedge(q)) \/ (\E s \in Slots : KickCsdStuck(s))
  /\ bo' = Flushed(bo)
  /\ UNCHANGED <<names, ran>>

\* v3da_bo_client_gone: the creator reference and the imports of slot s go.
RefsOf(r, s) == (IF r.owner = s THEN 1 ELSE 0) + (IF s \in r.sharers THEN 1 ELSE 0)

Left(r, s) == [Unref(r, RefsOf(r, s)) EXCEPT !.owner = IF @ = s THEN NoSlot ELSE @,
                                             !.sharers = @ \ {s}]

ClientGone ==
  LET B == [b \in Bos |-> IF Held(b) THEN Left(bo[b], closing) ELSE bo[b]]
  IN  /\ CloseEnd
      /\ bo' = Polled(Settled(B))
      /\ Witness(B)
      /\ UNCHANGED names

\* The event thread polls the quarantine between its tick and its scheduler run.
TickPoll ==
  /\ TickDone
  /\ bo' = Polled(bo)
  /\ UNCHANGED <<names, ran>>

\* Steps that leave the BOs alone
OtherSteps ==
  /\ \/ SchedLeave \/ WedgeLeave \/ EvBegin \/ Environment
     \/ \E s \in Slots : Open(s) \/ KickCpu(s)
     \/ \E q \in HwQueues : EvStray(q)
     \/ \E m \in Modes : SetMode(m)
  /\ UNCHANGED boVars

-----------------------------------------------------------------------------
(* Requests about BOs                                                      *)

\* A change of BO b alone; nothing of the scheduler moves.
Changed(b, r) == [bo EXCEPT ![b] = r]

BoRequest(s) == at = "free" /\ used[s] /\ UNCHANGED <<vars, names>>

\* v3da_bo_create: PTEs are written, and left for a job prologue to flush.
Create(s, b) ==
  /\ BoRequest(s)
  /\ bo[b].st = "none"
  /\ \A a \in Bos : a < b => bo[a].st # "none"
  /\ bo' = Changed(b, [NewBo EXCEPT !.st = "live", !.owner = s, !.refs = 1, !.unseen = TRUE])
  /\ UNCHANGED ran

\* v3da_bo_close: an import of this client's, else the creator's handle,
\* whoever asks.
Closeable(r, s) ==
  IF s \in r.sharers THEN {[r EXCEPT !.sharers = @ \ {s}]}
  ELSE IF r.owner # NoSlot THEN {[r EXCEPT !.owner = NoSlot]}
  ELSE {}

CloseBo(s, b) ==
  /\ BoRequest(s)
  /\ Held(b)
  /\ \E r \in Closeable(bo[b], s) :
       LET B == Changed(b, Unref(r, 1))
       IN  bo' = Polled(Settled(B)) /\ Witness(B)

\* v3da_bo_export
Export(s, b) ==
  /\ BoRequest(s)
  /\ Held(b)
  /\ bo[b].owner = s \/ s \in bo[b].sharers
  /\ bo' = Changed(b, [bo[b] EXCEPT !.exported = TRUE])
  /\ UNCHANGED ran

\* import_v3dbuf: the importer shares the exported BO itself; a second import
\* of it, or an import of one's own, takes no reference.
\* Mutant: every import takes one.
ImportRefsAlways(r, s) == 1

ImportRefs(r, s) == IF r.owner = s \/ s \in r.sharers THEN 0 ELSE 1

ImportV3dbuf(s, b) ==
  /\ BoRequest(s)
  /\ Held(b)
  /\ bo[b].exported
  /\ bo' = Changed(b, [bo[b] EXCEPT !.refs = @ + ImportRefs(bo[b], s),
                                    !.sharers = IF bo[b].owner = s THEN @ ELSE @ \cup {s}])
  /\ UNCHANGED ran

\* v3da_bufns_thread: mtOpen and mtClose of a descriptor of the name; whoever
\* holds it need not be a client.
OpenName(b) ==
  /\ at = "free"
  /\ Held(b)
  /\ bo[b].exported
  /\ bo[b].opens < MaxOpens
  /\ bo' = Changed(b, [bo[b] EXCEPT !.opens = @ + 1, !.refs = @ + 1])
  /\ UNCHANGED <<vars, names, ran>>

CloseName(b) ==
  /\ at = "free"
  /\ UNCHANGED <<vars, names>>
  /\ bo[b].st = "live"
  /\ bo[b].opens > 0
  /\ LET B == Changed(b, Unref([bo[b] EXCEPT !.opens = @ - 1], 1))
     IN  bo' = Polled(Settled(B)) /\ Witness(B)

-----------------------------------------------------------------------------
(* Submits that name BOs                                                   *)

\* v3da_fence_set_add: one entry per slot, queue and generation
Merged(F) ==
  {f \in F : \A g \in F : g.slot = f.slot /\ g.q = f.q /\ g.gen = f.gen => g.seq <= f.seq}

PendingUses(b) == {f \in {bo[b].last[q] : q \in Queues} : f # NoFence /\ ~Signaled(f)}

\* v3da_bo_implicit_deps: the pending uses of the named BOs by other clients.
Implicit(s, N) == {f \in UNION {PendingUses(b) : b \in N} : f.slot # s}

\* What is left when the list is full is dropped; the order of the handles in
\* the request, which decides what that is, is the client's.
DepLists(s, N, D) ==
  LET all == Merged(D \cup Implicit(s, N))
  IN  IF Cardinality(all) <= ListMax THEN {all}
      ELSE {L \in SUBSET all : Cardinality(L) = ListMax /\ all \ Implicit(s, N) \subseteq L}

\* v3da_bo_pin_for_job and v3da_bo_mark_use, for the job j that holds the list.
Used(N, f) ==
  [b \in Bos |->
    IF b \in N THEN [bo[b] EXCEPT !.inflight = @ + 1, !.last[f.q] = f] ELSE bo[b]]

\* The last use is the fence of the submit's last job: of a command list, its
\* render.
\* Mutant: it is the first job's.
LastUseFirst(first, last) == first

LastUse(first, last) == last

FenceIn(r) == [slot |-> r.slot, q |-> r.q, gen |-> r.gen, seq |-> r.seq]

SubmitBos(s, op, N, D, R) ==
  /\ \A b \in N : Held(b)
  /\ \E L \in DepLists(s, N, D) :
       IF op = "CL" THEN SubmitCL(s, L, R) ELSE SubmitOne(s, op, L) /\ R = {}
  /\ names' = [j \in JobIds |-> IF gseq < j /\ j <= gseq' THEN N ELSE names[j]]
  /\ bo' = Used(N, FenceIn(job'[LastUse(gseq + 1, gseq')]))
  /\ UNCHANGED ran

\* v3da_bo_attach_fence: a CPU job that waits for the fence and for every
\* pending use, and is the last use from now on; refused when they are too many.
AttachFence(s, b, f) ==
  LET deps == Merged({f} \cup PendingUses(b))
  IN  /\ Held(b)
      /\ bo[b].owner = s \/ s \in bo[b].sharers \/ bo[b].exported
      /\ Cardinality(deps) <= ListMax
      /\ SubmitOne(s, "JOIN", deps)
      /\ bo' = Changed(b, [bo[b] EXCEPT !.last[CPU] = FenceIn(job'[gseq'])])
      /\ UNCHANGED <<names, ran>>

\* A NOP names no BO and is left to V3DSched.
Submits ==
  \E s \in Slots :
    \/ \E op \in Ops \cap {"CL", "RCL", "TFU", "CSD"}, N \in SUBSET Bos,
          D \in DepSets, R \in RenderDepSets : SubmitBos(s, op, N, D, R)
    \/ \E b \in Bos, f \in PendingFences : AttachFence(s, b, f)

BoRequests ==
  \E b \in Bos :
    \/ OpenName(b) \/ CloseName(b)
    \/ \E s \in Slots : Create(s, b) \/ CloseBo(s, b) \/ Export(s, b) \/ ImportV3dbuf(s, b)

BoNext ==
  \/ JobsLeave \/ JobStarts \/ Reset \/ ClientGone \/ TickPoll \/ OtherSteps
  \/ Submits \/ BoRequests

BoSpec == BoInit /\ [][BoNext]_allVars

=============================================================================
