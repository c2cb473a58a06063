------------------------------- MODULE V3DIrq -------------------------------
(***************************************************************************)
(* Completion interrupts and binner-overflow memory of the render server   *)
(* (v3da_hw.c "interrupts", v3da_jobs.c "Binner-overflow chunks").         *)
(*                                                                         *)
(* The interrupt handler, a sequence of single accesses here, shares the   *)
(* status register, the event word and the overflow words with the thread  *)
(* that holds srv.lock, and takes no lock itself.  The thread's pass over  *)
(* the events is one step (it starts by exchanging each word); its drain   *)
(* of the status before a kick is split like the handler.  In poll mode    *)
(* the thread runs the handler's routine itself.                           *)
(*                                                                         *)
(* Jobs are command lists of different clients: bin j, then render j,      *)
(* which reads the chunks the binner filled for it.                        *)
(*                                                                         *)
(* With Prompt, a handler (straight-line code with interrupts off) is fast *)
(* against three slow things: the cache flushes that open every kick, the  *)
(* power cycle of a reset, and the binner's work on a whole chunk.         *)
(***************************************************************************)
EXTENDS Integers, FiniteSets, FiniteSetsExt

CONSTANTS
  NJobs,      \* bound: command lists
  NChunks,    \* chunks of the overflow pool
  MaxStalls,  \* bound: chunks one bin may ask for
  Overlap,    \* PIPELINE mode: a bin may run beside a render (else SERIAL)
  Prompt,     \* the timing assumption above
  MayStorm,   \* the storm guard of the handler may trip
  MayHang,    \* the watchdog may find the hardware wedged
  MayDie,     \* a client may go
  SelfTest    \* DBG_IRQ_SELFTEST may raise FLDONE on an idle queue

ASSUME IrqAssumption ==
  /\ NJobs \in Nat /\ NChunks \in Nat /\ MaxStalls \in Nat
  /\ {Overlap, Prompt, MayStorm, MayHang, MayDie, SelfTest} \subseteq BOOLEAN

Jobs == 1 .. NJobs
Chunks == 1 .. NChunks
None == 0
Bits == {"OOM", "FL", "FR"}
Own(q) == IF q = "bin" THEN {"FL"} ELSE {"FR"}

VARIABLES
  st,        \* per job: where the server has it
  bad,       \* jobs whose bin failed (dep_error of the render)
  attach,    \* per job: the chunks on its list (ovf_head)
  free, staged, waiting,       \* free list, o->staged, o->bin_waiting
  stageVa, consumed, missed,   \* the overflow words shared with the handler
  sts, ev,     \* INT_STS, ev_core
  irq,         \* irq_on
  masked, storm,
  hbin, hren,  \* the jobs the units are really working on
  stalled,     \* the binner waits for memory
  given,       \* per job: chunks its binner was really given
  regrant,     \* a binner that did not wait was given a chunk
  tested,      \* a self-test has been run
  h,           \* the handler
  th           \* the thread under srv.lock

jobVars == <<st, bad>>
ovfVars == <<attach, free, staged, waiting>>
wordVars == <<stageVa, consumed, missed>>
modeVars == <<irq, masked, storm>>
ptbVars == <<stalled, given, regrant>>
hwVars == <<hbin, hren, ptbVars>>
vars == <<jobVars, ovfVars, wordVars, sts, ev, modeVars, hwVars, tested, h, th>>

\* old: the handler was already running when the current kick began.
Idle == [pc |-> "idle", core |-> {}, va |-> None, old |-> FALSE]
Rest == [pc |-> "free", q |-> "bin", j |-> None, core |-> {}]

Init ==
  /\ st = [j \in Jobs |-> "new"] /\ bad = {}
  /\ attach = [j \in Jobs |-> {}]
  /\ free = Chunks /\ staged = None /\ waiting = 0
  /\ stageVa = None /\ consumed = None /\ missed = 0
  /\ sts = {} /\ ev = {} /\ irq \in BOOLEAN /\ masked = ~irq /\ storm = FALSE
  /\ hbin = None /\ hren = None /\ stalled = FALSE
  /\ given = [j \in Jobs |-> {}] /\ regrant = FALSE /\ tested = FALSE
  /\ h = Idle /\ th = Rest

-----------------------------------------------------------------------------
(* The hardware.  A stall raises OUTOMEM once.                             *)

BinMoves == hbin # None /\ ~stalled /\ (Prompt => h.pc # "report")

BinStall ==
  /\ BinMoves /\ Cardinality(given[hbin]) < MaxStalls
  /\ stalled' = TRUE
  /\ sts' = sts \cup {"OOM"}
  /\ UNCHANGED <<tested, jobVars, ovfVars, wordVars, ev, modeVars, hbin, hren, given, regrant, h, th>>

BinFinish ==
  /\ BinMoves
  /\ hbin' = None
  /\ sts' = sts \cup {"FL"}
  /\ UNCHANGED <<tested, jobVars, ovfVars, wordVars, ev, modeVars, hren, ptbVars, h, th>>

RenFinish ==
  /\ hren # None
  /\ hren' = None
  /\ sts' = sts \cup {"FR"}
  /\ UNCHANGED <<tested, jobVars, ovfVars, wordVars, ev, modeVars, hbin, ptbVars, h, th>>

-----------------------------------------------------------------------------
(* hw_service: the handler, or the thread in poll mode.                    *)

handlerVars == <<jobVars, ovfVars, irq, hbin, hren, th>>

HandlerEnter ==
  /\ irq /\ ~masked /\ sts # {} /\ h.pc = "idle"
  /\ h' = [Idle EXCEPT !.pc = "clear", !.core = sts]
  /\ UNCHANGED <<tested, handlerVars, wordVars, sts, ev, masked, storm, ptbVars>>

HandlerClear ==
  /\ h.pc = "clear"
  /\ sts' = sts \ h.core
  /\ h' = [h EXCEPT !.pc = IF "OOM" \in h.core THEN "grant" ELSE "or"]
  /\ UNCHANGED <<tested, handlerVars, wordVars, ev, masked, storm, ptbVars>>

\* PTB_BPOA/BPOS, once for each chunk of C: the binner goes on, waiting or not.
Give(C) ==
  /\ regrant' = (regrant \/ Cardinality(C) > IF stalled THEN 1 ELSE 0)
  /\ stalled' = (stalled /\ C = {})
  /\ given' = IF hbin = None THEN given ELSE [given EXCEPT ![hbin] = @ \cup C]

HandlerGrant ==
  /\ h.pc = "grant"
  /\ h' = [h EXCEPT !.pc = "report", !.va = stageVa]
  /\ stageVa' = None
  /\ Give({stageVa} \ {None})
  /\ UNCHANGED <<tested, handlerVars, consumed, missed, sts, ev, masked, storm>>

MissedAlways(va) == missed + 1
Missed(va) == IF va # None THEN missed ELSE missed + 1

HandlerReport ==
  /\ h.pc = "report"
  /\ consumed' = IF h.va # None THEN h.va ELSE consumed
  /\ missed' = Missed(h.va)
  /\ h' = [h EXCEPT !.pc = "or"]
  /\ UNCHANGED <<tested, handlerVars, stageVa, sts, ev, masked, storm, ptbVars>>

\* The event word; then the storm guard may mask the block for good.
HandlerLeave ==
  /\ h.pc = "or"
  /\ ev' = ev \cup h.core
  /\ h' = Idle
  /\ \/ UNCHANGED <<masked, storm>>
     \/ MayStorm /\ irq /\ masked' = TRUE /\ storm' = TRUE
  /\ UNCHANGED <<tested, handlerVars, wordVars, sts, ptbVars>>

-----------------------------------------------------------------------------
(* The overflow pool, under srv.lock: operators on its state p.            *)

Bins == {j \in Jobs : st[j] \in {"bin", "bin-orphan"}}   \* srv.q[BIN].active
Renders == {j \in Jobs : st[j] = "ren"}                  \* srv.q[RENDER].active

Pool == [free |-> free, staged |-> staged, waiting |-> waiting, attach |-> attach, va |-> stageVa]

SetPool(p) ==
  /\ free' = p.free /\ staged' = p.staged /\ waiting' = p.waiting
  /\ attach' = p.attach /\ stageVa' = p.va

\* ovf_stage
Stage(p) ==
  IF p.staged # None \/ p.free = {} THEN p
  ELSE LET c == Min(p.free) IN [p EXCEPT !.free = @ \ {c}, !.staged = c, !.va = c]

\* chunk_attach to the active bin, if there is one.
Attach(p, C) == [p EXCEPT !.attach = [j \in Jobs |-> IF j \in Bins THEN @[j] \cup C ELSE @[j]]]

\* ovf_service: attribute what the handler handed out ...
AttributeStaged(p) == IF consumed = None THEN p ELSE Attach(p, {consumed})
Attribute(p) ==
  IF consumed = None THEN p
  ELSE LET q == [p EXCEPT !.staged = IF @ = consumed THEN None ELSE @] IN
       IF Bins = {} THEN [q EXCEPT !.free = @ \cup {consumed}] ELSE Attach(q, {consumed})

\* ... grant what it could not, as far as the pool goes ...
Owed == IF Bins = {} THEN 0 ELSE waiting + missed
GrantedTwice(p) ==
  IF Owed = 0 \/ p.free = {} THEN {} ELSE {c \in p.free : Cardinality({d \in p.free : d < c}) < Owed + 1}
Granted(p) == {c \in p.free : Cardinality({d \in p.free : d < c}) < Owed}
Grant(p) ==
  [Attach(p, Granted(p)) EXCEPT !.free = @ \ Granted(p), !.waiting = Owed - Cardinality(Granted(p))]

\* ... and re-arm.
Service(on) ==
  IF on THEN
    /\ Give(Granted(Attribute(Pool)))
    /\ consumed' = None /\ missed' = 0
  ELSE UNCHANGED <<ptbVars, consumed, missed>>

Serviced(on) == IF on THEN Stage(Grant(Attribute(Pool))) ELSE Pool

\* job_done: a bin's chunks pass to its render; those of a render, and of a
\* bin whose render is gone, are freed.
After(j) == IF st[j] = "bin" THEN "binned" ELSE "done"
FreedAtOnce(D) == D
Freed(D) == {j \in D : After(j) = "done"}
Done(p, D) ==
  [p EXCEPT !.free = @ \cup UNION {p.attach[j] : j \in Freed(D)},
            !.attach = [j \in Jobs |-> IF j \in Freed(D) THEN {} ELSE @[j]]]
Advance(D) == [j \in Jobs |-> IF j \in D THEN After(j) ELSE st[j]]

-----------------------------------------------------------------------------
(* The thread: one round of v3da_event_thread is Round, perhaps the        *)
(* handler's steps, Events, Tick or TickWedge, and the kicks of sched_run. *)

Busy == Bins \cup Renders # {}

\* The storm fallback (v3da_hw_irq_disable returns once no handler runs), then
\* the poll.
Round ==
  /\ th.pc = "free"
  /\ storm /\ irq => h.pc = "idle"
  /\ irq' = (irq /\ ~storm)
  /\ masked' = (masked \/ ~irq')
  /\ IF ~irq' /\ Busy THEN h' = [Idle EXCEPT !.pc = "clear", !.core = sts] ELSE UNCHANGED h
  /\ th' = [th EXCEPT !.pc = IF ~irq' /\ Busy THEN "poll" ELSE "events"]
  /\ UNCHANGED <<tested, jobVars, ovfVars, wordVars, sts, ev, storm, hwVars>>

\* v3da_jobs_events: overflow first, then FLDONE, then FRDONE.
Events ==
  /\ th.pc = "events" \/ (th.pc = "poll" /\ h.pc = "idle")
  /\ LET on == "OOM" \in ev \/ Bins # {}
         over == (IF "FL" \in ev THEN Bins ELSE {}) \cup (IF "FR" \in ev THEN Renders ELSE {})
     IN /\ Service(on)
        /\ SetPool(Done(Serviced(on), over))
        /\ st' = Advance(over)
  /\ ev' = {}
  /\ th' = [th EXCEPT !.pc = "tick"]
  /\ UNCHANGED <<tested, bad, sts, modeVars, hbin, hren, h>>

\* v3da_jobs_tick: the binner waits, and no running render will free a chunk.
Exhausted == waiting > 0 /\ Bins # {} /\ Renders = {} /\ free = {}

\* wedge: reset, every handler word cleared, the staged chunk back in the pool,
\* and every job on the hardware failed.  The reset unmasks if irq_on.
StagedLost == {}
StagedBack == {staged} \ {None}

TickWedge ==
  /\ th.pc = "tick" /\ (Prompt => h.pc = "idle")
  /\ Exhausted \/ (MayHang /\ Busy)
  /\ SetPool(Done([Pool EXCEPT !.free = @ \cup StagedBack, !.staged = None, !.waiting = 0, !.va = None],
                  Bins \cup Renders))
  /\ consumed' = None /\ missed' = 0 /\ sts' = {} /\ ev' = {}
  /\ st' = Advance(Bins \cup Renders)
  /\ bad' = bad \cup Bins
  /\ hbin' = None /\ hren' = None /\ stalled' = FALSE
  /\ masked' = ~irq
  /\ th' = [th EXCEPT !.pc = "sched"]
  /\ UNCHANGED <<tested, irq, storm, given, regrant, h>>

\* No wedge (yet): ovf_service once more, for chunks just freed.
Tick ==
  /\ th.pc = "tick"
  /\ LET on == waiting > 0 /\ Bins # {} IN Service(on) /\ SetPool(Serviced(on))
  /\ th' = [th EXCEPT !.pc = "sched"]
  /\ UNCHANGED <<tested, jobVars, sts, ev, modeVars, hbin, hren, h>>

\* reap_failed_heads: a render whose bin failed completes without running.
Failed == {j \in bad : st[j] = "binned"}

Reap ==
  /\ th.pc = "sched" /\ Failed # {}
  /\ SetPool(Done(Pool, Failed))
  /\ st' = [j \in Jobs |-> IF j \in Failed THEN "done" ELSE st[j]]
  /\ UNCHANGED <<tested, bad, consumed, missed, sts, ev, modeVars, hwVars, h, th>>

\* What sched_run may kick on q; SERIAL takes the older render first.
Kickable(q) ==
  IF q = "bin"
  THEN {j \in Jobs : st[j] = "queued" /\ Bins = {}
                     /\ (Overlap \/ (Renders = {} /\ \A i \in Jobs : st[i] # "binned"))}
  ELSE {j \in Jobs : st[j] = "binned" /\ Renders = {} /\ (Overlap \/ Bins = {})}

\* kick_bin, kick_render: the flushes ...
Kick(q, j) ==
  /\ th.pc = "sched" /\ Failed = {} /\ j \in Kickable(q)
  /\ q = "ren" => Kickable("bin") = {}
  /\ st' = [st EXCEPT ![j] = q]
  /\ h' = [h EXCEPT !.old = h.pc # "idle"]
  /\ th' = [pc |-> "flush", q |-> q, j |-> j, core |-> {}]
  /\ UNCHANGED <<tested, bad, ovfVars, wordVars, sts, ev, modeVars, hwVars>>

\* ... v3da_hw_drain, which leaves OUTOMEM latched ...
DrainedAll == sts
Drained == sts \ {"OOM"}

DrainRead ==
  /\ th.pc = "flush" /\ (Prompt => ~h.old)
  /\ th' = [th EXCEPT !.pc = "drain", !.core = Drained]
  /\ UNCHANGED <<tested, jobVars, ovfVars, wordVars, sts, ev, modeVars, hwVars, h>>

DrainClear ==
  /\ th.pc = "drain"
  /\ sts' = sts \ th.core
  /\ th' = [th EXCEPT !.pc = "or"]
  /\ UNCHANGED <<tested, jobVars, ovfVars, wordVars, ev, modeVars, hwVars, h>>

\* ... the own done bits dropped from the event word ...
KeptAll(q, bits) == bits
Kept(q, bits) == bits \ Own(q)

DrainOr ==
  /\ th.pc = "or"
  /\ ev' = Kept(th.q, ev \cup th.core)
  /\ th' = [th EXCEPT !.pc = "start"]
  /\ UNCHANGED <<tested, jobVars, ovfVars, wordVars, sts, modeVars, hwVars, h>>

\* ... and the start, of a bin with a chunk staged.
Start ==
  /\ th.pc = "start"
  /\ SetPool(IF th.q = "bin" THEN Stage([Pool EXCEPT !.waiting = 0]) ELSE Pool)
  /\ hbin' = IF th.q = "bin" THEN th.j ELSE hbin
  /\ hren' = IF th.q = "ren" THEN th.j ELSE hren
  /\ th' = [Rest EXCEPT !.pc = "sched"]
  /\ UNCHANGED <<tested, jobVars, consumed, missed, sts, ev, modeVars, ptbVars, h>>

SchedLeave ==
  /\ th.pc = "sched" /\ Failed = {} /\ Kickable("bin") \cup Kickable("ren") = {}
  /\ th' = Rest
  /\ UNCHANGED <<tested, jobVars, ovfVars, wordVars, sts, ev, modeVars, hwVars, h>>

-----------------------------------------------------------------------------
(* Requests, by a dispatch thread under srv.lock.                          *)

Submit(j) ==
  /\ th.pc = "free" /\ st[j] = "new"
  /\ st' = [st EXCEPT ![j] = "queued"]
  /\ th' = [Rest EXCEPT !.pc = "sched"]
  /\ UNCHANGED <<tested, bad, ovfVars, wordVars, sts, ev, modeVars, hwVars, h>>

\* job_discard of a dead client's queued jobs; a running bin loses its render.
Discard(j) ==
  /\ MayDie /\ th.pc = "free" /\ st[j] \in {"queued", "bin", "binned"}
  /\ st' = [st EXCEPT ![j] = IF @ = "bin" THEN "bin-orphan" ELSE "done"]
  /\ free' = free \cup (IF st[j] = "binned" THEN attach[j] ELSE {})
  /\ attach' = [attach EXCEPT ![j] = IF st[j] = "binned" THEN {} ELSE @]
  /\ th' = [Rest EXCEPT !.pc = "sched"]
  /\ UNCHANGED <<tested, bad, staged, waiting, wordVars, sts, ev, modeVars, hwVars, h>>

\* DBG_IRQ_MODE, refused while a unit is active.
IrqMode(on) ==
  /\ th.pc = "free" /\ ~Busy /\ on # irq /\ h.pc = "idle"
  /\ irq' = on /\ masked' = ~on
  /\ sts' = IF on THEN {} ELSE sts
  /\ storm' = (storm /\ ~on)
  /\ UNCHANGED <<tested, jobVars, ovfVars, wordVars, ev, hwVars, h, th>>

\* v3da_hw_selftest: FLDONE raised by hand while no bin is active; in poll mode
\* it polls at once (no binner runs, so OUTOMEM is not pending).
RaiseTest ==
  /\ SelfTest /\ th.pc = "free" /\ Bins = {}
  /\ tested' = TRUE
  /\ sts' = IF irq THEN sts \cup {"FL"} ELSE {}
  /\ ev' = IF irq THEN ev ELSE ev \cup sts \cup {"FL"}
  /\ UNCHANGED <<jobVars, ovfVars, wordVars, modeVars, hwVars, h, th>>

-----------------------------------------------------------------------------

Hardware == BinStall \/ BinFinish \/ RenFinish
Handler == HandlerEnter \/ HandlerClear \/ HandlerGrant \/ HandlerReport \/ HandlerLeave
Thread ==
  \/ Round \/ Events \/ TickWedge \/ Tick \/ Reap
  \/ \E q \in {"bin", "ren"}, j \in Jobs : Kick(q, j)
  \/ DrainRead \/ DrainClear \/ DrainOr \/ Start \/ SchedLeave
Request ==
  \/ \E j \in Jobs : Submit(j) \/ Discard(j)
  \/ \E on \in BOOLEAN : IrqMode(on)
  \/ RaiseTest

Next == Hardware \/ Handler \/ Thread \/ Request

Spec == Init /\ [][Next]_vars

\* The units go on, the handler runs when its line is asserted, the event thread
\* comes round (its sleep is bounded), gets srv.lock from the dispatch threads,
\* and its watchdog is due again and again.
Fairness ==
  /\ WF_vars(BinFinish) /\ WF_vars(RenFinish)
  /\ WF_vars(Handler) /\ SF_vars(Round) /\ WF_vars(Thread)
  /\ SF_vars(TickWedge /\ Exhausted)

FairSpec == Spec /\ Fairness

-----------------------------------------------------------------------------

\* The type invariant.
TypeOK ==
  /\ st \in [Jobs -> {"new", "queued", "bin", "bin-orphan", "binned", "ren", "done"}]
  /\ bad \subseteq Jobs
  /\ attach \in [Jobs -> SUBSET Chunks]
  /\ free \subseteq Chunks /\ staged \in Chunks \cup {None} /\ waiting \in Nat
  /\ {stageVa, consumed} \subseteq Chunks \cup {None} /\ missed \in Nat
  /\ sts \subseteq Bits /\ ev \subseteq Bits
  /\ {irq, masked, storm, stalled, regrant, tested} \subseteq BOOLEAN
  /\ {hbin, hren} \subseteq Jobs \cup {None}
  /\ given \in [Jobs -> SUBSET Chunks]
  /\ h \in [pc : {"idle", "clear", "grant", "report", "or"}, core : SUBSET Bits,
            va : Chunks \cup {None}, old : BOOLEAN]
  /\ th \in [pc : {"free", "poll", "events", "tick", "sched", "flush", "drain", "or", "start"},
             q : {"bin", "ren"}, j : Jobs \cup {None}, core : SUBSET Bits]

\* Every chunk is in exactly one place: none leaks and none is handed out
\* twice, through stalls, resets and client deaths.
ChunkPartition ==
  LET lists == {attach[j] : j \in Jobs} IN
  /\ free \cup (UNION lists) \cup ({staged} \ {None}) = Chunks
  /\ Cardinality(free) + Cardinality({staged} \ {None}) + Cardinality(UNION lists) = NChunks
  /\ \A i, j \in Jobs : i # j => attach[i] \cap attach[j] = {}

\* The memory the binner was given for a command list is not given out again
\* while that list is being binned, waits for its render or is rendered (as long
\* as no self-test has been run).
ChunksOutliveBin ==
  ~tested => \A j \in Jobs : hbin = j \/ hren = j \/ (st[j] \in {"bin", "binned", "ren"} /\ j \notin bad) =>
    \A c \in given[j] : c \notin free /\ c # stageVa /\ \A i \in Jobs \ {j} : c \notin attach[i]

\* A job is completed only when its unit is through with it: no stale status
\* bit, seen by the handler and by the drain before a kick, ends the next job
\* (as long as no self-test has raised a bit of its own).
NoEarlyDone ==
  ~tested =>
    /\ hbin # None => st[hbin] \in {"bin", "bin-orphan"}
    /\ hren # None => st[hren] = "ren"

\* A stall is answered with one chunk: a binner that runs is never re-pointed
\* (but for a binner whose completion a self-test has faked).
OneGrantPerStall == regrant => tested

\* Every command list ends, with its fence signalled: no stall is forgotten
\* and no completion lost, between handler, drain, reset and storm guard.
EveryListEnds == \A j \in Jobs : st[j] = "queued" ~> st[j] = "done"

=============================================================================
