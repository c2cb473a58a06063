# A TLA+ model of the GPU lane

The repository coordinates a port of Phoenix-RTOS to the Raspberry Pi 4. Most of
it is documents, build scripts, probes and patches to other people's programs.
The programs that are written here, hold state, and are concurrent are the two
servers of the "GPU lane" (`tools/gpu-lane/`): the render server `v3d-async` and
the display server `kms`. This project models those two:

| module | models | state it owns |
|---|---|---|
| `V3DSched` | scheduler of the render server, fence page (`v3da_jobs.c`, `v3da_sched.c`, `v3da_main.c`) | client slots, job table, FIFOs, active jobs, counters, done bits |
| `V3DWaits` | requests that wait: deferred replies, syncobjs, deadlines, quit (`v3da_sched.c`, `v3da_main.c`) | parked requests, threads' answer lists, syncobjs |
| `V3DPresent` | the flip queue and the client loop in front of it (`v3da_jobs.c`, `v3da_winsys.c`) | queue, frames issued, rendered, shown |
| `V3DIrq` | interrupt handler, event word, binner-overflow memory (`v3da_hw.c`, `v3da_jobs.c`) | status register, shared words, chunk lists |
| `V3DBo` (extends `V3DSched`) | buffer objects: handles, shares, names, pins, last-use fences, implicit dependencies, quarantine (`v3da_bo.c` and its callers) | the buffer table, the buffers a job names |
| `KmsVblank` | vblank thread and its sources, event queues, parked reads and waits (`kms_vblank.c`, `kms_main.c`) | the words shared without a lock, the pending commit, queues |
| `BufImport` | buffers imported across the two servers, aliases, the reap list (`v3da_bo.c`, `kms_bo.c`, `kms_main.c`) | both servers' locks, tables, mappings and descriptors |
| `KmsCommit` | commits, planes, modes, framebuffers (`kms_main.c`, `kms_bo.c`, `kms_vblank.c`, `kms_backend.c`) | buffer and framebuffer tables, CRTC state, firmware and display |

`FenceTimeline` is the abstract specification of the fence page that `V3DSched`
implements. `...Props` modules hold the properties, `...Proofs` modules the
theorems (`V3DFenceInv` holds the invariant about fences and its lemmas).

## The system

A client of the render server opens a slot, and submits jobs: a command list
(a BIN job and a RENDER job linked to it), a render-only list, a TFU or CSD job,
or a CPU job that only joins fences. Each queue of each slot has its own
sequence numbers; a fence is (slot, generation, queue, seqno), and is signalled
when the row of the slot on the shared *fence page* has reached it or belongs to
a later generation. Dispatch threads handle requests under one lock, one event
thread handles completions, deadlines and the watchdog, and an interrupt handler
runs without the lock. A request that waits is not answered by the thread that
received it: it is *parked*, later *claimed* under the lock and answered outside
it. A hung unit is found by the watchdog; the reset (`wedge`) fails every job on
the hardware.

The display server has one CRTC. A commit is accepted, waits for the fences of
its planes (which live on the render server's page), is *armed* by SET_PLANE
calls to the firmware, and completes at a target vblank, when the outgoing
framebuffers are released and the client gets its event. The firmware takes over
plane state at a fixed point before each vblank. A commit may set a lower mode,
which scales every plane. One thread dispatches requests; the *vblank thread*
waits for vblanks without the lock, then completes flips and answers parked
requests with it. It is woken by an interrupt or, when a commit has to wait for a
fence, by `gate_kick`; a source that sticks or falls silent is replaced.

Each server also serves a name space of buffers (`/v3dbuf`, `/kmsbuf`), from a
thread of its own. Importing a buffer is a conversation with the other server, so
an importer looks, drops its lock, opens and maps, takes the lock again and looks
once more. A render buffer that nobody references is unmapped from the GPU and
*quarantined*: its block is handed out again when every queue has passed the jobs
submitted by then and the GPU's TLB has been flushed.

What is hard here, and listed line by line under `hazards` in `PROJECT.json`:
clients that die under running jobs; slots, handles and message ids that are
reused; completion bits that arrive late; resets in the middle of everything;
one answer per request among several threads; memory shared with a handler that
takes no lock; and a display that keeps reading what the server has let go.

## What is modelled, and how

Every request handler, event pass and scheduler step is one action when the code
runs it under the lock. Where the code really interleaves, the action is split:

* `V3DSched` splits a scheduler run into kicks (`at = "sched"`), a wedge found in
  the middle of one, and the two halves of `client_close` around the scheduler
  run inside it. The hardware finishes, hangs (`MayHang`) or is found busy
  (`CsdMayStick`) at any time.
* `V3DWaits` splits claiming from answering, per thread. Message ids are reused
  as soon as they are answered, as the kernel does. `DBG_QUIT` is split from the
  exit, 50 ms later. Jobs are reduced to outstanding fences.
* `V3DIrq` splits handler and drain into single register and word accesses.
* `V3DPresent` splits the library's flip, wait and second flip.
* `V3DBo` adds to each step of `V3DSched` what that step calls in the buffer
  manager, in the same action: a completion unpins, the unpin may unmap and
  quarantine, the kick of a bin, TFU or CSD job flushes the TLB. The page-table
  and TLB generations are reduced to two facts per buffer: whether a flush came
  since its pages were written (`unseen`) and since they were cleared (`stale`).
* `KmsVblank` splits the reads of the vblank thread outside the lock (the kick,
  the pending state, the handler's counter, twice) and the three stores of
  `commit()`. Its locked pass is one action.
* `BufImport` splits an import at every lock operation and at the requests to the
  other server; the other requests are one action each. A plane only matters as
  the holder of a framebuffer, and a pool buffer counts as exported with PRIME
  from the start, which allows aliases earlier than the code does.
* `KmsCommit` splits the vblank thread (sees vblanks, then acts on them) from the
  firmware latch and the scan-out. Vblank numbers are differences, so they need
  no bound.

Data is abstracted: buffers, framebuffers and clients are names; commands,
rectangles, addresses and timestamps are gone, and what depends on them (a job
hangs, a call is early or late in the frame, a carried plane no longer fits) is
a choice. `map` in `PROJECT.json` gives the lines behind each definition.

Two timing assumptions are named constants:

* `Prompt` in `V3DIrq`: the handler is faster than the cache flushes of a kick,
  the power cycle of a reset, and the binner's work on a whole chunk. Without it
  `ChunksOutliveBin`, `NoEarlyDone` and `OneGrantPerStall` fail;
  `ChunkPartition` still holds.
* `Prompt` in `KmsCommit`: the vblank thread acts on a vblank before the
  firmware's next update point. Without it `CompletedOnScreen` fails
  (`KmsLate`, below).

History variables (`given`, `regrant`, `tested` in `V3DIrq`; `cut` in
`KmsCommit`; `failed`, `doomed` in `V3DWaits`; `ran` in `V3DBo`; `owed` in
`KmsVblank`; the field `for` of an import in `BufImport`) record what the properties
speak of and no guard reads them, except that `given` bounds the number of stalls.

## Runs

All bounds are constants of the `.cfg` files.

| run | instance | shows |
|---|---|---|
| `sched_pipeline` | 2 slots, 3 jobs, in-fences, BIN and TFU may hang | `NoEarlySignal`, `DepsFinished`, `DeadFlushed`; the page refines `FenceTimeline` (`PageIsTimeline`); `EveryJobLeaves` |
| `sched_hang` | 1 slot, 2 owners in turn, 4 jobs, both modes, BIN/RENDER hang, CSD sticks | `NoRenderOfFailedBin`, `RowKeptWhileRunning`, `SerialAlone` |
| `sched_reap` | 1 slot, 4 jobs, BIN may hang | finding: a render is signalled while it runs |
| `waits` | 2 threads, 2 requests, 2 owners in turn, a syncobj, quit | `OneHolder`, `OkMeansDone`, `EveryRequestAnswered` |
| `present_flips` | 2 clients, 2 buffers, queue of 2, 3 frames each | `NoTearing`, `ShownRendered`, `ShownInOrder`, `EveryFrameShown` |
| `irq_pipe` | 2 lists, 2 chunks, everything may go wrong | `ChunkPartition`, `ChunksOutliveBin`, `OneGrantPerStall` |
| `irq_live` | 3 lists, 1 chunk | `NoEarlyDone`, `EveryListEnds` |
| `bo_share` | 2 clients, 1 buffer with a name, 2 jobs, BIN may hang, CSD sticks | `HandleRefs`, `BlockIdle`, `IdleWhileAlive`, `UsedIsMapped`, `FlushedIsReturned` |
| `kms_flip` | 2 clients, 2 buffers, 2 framebuffers, 1 plane, 2 modes, in-fences | `RefsExact`, `ScannedIsHeld`, `CompletedOnScreen` |
| `kms_planes` | 1 client, 2 planes, 2 modes, failing SET_PLANE | `RefsExact`, `MappedByMode` |
| `kms_vblank` | 1 client slot with successive owners, queue of 1, irq source that may storm or die, then HVS, then timer | `GateNoticed`, `NoReaderLeft`, `OneEventPerFlip`, `EveryCommitEnds`, `EveryParkedAnswered` |
| `buf_import` | 2 render threads, 1 render slot, 2 display clients, 1 name each way, 2 table entries each | `OneImportPerName`, `MappingsExact`, `DescriptorsExact`, `AliasKeepsSource`, `ReapHasRoom` |

Further instances that pass and are kept for reruns: `SchedMore` (the constants of
`SchedHang`: `TypeOK`, `NoEarlySignalNoReap`, `HardwareAgrees`, `Accounting`,
`NoStaleCompletion`; module `V3DSchedProps`), `WaitsRows` (three requests, two
queues) and `WaitsSync` (two syncobjs), both of `V3DWaitsProps`, `KmsLive` (a thread
two vblanks behind; `KmsCommitProps`), and `BufMore` (a render slot with two owners
in turn: `TypeOK`, `ImportOfItsClient`, `ShownIsReferenced`, `LockedPartsOnly`;
`BufImportProps`).

Why the bounds are enough: three jobs give a command list and a job that depends
on it or competes with it, four give two command lists, and two owners of one
slot give a stale row. Three requests on two threads give one parked, one being
answered and one arriving (`WaitsRows`); two give all but the third party. One
buffer and two jobs give a use by each of two clients, one of them queued when the
buffer is closed; the quarantine speaks of one buffer at a time. A queue of one
event is full after the first; every further source is reached from the interrupt
by falling back. Two threads importing one name are the race, and with two table
entries the tables fill up. One chunk for three lists is the exhausted pool; two
chunks are the pool with one staged and one granted. Two framebuffers are the
one shown and the next; the third of a triple buffer is one that waits.

Deadlock is checked except in `waits` and `kms_vblank`, where the server may quit.
`buf_import` uses symmetry in the render threads and display clients, which no
definition tells apart; runs with liveness use none.

Fairness. In the scheduler, the lock holder goes on, the event thread comes
round, a unit that cannot hang finishes, and the deadline of one that can is
reached again and again (its clock does not stop while the lock is contended:
strong fairness). In `V3DWaits` threads answer what they hold, the event thread
passes, deadlines come; jobs need not finish. In `V3DIrq` the units go on while
they have memory, the handler runs when its line is asserted, and the event
thread gets the lock in the end: its sleep is bounded by the 10 ms backstop, and
strong fairness stands for a lock that is not denied it for ever. The watchdog
of a list that has run out of memory is due again and again. In `KmsCommit`
the display keeps its rate, the vblank thread keeps up in the end, and fences
signal, which is `EveryJobLeaves` on the other side. `bo_share` has the fairness of
the scheduler. In `KmsVblank` the vblank thread, which has the highest priority,
goes on and gets the lock; its waits end (strong fairness: a vblank may come first
each time); a live source delivers, and deadlines and the 250 ms of silence pass.
`buf_import` states safety only.

Some properties hold with an exception that is part of their statement, because
the code does not do more: `NoEarlySignalNoReap` leaves out RENDER (see
`sched_reap`); the handler properties hold until a self-test raises a bit by
hand; `NoTearing` excuses a client whose rendered frame is stuck behind another
client's flip, and every client after a refused flip; `ScannedIsHeld`,
`CompletedOnScreen` and `MappedByMode` excuse planes changed outside a commit
until the next commit to them; `UsedIsMapped` leaves out clients that have gone: the
render that holds the pins of a command list is discarded with its client, and if
nobody else holds the buffers, they are unmapped while the bin is still on the unit
(the quarantine keeps the blocks from being handed out until that bin has passed).

Four properties pass only because the instance of their run leaves out a case in
which the code breaks them. The next section has an instance with that case:

* `DeadFlushed` in `sched_pipeline`: no CSD jobs, so no unit is found busy
  (`SchedStuck`).
* `MappedByMode` in `kms_planes`: no fences, so no commit is dropped between the
  change of mode and the change of planes (`KmsMode`).
* `BlockIdle` in `bo_share`: no render-only lists, whose completion can be a reap
  while an older render is on the unit (`BoPass`).
* `IdleWhileAlive` in `bo_share`: no list of dependencies is full (`BoFull`).

## Disagreements between code and comments

`findings` has the one with a run. These were met on the way; each is reproduced
by the `.cfg` named (`tlc -config X.cfg M`), which is expected to be violated:

| cfg, module | property | what happens | what is said |
|---|---|---|---|
| `SchedStuck`, `V3DSchedProps` | `DeadFlushed` | `client_close` runs the scheduler before it clears `used` (`v3da_main.c:140`). If that run finds the CSD unit busy, the reset completes the dying client's job without `dead_flush`, and its discarded fences stay unsignalled | `v3da_jobs.c:1045` "Their fences complete (with an error) together with the client's in-flight job, or now if it has none." |
| `BoImplicit`, `V3DBoProps` | `NoSharedUse` | client A uses a buffer; B's job on the same queue waits for it and becomes the last use there; B's next job, on another queue, finds only B's own use and runs beside A's (`v3da_bo.c:546`) | `v3da_bo.c:526` "a submit that names a BO another client still uses waits for that use" |
| `BoFull`, `V3DBoProps` | `IdleWhileAlive` | a dependency that finds no room is dropped (counted and logged, `v3da_jobs.c:907`), and the use it stood for is overwritten | `v3da_bo.c:485-488` "the job that overwrites last[q] waits for every other client's pending use first, so last[] still implies every earlier use of the BO" |
| `BoDeath`, `V3DBoProps` | `IdleIsIdle` | a dying client's queued job is the last use; its fence is signalled at once, and the use of another client it waited for is still running | the same comment |
| `BoPass`, `V3DBoProps` | `BlockIdle` | a quarantine records how many renders were submitted; a failed render reaped afterwards counts as one more completed, and the block passes while the render that was on the unit still runs (`v3da_jobs.c:263`) | `v3da_jobs.c:260-262` "count it as submitted first, or hw_completed would run ahead of hw_submitted and let a quarantined BO pass while an older job still runs" |
| `BoRender`, `V3DBoProps` | `SeenByJob` | a render-only list is kicked without a TLB flush (`v3da_jobs.c:428`) | `v3da_bo.c:329` "The TLB flush that makes these PTEs visible happens in every job prologue" |
| `WaitsQuit`, `V3DWaitsProps` | `CleanExit` | with two dispatch threads, a request handled between DBG_QUIT and `exit(0)` is parked or submitted and never answered (`v3da_main.c:676`) | M1 design, line 361: "`DBG_QUIT` answers every parked request before exit"; risk R1 at line 653 of it names a part of this |
| `WaitsDestroy`, `V3DWaitsProps` | `DestroyedWaiterFails` | a syncobj is destroyed and its handle created again before the event thread looks: the waiter goes on with the new object | `v3da_sched.c:465` "a waiter on it must now fail" |
| `WaitsFailure`, `V3DWaitsProps` | `FailureIsTold` | one `error_seq` word per slot: the failure of the render hides that of the bin (`v3da_sched.c:155`) | M1 design, line 362: "every waiter on an errored fence is answered `-EIO`" |
| `PresentDrop`, `V3DPresent` | `NoFrameDropped` | the second flip can find the queue full again, and its result is ignored (`v3da_winsys.c:1117`) | `v3da_jobs.c:1691` "the library then waits for the fence itself and flips ungated" |
| `KmsLate`, `KmsCommitProps` | `CompletedOnScreen` | the target vblank is computed from the last vblank the thread has acted on; a thread that is late by most of a frame reports the flip one vblank before it is scanned (`kms_main.c:695`) | `kms_main.c:689` "the rule then errs late (never early)" |
| `KmsTakeOff`, `KmsCommitProps` | `ArmedIsOnScreen` | RMFB of the outgoing framebuffer, or its owner's close, turns the plane off after the armed commit has set it (`kms_main.c:919`); the flip is reported and nothing is shown | `kms_main.c:713` "The armed commit is on screen from this vblank on" |
| `KmsFreed`, `KmsCommitProps` | `ScannedNotFree` | RMFB or close frees a buffer the display reads until the next vblank (`kms_main.c:921`) | M2 design, line 184, of flips: "so scanned memory is never freed early" |
| `KmsMode`, `KmsCommitProps` | `MappedByMode` | the mode changes when a commit is accepted, its planes when it is armed; if it is dropped in between, the shown plane keeps the old mapping (`kms_main.c:870`) | `kms_main.c:790` "A mode change re-applies the planes the commit does not touch" |
| `KmsDead`, `KmsCommitProps` | `DeadNotShown` | a mode change carries another client's plane and puts it back after that client closed (`kms_main.c:859`) | `kms_main.c:974` "the console comes back when a client dies" |
| `KmsLow`, `KmsCommitProps` | `LowModeIsUsed` | a carried primary that does not fit the new mode is taken off by the commit that sets the mode (`kms_main.c:861`) | `kms_main.c:789` "A lower mode never outlives the primary plane" |

With `SelfTest` and without the excuse for it, `NoEarlyDone` fails as well: a
handler that has cleared the self-test's bit and not yet ORed it into the event
word is invisible to the drain before a kick, and completes the bin just started
(`v3da_hw.c:460-461` says "Safe against a concurrent handler: both only read, W1C
and OR.").

Smaller ones, from reading: `v3da.h:74` says a quarantined buffer "needs tlb_gen >
its clear gen", the code (`v3da_bo.c:641`) asks for `>=`, which is the right one,
since the clear gen is taken after the increment. A block that is released while a
unit is busy waits for the next bin, TFU or CSD kick to flush, however long that
takes; `FlushedIsReturned` starts at the flush. `kms_main.c:1700` says "the vblank
thread must never wait on another server", and that is so while it holds the lock;
`kms_reap`, which it calls after its pass, closes descriptors of the render server.
The two reads of `vb.head` at `kms_vblank.c:310-311` may miss a vblank for good
(`c->seq` then runs one behind); `EveryCommitEnds` holds all the same. The recheck
of the client in `op_prime_import` cannot fail, since the thread that would close
it is the one that imports. A display buffer's pages go back to the pool while a
client may still have them mapped through `/kmsbuf`; `kms_bo.c:370-372` says so.

## Proofs

TLAPS checks the following for every value of the constants that the named
assumptions allow (`SchedAssumption`, `WaitsAssumption`, `PresentAssumption`,
`IrqAssumption`, `BufAssumption`, `VblankAssumption`, `KmsAssumption`): they say that bounds are
numbers, that special values are not members of the sets they stand beside, and that
tables and threads are finite. A theorem that needs more says so below.

The scheduler (`V3DFenceInv` has the invariant and the requests of clients,
`V3DSchedProofs` the event thread and the theorems):

* `TypeCorrect`: `Spec => []TypeOK`. `TypeOK` is inductive as it stands; one lemma
  per action, over lemmas on `JobDone`, `Kick` and the construction of jobs and
  dependency sets.
* `FencesSafe`: `NoEarlySignalNoReap`, `RowKeptWhileRunning` and
  `NoRenderOfFailedBin`, whatever hangs (the last two also by themselves: `RowsKept`,
  `FailedBinStops`). The argument is order: seqnos in a FIFO increase (`Lined`),
  exceed that of the running job (`Younger`), which exceeds what the row has reached
  (`Alive`), so a completion signals nothing that still runs. That needs to know where
  jobs are (`Kept`, `OnUnit`, `Fresh`), that a live job belongs to the present owner
  of its row (`Alive`), and that a bin and its render point at each other until one is
  done (`Linked`, `Marked`, `Reaped`). `FenceInv` is the conjunction; RENDER is exempt
  because the code breaks it there (`sched_reap`).
* `FencesExact`: assuming `NoFailure` (no unit hangs or sticks), `NoEarlySignal`,
  `DepsFinished` and `DeadFlushed` (the last two also as `DepsOver`,
  `DeadAreFlushed`). `Orderly` (which queues complete in order) and the conjuncts
  `Sound` and `Closing` of `FenceInv` carry it: without failures RENDER is ordered
  too, and a dead client's row is flushed or will be by its running job.
* `PageRefines`: assuming `NoFailure`, `Spec => PageIsTimeline`. Each action maps to
  issuing one or two fences, signalling, reassigning, or a stutter.

* `SerialIsAlone`: `Spec => SerialAlone`, an action property, whatever hangs. The
  scheduler looks at `nbusy`, not at the units, so it takes two links: `nbusy` counts
  the active jobs (`Counted`), and a unit that works has one (`UnitInv`). The second
  is inductive only with the done bits: no bit in the event word or in the event
  thread's hands is of a unit that still works, and after a reset none works.

Requests that wait (`V3DWaitsProofs`):

* `EachAnsweredOnce`: `Spec => []OneHolder`. `OneHolder` alone is not inductive: it
  does not say what the lists contain. `HInv` adds that they hold message ids, that
  every request record has a kind, and that a dispatch thread has at most one message
  of its own to answer. Every action is a reply, a park, a claim, or a respond, and
  there is a lemma for each.
* `NoneOrphaned`: `Spec => []NoOrphanWait`. `Owned` adds that every request record
  names a client and that `used` is defined on the clients. Closing a client claims
  the requests parked for it; that a message just received is not also parked comes
  from `HInv`.
* `OkIsDone`: `Spec => []OkMeansDone`. `Rows` says that what is pending is exactly
  above what its row has reached and of the present generation; `Told` that a request
  names known fences and is told OK only when none is pending. A fence once signalled
  stays so, because rows only move up.

Interrupts and overflow memory (`V3DIrqProofs`). All four assume `Prompt`, the timing
assumption of `V3DIrq` on the handler; `IrqInv` is the one inductive invariant:

* `ChunksPartitioned`: `[]ChunkPartition`. `Placed` says that each chunk is in one
  place, `Staging` that the staged one is in the word for the handler, in its hands or
  reported, so that it is attributed once; lemmas say what `ovf_stage`, `ovf_service`
  and the return of a list's chunks do to the pool. This holds with self-tests too.
* `NoneEndedEarly`: `[]NoEarlyDone`. `Told` follows a done bit from the status register
  through the handler or the drain to the event word: it is of the job that is on the
  unit, it is in one of those places, and a kick begins without it but for an older
  handler, which the flushes outlast.
* `StallsAnsweredOnce`: `[]OneGrantPerStall`. `Asked` counts the places where an
  unanswered stall can be (status, handler, missed count, server's waiting count):
  together at most one, and none when the binner does not stall.
* `ChunksKept`: `[]ChunksOutliveBin`. `Backed` says that what the binner was given for
  a list is on the list, or staged, gone from the word and about to be put there.

The last three hold until a self-test has been run (`tested`): the test raises a done
bit by hand, and `Exact`, the part of `IrqInv` they rest on, says so.

The flip queue (`V3DPresentProofs`):

* `PansRendered`, `PansInOrder`: `[]ShownRendered` and `[]ShownInOrder`.
  `PresentInv` follows a frame from its flip through the queue to the pan: what is
  queued without a gate is rendered (`Gated`), and the frames of a client increase
  through pans, queue and the frame being flipped (`Ordered`).
* `PansDoNotTear`: assuming two buffers or more, `[]NoTearing`. It needs `Complete`
  besides: unless a flip was refused for good, every frame before the one being
  flipped is shown or queued, so the buffer on the display is that of the last frame.

Imports across the servers (`BufImportProofs`):

* `ImportsSafe`: `OneImportPerName`, `ImportOfItsClient` and `LockedPartsOnly`.
  `ImportInv` adds types and that a live import has an owner. The second look, under
  the lock, is what each of the first two rests on.
* `MappingsBalanced`: `[]MappingsExact`. `MapInv` counts, per name, the objects made
  of it and the threads that have mapped it and not yet installed it.
* `AliasesSafe`: `[]AliasKeepsSource`. It holds because references are exact: `RefInv`
  says that a buffer of the display server counts its handle, its framebuffer and the
  aliases that name it, and that one without references is free.
* `DescriptorsBalanced`: `[]DescriptorsExact`. `FdInv` counts the descriptors of a
  name over imports, the import on its way, the reap list and the two threads' copies.
* `ShownReferenced`: `[]ShownIsReferenced`, from `RefInv` and `FdInv`: what the
  display server has imported, the render server counts a descriptor of.

Events and the vblank thread (`KmsVblankProofs`):

* `KickNotLost`: `Spec => []GateNoticed`. `KickSeen` says it already between the kick
  and the signal and is inductive: the thread reads the kick, then the state, and
  `commit()` stores the state, then the kick.
* `ReadersServed`: `Spec => []NoReaderLeft`, with the types of the tables.
* `FlipEventsExact`: `Spec => []OneEventPerFlip`, with the types and that a pending
  commit belongs to an open client. The work is in counting flip events through push,
  fill and drop.

Commits (`KmsCommitProofs`):

* `CountsExact`: `Spec => []RefsExact`. `CountInv` says what the references of a
  framebuffer (its user, the planes that show it, the commit that will) and of a
  buffer (its handle, its framebuffers) are; each action drops and takes sets of them
  at once, so the lemmas count unions and differences.
* `ScansHeld`, `CompletesOnScreen`: assuming `Prompt`, that is a vblank thread that
  acts on a vblank before the firmware's next update point, `[]ScannedIsHeld` and
  `CompletedOnScreen`. `TimeInv` bounds how far thread and target are apart, `PicInv`
  says for each plane which of the outgoing and the incoming buffer the firmware, the
  latch and the display hold at each distance from the target. `KmsLate` is the
  counterexample without the assumption.
* `PlanesMapped`: assuming no in-fences (`Gated = FALSE`), `[]MappedByMode`, however
  late the thread is; `KmsMode` is the counterexample with them.

Only model-checked:

* all liveness (fairness and `ENABLED` are outside what the prover handles);
* `ReapHasRoom`: the length of the reap list is a sum over the names, by induction;
* the buffer objects (`V3DBo`).

The fence theorems with failures stop at what the code guarantees: `NoEarlySignal` and
`DeadFlushed` fail there.

## Not modelled

`components` in `PROJECT.json` lists every part. Left out:

* packet and register encodings, firmware mailbox I/O, generated headers, build
  and lab scripts, patches, and host tests of code in other repositories;
* sequential algorithms without shared state: the GPU address allocator, the
  placement policy of `v3da_lowmem.h` (host-tested), the fit arithmetic of
  `kms_modes.h` (its outcomes are choices in `KmsCommit`);
* libraries and shims that run in their caller's process (`libdrm-phoenix`, the
  Wayland, labwc and XFCE compatibility layers): what they promise depends on
  `poll()` and message passing of a kernel whose source is not here;
* in the modelled parts: statistics, logging, `pollNotify`, the probe that picks the
  first vblank source, firmware-framebuffer slots, and a request that races the close
  of its own client before its first locked look.
