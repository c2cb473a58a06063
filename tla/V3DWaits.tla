------------------------------ MODULE V3DWaits ------------------------------
(***************************************************************************)
(* Requests of the asynchronous render server that wait: how they are      *)
(* parked, who takes them off the list, and who answers them               *)
(* (v3da_sched.c "Parked waits" and "Syncobjs", v3da_main.c dispatch_loop).*)
(*                                                                         *)
(* The dispatch threads receive requests.  A request is handled under      *)
(* srv.lock, so handling is one step; the answers are sent after the lock  *)
(* is dropped, one by one, so each answer is a step.  The event thread's   *)
(* pass over the completions and over srv.waits is one step as well, and   *)
(* it too answers after the lock.  A request that has to wait has no       *)
(* thread: it is parked until some thread claims it.                       *)
(*                                                                         *)
(* The jobs behind the fences are those of V3DSched, reduced to what it    *)
(* is shown to keep (FenceTimeline): each line of a client's fence row     *)
(* completes in order, and the row passes on when all of it is complete.   *)
(***************************************************************************)
EXTENDS Integers, FiniteSets, FiniteSetsExt

CONSTANTS
  NClients,   \* slots (V3DA_MAX_CLIENTS)
  Lines,      \* queues of a row that take jobs
  NHandles,   \* syncobjs per client (V3DA_MAX_SYNCOBJS)
  Rids,       \* message ids of the port; the kernel reuses one once answered
  Threads,    \* dispatch threads
  MaxSeq,     \* bound: fences of a line in one generation
  MaxGen,     \* bound: owners of a slot
  Ops,        \* the requests clients send
  MayFail,    \* lines whose jobs may end with an error
  CanQuit     \* someone may send DBG_QUIT

Clients == 1 .. NClients
Handles == 1 .. NHandles
Event == "event"

ASSUME WaitsAssumption ==
  /\ NClients \in Nat \ {0} /\ NHandles \in Nat /\ MaxSeq \in Nat /\ MaxGen \in Nat
  /\ Lines \subseteq Nat /\ MayFail \subseteq Lines
  /\ Event \notin Threads
  /\ CanQuit \in BOOLEAN
  /\ Ops \subseteq {"SUBMIT", "FENCE", "BO", "SYNC", "SYNCOPS", "CLOSE"}

Fence == [c : Clients, q : Lines, gen : 1 .. MaxGen, seq : 1 .. MaxSeq]
NoFence == [c |-> 0, q |-> 0, gen |-> 0, seq |-> 0]

VARIABLES
  used, gen,                    \* v3da_client_t.used, slot_gen
  issued, completed, errorSeq,  \* next_seq; the fence page's row
  pend,                         \* fences whose job has not finished (the truth)
  failed,                       \* fences whose job failed (the truth)
  sync,                         \* per client: its syncobjs
  wait,                         \* per message id: the request not answered yet
  waits,                        \* srv.waits: the parked requests
  ans,                          \* per thread: its list of claimed requests
  own,                          \* per dispatch thread: the message it handles
  late,                         \* requests past their deadline
  doomed,                       \* requests that lost a syncobj while parked (the truth)
  quit, quitting, exited

rowVars == <<used, gen, issued, completed, errorSeq, pend, failed>>
listVars == <<wait, waits, ans, own>>
quitVars == <<quit, exited>>
vars == <<rowVars, sync, listVars, late, doomed, quitVars, quitting>>

FreeWait == [kind |-> "none", client |-> 0, fences |-> {}, handles |-> {}, all |-> FALSE,
             forSubmit |-> FALSE, res |-> "none", err |-> FALSE]
NoSync == [st |-> "none", fence |-> NoFence]

Init ==
  /\ used = [c \in Clients |-> FALSE]
  /\ gen = [c \in Clients |-> 0]
  /\ issued = [c \in Clients |-> [q \in Lines |-> 0]]
  /\ completed = [c \in Clients |-> [q \in Lines |-> 0]]
  /\ errorSeq = [c \in Clients |-> <<0, 0>>]
  /\ pend = {} /\ failed = {}
  /\ sync = [c \in Clients |-> [h \in Handles |-> NoSync]]
  /\ wait = [r \in Rids |-> FreeWait]
  /\ waits = {}
  /\ ans = [t \in Threads \cup {Event} |-> {}]
  /\ own = [t \in Threads |-> {}]
  /\ late = {} /\ doomed = {}
  /\ quit = FALSE /\ quitting = {} /\ exited = FALSE

-----------------------------------------------------------------------------
(* Fences.                                                                 *)

\* v3da_fence_signaled, against the completed words comp.
Signaled(f, comp) == gen[f.c] # f.gen \/ comp[f.c][f.q] >= f.seq

\* Its error output: one word per row holds the last failed queue and seqno.
ErrorOf(f, es) == gen[f.c] = f.gen /\ es[f.c][1] = f.q /\ es[f.c][2] >= f.seq

\* v3da_fence_valid, on the fences some submit has returned by now.
Known == {f \in Fence : f.gen < gen[f.c] \/ (f.gen = gen[f.c] /\ f.seq <= issued[f.c][f.q])}

Pending(c) == {f \in pend : f.c = c}

-----------------------------------------------------------------------------
(* A parked request: when it is over and who takes it.                     *)

SyncDone(s, comp) == s.st = "SIGNALED" \/ (s.st = "FENCE" /\ Signaled(s.fence, comp))

EvalFirst(w, comp) ==
  IF w.kind = "SYNC"
  THEN IF \E h \in w.handles : SyncDone(sync[w.client][h], comp) THEN "OK" ELSE "WAIT"
  ELSE IF w.fences = {} \/ \E f \in w.fences : Signaled(f, comp) THEN "OK" ELSE "WAIT"

\* wait_eval: satisfied, failed, or not yet.
Eval(w, comp) ==
  IF w.kind = "SYNC"
  THEN LET objs == sync[w.client]
           done == {h \in w.handles : SyncDone(objs[h], comp)}
           bad == {h \in w.handles : objs[h].st = "none" \/ (objs[h].st = "EMPTY" /\ ~w.forSubmit)}
       IN CASE bad # {} -> "EINVAL"
            [] bad = {} /\ (IF w.all THEN done = w.handles ELSE done # {}) -> "OK"
            [] OTHER -> "WAIT"
  ELSE IF \A f \in w.fences : Signaled(f, comp) THEN "OK" ELSE "WAIT"

EvalErr(w, es) == w.kind = "FENCE" /\ \E f \in w.fences : ErrorOf(f, es)

ClaimAndKeep(S, t) == ans' = [ans EXCEPT ![t] = @ \cup S] /\ waits' = waits

\* wait_claim: off srv.waits and onto the answer list of thread t.
Claim(S, t) ==
  /\ ans' = [ans EXCEPT ![t] = @ \cup S]
  /\ waits' = waits \ S

OverNoDeadline(r, comp) == Eval(wait[r], comp)

\* waits_scan: what it makes of a parked request, at most its deadline.
Over(r, comp) ==
  LET v == Eval(wait[r], comp) IN IF v = "WAIT" /\ r \in late THEN "ETIMEDOUT" ELSE v

-----------------------------------------------------------------------------
(* The dispatch threads: one handler per request.                          *)

Idle(t) == ans[t] = {} /\ own[t] = {}

\* msgRecv: an idle thread takes a message; its id is one no request holds.
Recv(t, r) == ~exited /\ t \notin quitting /\ Idle(t) /\ wait[r].kind = "none"

\* A request of client c through handle_raw; a thread that comes out of it
\* after the quit will exit the process.
Raw(t, r, c) ==
  /\ Recv(t, r) /\ used[c]
  /\ quitting' = IF quit THEN quitting \cup {t} ELSE quitting
  /\ UNCHANGED <<used, gen, late, quitVars>>

\* The thread answers its own request with res once the lock is dropped.
Op(c, res) == [FreeWait EXCEPT !.kind = "OP", !.client = c, !.res = res]
Reply(t, r, c, res) ==
  /\ wait' = [wait EXCEPT ![r] = Op(c, res)]
  /\ own' = [own EXCEPT ![t] = {r}]
  /\ UNCHANGED <<waits, ans>>

AllDoneNot(c) == TRUE
AllDone(c) == Pending(c) = {}
SameGen(c) == gen[c]
NextGen(c) == gen[c] + 1

\* client_open: the first slot that is free and drained (v3da_slot_busy), a
\* zeroed row and a new generation (v3da_slot_assign).
Open(t, r, c) ==
  /\ Recv(t, r)
  /\ ~used[c] /\ AllDone(c) /\ gen[c] < MaxGen
  /\ \A d \in 1 .. c - 1 : used[d] \/ ~AllDone(d)
  /\ used' = [used EXCEPT ![c] = TRUE]
  /\ gen' = [gen EXCEPT ![c] = NextGen(c)]
  /\ issued' = [issued EXCEPT ![c] = [q \in Lines |-> 0]]
  /\ completed' = [completed EXCEPT ![c] = [q \in Lines |-> 0]]
  /\ errorSeq' = [errorSeq EXCEPT ![c] = <<0, 0>>]
  /\ sync' = [sync EXCEPT ![c] = [h \in Handles |-> NoSync]]
  /\ Reply(t, r, c, "OK")
  /\ UNCHANGED <<pend, failed, late, doomed, quitVars, quitting>>

GoneNone(c) == {}

\* v3da_waits_client_gone: the parked requests of c.
Gone(c) == {r \in waits : wait[r].client = c}

\* client_close: the parked requests, then the jobs (those queued behind
\* nothing complete at once, with an error: the lines S), then the slot.
Close(t, r, c, S) ==
  /\ "CLOSE" \in Ops
  /\ Recv(t, r) /\ used[c]
  /\ S \subseteq {f.q : f \in Pending(c)}
  /\ Claim(Gone(c), t)
  /\ wait' = [p \in Rids |-> IF p = r THEN Op(c, "OK")
                             ELSE IF p \in Gone(c) THEN [wait[p] EXCEPT !.res = "EPIPE"] ELSE wait[p]]
  /\ own' = [own EXCEPT ![t] = {r}]
  /\ completed' = [completed EXCEPT ![c] = [q \in Lines |-> IF q \in S THEN issued[c][q] ELSE @[q]]]
  /\ errorSeq' = IF S = {} THEN errorSeq ELSE [errorSeq EXCEPT ![c] = <<Max(S), issued[c][Max(S)]>>]
  /\ pend' = {f \in pend : ~(f.c = c /\ f.q \in S)}
  /\ failed' = failed \cup (pend \ pend')
  /\ used' = [used EXCEPT ![c] = FALSE]
  /\ UNCHANGED <<gen, issued, sync, late, doomed, quitVars, quitting>>

\* A submit: the next fence of each queue of Q (bin and render of a command
\* list); the out-syncobjs H hold the last of them.
Submit(t, r, c, Q, H) ==
  /\ "SUBMIT" \in Ops
  /\ Raw(t, r, c)
  /\ Q # {} /\ \A q \in Q : issued[c][q] < MaxSeq
  /\ \A h \in H : sync[c][h].st # "none"
  /\ LET next(q) == [c |-> c, q |-> q, gen |-> gen[c], seq |-> issued[c][q] + 1] IN
       /\ pend' = pend \cup {next(q) : q \in Q}
       /\ sync' = [sync EXCEPT ![c] = [h \in Handles |->
                     IF h \in H THEN [st |-> "FENCE", fence |-> next(Max(Q))] ELSE @[h]]]
  /\ issued' = [issued EXCEPT ![c] = [q \in Lines |-> IF q \in Q THEN @[q] + 1 ELSE @[q]]]
  /\ Reply(t, r, c, "OK")
  /\ UNCHANGED <<completed, errorSeq, failed, doomed>>

\* v3da_wait_park: answered by its own thread when it is over at once or may
\* not wait (timeout 0), and otherwise parked, held by no thread.
Park(t, r, w, poll) ==
  LET v == Eval(w, completed)
      res == IF v = "WAIT" /\ poll THEN "ETIMEDOUT" ELSE v
  IN
  /\ wait' = [wait EXCEPT ![r] = [w EXCEPT !.res = res, !.err = (v = "OK" /\ EvalErr(w, errorSeq))]]
  /\ IF res = "WAIT" THEN waits' = waits \cup {r} /\ own' = own
                     ELSE own' = [own EXCEPT ![t] = {r}] /\ waits' = waits
  /\ UNCHANGED <<issued, completed, errorSeq, pend, failed, sync, ans, doomed>>

FenceWait(t, r, c, f, poll) ==
  /\ "FENCE" \in Ops
  /\ Raw(t, r, c) /\ f \in Known
  /\ Park(t, r, [FreeWait EXCEPT !.client = c, !.kind = "FENCE", !.fences = {f}], poll)

\* BO_WAIT: the buffer's last use on each queue, by whichever client.
BoWait(t, r, c, F, poll) ==
  /\ "BO" \in Ops
  /\ Raw(t, r, c) /\ F \subseteq Known
  /\ \A f, g \in F : f.q = g.q => f = g
  /\ Park(t, r, [FreeWait EXCEPT !.client = c, !.kind = "BO", !.fences = F], poll)

SyncWait(t, r, c, H, all, forSubmit, poll) ==
  /\ "SYNC" \in Ops
  /\ Raw(t, r, c)
  /\ H # {} /\ \A h \in H : sync[c][h].st # "none"
  /\ Park(t, r, [FreeWait EXCEPT !.client = c, !.kind = "SYNC", !.handles = H, !.all = all,
                                 !.forSubmit = forSubmit], poll)

\* Every request refused by its checks, and the queries: nothing changes.
Refuse(t, r, c) ==
  /\ Raw(t, r, c)
  /\ Reply(t, r, c, "EINVAL")
  /\ UNCHANGED <<issued, completed, errorSeq, pend, failed, sync, doomed>>

SetSync(t, r, c, h, s) ==
  /\ sync' = [sync EXCEPT ![c][h] = s]
  /\ Reply(t, r, c, "OK")
  /\ UNCHANGED <<issued, completed, errorSeq, pend, failed>>

\* v3da_syncobj_create: the first free handle, empty or signalled.
SyncCreate(t, r, c, h, st) ==
  /\ "SYNC" \in Ops
  /\ Raw(t, r, c)
  /\ sync[c][h].st = "none" /\ \A g \in 1 .. h - 1 : sync[c][g].st # "none"
  /\ st \in {"EMPTY", "SIGNALED"}
  /\ SetSync(t, r, c, h, [st |-> st, fence |-> NoFence])
  /\ UNCHANGED doomed

SyncDestroy(t, r, c, h) ==
  /\ "SYNCOPS" \in Ops
  /\ Raw(t, r, c) /\ sync[c][h].st # "none"
  /\ SetSync(t, r, c, h, NoSync)
  /\ doomed' = doomed \cup {p \in waits : wait[p].client = c /\ h \in wait[p].handles}

\* v3da_syncobj_reset, _signal and _import (of a fence, or of the snapshot
\* that means signalled).
SyncSet(t, r, c, h, s) ==
  /\ "SYNCOPS" \in Ops
  /\ Raw(t, r, c) /\ sync[c][h].st # "none"
  /\ s \in {[st |-> "EMPTY", fence |-> NoFence], [sync[c][h] EXCEPT !.st = "SIGNALED"]}
           \cup {[st |-> "FENCE", fence |-> f] : f \in Known}
  /\ SetSync(t, r, c, h, s)
  /\ UNCHANGED doomed

\* DBG_QUIT: refused while a job is in flight (Refuse); otherwise the thread
\* claims every parked request and the event thread is told to stop.
Quit(t, r, c) ==
  /\ CanQuit /\ ~quit
  /\ Recv(t, r) /\ used[c] /\ pend = {}
  /\ Claim(waits, t)
  /\ wait' = [p \in Rids |-> IF p = r THEN Op(c, "OK")
                             ELSE IF p \in waits THEN [wait[p] EXCEPT !.res = "ENODEV"] ELSE wait[p]]
  /\ own' = [own EXCEPT ![t] = {r}]
  /\ quit' = TRUE
  /\ quitting' = quitting \cup {t}
  /\ UNCHANGED <<rowVars, sync, late, doomed, exited>>

-----------------------------------------------------------------------------
(* Answers, and the event thread.                                          *)

\* One msgRespond: the message id is the kernel's again at once.
Sent(r) ==
  /\ wait' = [wait EXCEPT ![r] = FreeWait]
  /\ late' = late \ {r} /\ doomed' = doomed \ {r}
  /\ UNCHANGED <<rowVars, sync, waits, quitVars, quitting>>

\* v3da_waits_answer, and then the thread's own answer.
Respond(t) ==
  /\ ~exited
  /\ \/ \E r \in ans[t] : Sent(r) /\ ans' = [ans EXCEPT ![t] = @ \ {r}] /\ own' = own
     \/ /\ t # Event /\ ans[t] = {}
        /\ \E r \in own[t] : Sent(r) /\ own' = [own EXCEPT ![t] = {}] /\ ans' = ans

\* The lines with an unfinished job, and the seqno a completion brings one to:
\* a dead client's discarded jobs complete with the one that was running.
Busy == {<<f.c, f.q>> : f \in pend}
Reached(l) == IF used[l[1]] THEN completed[l[1]][l[2]] + 1 ELSE issued[l[1]][l[2]]

\* v3da_event_thread, one pass: the jobs of the lines D finish, those of the
\* lines F with an error, and the parked requests are looked at.
EventPass(D, F) ==
  LET flushed == {l \in D : Reached(l) > completed[l[1]][l[2]] + 1}
      errs(c) == {l[2] : l \in {m \in F \cup flushed : m[1] = c}}
  IN
  /\ ~exited /\ ~quit /\ ans[Event] = {}
  /\ completed' = [c \in Clients |-> [q \in Lines |->
                     IF <<c, q>> \in D THEN Reached(<<c, q>>) ELSE completed[c][q]]]
  /\ errorSeq' = [c \in Clients |->
                   IF errs(c) = {} THEN errorSeq[c] ELSE <<Max(errs(c)), Reached(<<c, Max(errs(c))>>)>>]
  /\ pend' = {f \in pend : f.seq > completed'[f.c][f.q]}
  /\ failed' = failed \cup {f \in pend \ pend' : <<f.c, f.q>> \in F \cup flushed}
  /\ Claim({r \in waits : Over(r, completed') # "WAIT"}, Event)
  /\ wait' = [r \in Rids |->
                IF r \in waits
                THEN [wait[r] EXCEPT !.res = Over(r, completed'),
                        !.err = (Over(r, completed') = "OK" /\ EvalErr(wait[r], errorSeq'))]
                ELSE wait[r]]
  /\ UNCHANGED <<used, gen, issued, sync, own, late, doomed, quitVars, quitting>>

\* A deadline passes; no parked request is without one (V3DA_WAIT_MAX_MS).
Deadline(r) ==
  /\ ~exited /\ r \in waits \ late
  /\ late' = late \cup {r}
  /\ UNCHANGED <<rowVars, sync, listVars, doomed, quitVars, quitting>>

\* exit(0), 50 ms after the answer: time for the answers under way, the
\* usleep of dispatch_loop.
Exit ==
  /\ ~exited /\ quitting # {}
  /\ ans[Event] = {} /\ \A t \in Threads : Idle(t)
  /\ exited' = TRUE
  /\ UNCHANGED <<rowVars, sync, listVars, late, doomed, quit, quitting>>

-----------------------------------------------------------------------------

Waits(t, r, c) ==
  \E poll \in BOOLEAN :
    \/ \E f \in Known : FenceWait(t, r, c, f, poll)
    \/ \E F \in SUBSET Known : BoWait(t, r, c, F, poll)
    \/ \E H \in SUBSET Handles, all \in BOOLEAN, fs \in BOOLEAN : SyncWait(t, r, c, H, all, fs, poll)

SyncOps(t, r, c) ==
  \E h \in Handles :
    \/ \E st \in {"EMPTY", "SIGNALED"} : SyncCreate(t, r, c, h, st)
    \/ SyncDestroy(t, r, c, h)
    \/ \E f \in Known : SyncSet(t, r, c, h, [st |-> "FENCE", fence |-> f])
    \/ SyncSet(t, r, c, h, [st |-> "EMPTY", fence |-> NoFence])
    \/ SyncSet(t, r, c, h, [sync[c][h] EXCEPT !.st = "SIGNALED"])

Request(t, r, c) ==
  \/ Open(t, r, c)
  \/ \E S \in SUBSET Lines : Close(t, r, c, S)
  \/ \E Q \in SUBSET Lines, H \in SUBSET Handles : Submit(t, r, c, Q, H)
  \/ Waits(t, r, c)
  \/ SyncOps(t, r, c)
  \/ Refuse(t, r, c)
  \/ Quit(t, r, c)

Next ==
  \/ \E t \in Threads, r \in Rids, c \in Clients : Request(t, r, c)
  \/ \E t \in Threads \cup {Event} : Respond(t)
  \/ \E D \in SUBSET Busy : \E F \in SUBSET {l \in D : l[2] \in MayFail} : EventPass(D, F)
  \/ \E r \in Rids : Deadline(r)
  \/ Exit

Spec == Init /\ [][Next]_vars

\* Every thread runs on, and time passes; no client is obliged to send and no
\* job to finish.
Fairness ==
  /\ \A t \in Threads \cup {Event} : WF_vars(Respond(t))
  /\ WF_vars(\E D \in SUBSET Busy : \E F \in SUBSET {l \in D : l[2] \in MayFail} : EventPass(D, F))
  /\ \A r \in Rids : WF_vars(Deadline(r))

FairSpec == Spec /\ Fairness

=============================================================================
