--------------------------- MODULE V3DWaitsProofs ---------------------------
(***************************************************************************)
(* What holds of the deferred waits (V3DWaits) for any number of clients,  *)
(* threads, message ids, queues and fences: every request is held in one   *)
(* place only (OneHolder), a parked one belongs to a client that is open   *)
(* (NoOrphanWait), and a fence wait answered with success waited for jobs  *)
(* that have ended (OkMeansDone).                                          *)
(***************************************************************************)
EXTENDS V3DWaitsProps, TLAPS

\* What the argument needs besides: a request has a kind, the lists hold ids,
\* and a dispatch thread handles one message at a time.
Lists ==
  /\ DOMAIN wait = Rids /\ wait = [r \in Rids |-> wait[r]]
  /\ \A r \in Rids : "kind" \in DOMAIN wait[r]
  /\ waits \subseteq Rids
  /\ ans \in [Answerers -> SUBSET Rids]
  /\ own \in [Threads -> SUBSET Rids]
  /\ \A t \in Threads : \A p, r \in own[t] : p = r

HInv == Lists /\ OneHolder

\* Claiming requests, as wait_eval's verdict is written into them, changes
\* neither what kind of request they are nor that they have one.
LEMMA ResultKeepsKind ==
  ASSUME NEW w, "kind" \in DOMAIN w, NEW x, NEW y
  PROVE  /\ "kind" \in DOMAIN [w EXCEPT !.res = x]
         /\ [w EXCEPT !.res = x].kind = w.kind
         /\ "kind" \in DOMAIN [w EXCEPT !.res = x, !.err = y]
         /\ [w EXCEPT !.res = x, !.err = y].kind = w.kind
  OBVIOUS

\* A message no thread holds (msgRecv) goes into the hands of the thread that
\* received it: the reply of every handler that does not wait.
LEMMA ReplyHolds ==
  ASSUME HInv, NEW t \in Threads, NEW r \in Rids, NEW c, NEW res, Recv(t, r), Reply(t, r, c, res)
  PROVE  HInv'
<1>1. Op(c, res).kind = "OP" /\ "kind" \in DOMAIN Op(c, res)
  BY DEF Op, FreeWait
<1>2. Lists'
  BY <1>1 DEF HInv, Lists, Reply, Answerers
<1>3. \A p \in Rids : wait'[p].kind # "none" <=> p = r \/ wait[p].kind # "none"
  BY <1>1 DEF HInv, Lists, Reply
<1>4. \A u \in Threads : own'[u] = IF u = t THEN {r} ELSE own[u]
  BY DEF HInv, Lists, Reply
<1>5. r \notin waits /\ (\A u \in Answerers : r \notin ans[u]) /\ (\A u \in Threads : r \notin own[u])
  BY DEF HInv, OneHolder, Recv
<1>6. own[t] = {}
  BY DEF Recv, Idle
<1>7. waits' = waits /\ ans' = ans
  BY DEF Reply
<1>8. OneHolder'
  BY <1>3, <1>4, <1>5, <1>6, <1>7 DEF HInv, OneHolder, Answerers
<1>. QED  BY <1>2, <1>8 DEF HInv

\* A wait is either answered by its own thread or parked, never both.
LEMMA ParkHolds ==
  ASSUME HInv, NEW t \in Threads, NEW r \in Rids, NEW w, NEW poll, Recv(t, r), Park(t, r, w, poll),
         "kind" \in DOMAIN w, w.kind # "none"
  PROVE  HInv'
<1>1. PICK x, y, res :
        /\ wait' = [wait EXCEPT ![r] = [w EXCEPT !.res = x, !.err = y]]
        /\ IF res = "WAIT" THEN waits' = waits \cup {r} /\ own' = own
                           ELSE own' = [own EXCEPT ![t] = {r}] /\ waits' = waits
        /\ ans' = ans
  BY Zenon DEF Park
<1>2. /\ "kind" \in DOMAIN [w EXCEPT !.res = x, !.err = y]
      /\ [w EXCEPT !.res = x, !.err = y].kind # "none"
  BY ResultKeepsKind
<1>3. Lists'
  BY <1>1, <1>2 DEF HInv, Lists, Answerers
<1>4. \A p \in Rids : wait'[p].kind # "none" <=> p = r \/ wait[p].kind # "none"
  BY <1>1, <1>2 DEF HInv, Lists
<1>5. r \notin waits /\ (\A u \in Answerers : r \notin ans[u]) /\ (\A u \in Threads : r \notin own[u])
  BY DEF HInv, OneHolder, Recv
<1>6. own[t] = {}
  BY DEF Recv, Idle
<1>7. CASE waits' = waits \cup {r} /\ own' = own
  BY <1>1, <1>3, <1>4, <1>5, <1>7 DEF HInv, OneHolder
<1>8. CASE own' = [own EXCEPT ![t] = {r}] /\ waits' = waits
  <2>1. \A u \in Threads : own'[u] = IF u = t THEN {r} ELSE own[u]
    BY <1>8 DEF HInv, Lists
  <2>2. OneHolder'
    BY <1>1, <1>4, <1>5, <1>6, <1>8, <2>1 DEF HInv, OneHolder, Answerers
  <2>. QED  BY <1>3, <2>2 DEF HInv
<1>. QED  BY <1>1, <1>3, <1>7, <1>8 DEF HInv

\* wait_claim moves requests from srv.waits to one answer list, whoever calls it.
LEMMA ClaimMoves ==
  ASSUME HInv, NEW S \in SUBSET waits, NEW t \in Answerers, Claim(S, t), own' = own,
         DOMAIN wait' = Rids, wait' = [p \in Rids |-> wait'[p]],
         \A p \in Rids : "kind" \in DOMAIN wait'[p] /\ wait'[p].kind = wait[p].kind
  PROVE  HInv'
<1>1. \A u \in Answerers : ans'[u] = IF u = t THEN ans[t] \cup S ELSE ans[u]
  BY DEF HInv, Lists, Claim
<1>2. waits' = waits \ S
  BY DEF Claim
<1>3. Lists'
  BY DEF HInv, Lists, Claim
<1>4. OneHolder'
  BY <1>1, <1>2 DEF HInv, OneHolder
<1>. QED  BY <1>3, <1>4 DEF HInv

\* The same in client_close and DBG_QUIT, which also answer their own request.
LEMMA ClaimAndReply ==
  ASSUME HInv, NEW S \in SUBSET waits, NEW t \in Threads, NEW r \in Rids, Recv(t, r), Claim(S, t),
         own' = [own EXCEPT ![t] = {r}],
         DOMAIN wait' = Rids, wait' = [p \in Rids |-> wait'[p]],
         \A p \in Rids : "kind" \in DOMAIN wait'[p],
         wait'[r].kind = "OP", \A p \in Rids \ {r} : wait'[p].kind = wait[p].kind
  PROVE  HInv'
<1>1. \A u \in Answerers : ans'[u] = IF u = t THEN ans[t] \cup S ELSE ans[u]
  BY DEF HInv, Lists, Claim, Answerers
<1>2. waits' = waits \ S
  BY DEF Claim
<1>3. \A u \in Threads : own'[u] = IF u = t THEN {r} ELSE own[u]
  BY DEF HInv, Lists
<1>4. Lists'
  BY DEF HInv, Lists, Claim, Answerers
<1>5. \A p \in Rids : wait'[p].kind # "none" <=> p = r \/ wait[p].kind # "none"
  OBVIOUS
<1>6. r \notin waits /\ (\A u \in Answerers : r \notin ans[u]) /\ (\A u \in Threads : r \notin own[u])
  BY DEF HInv, OneHolder, Recv
<1>7. own[t] = {} /\ t \in Answerers
  BY DEF Recv, Idle, Answerers
<1>8. OneHolder'
  BY <1>1, <1>2, <1>3, <1>5, <1>6, <1>7 DEF HInv, OneHolder
<1>. QED  BY <1>4, <1>8 DEF HInv

\* An answer is sent by the one thread that holds the request.
LEMMA RespondHolds ==
  ASSUME HInv, NEW t \in Answerers, Respond(t)
  PROVE  HInv'
<1>. FreeWait.kind = "none" /\ "kind" \in DOMAIN FreeWait
  BY DEF FreeWait
<1>1. ASSUME NEW r \in ans[t], Sent(r), ans' = [ans EXCEPT ![t] = @ \ {r}], own' = own
      PROVE  HInv'
  <2>1. r \in Rids
    BY <1>1 DEF HInv, Lists
  <2>2. Lists'
    BY <1>1, <2>1 DEF HInv, Lists, Sent
  <2>3. \A p \in Rids : wait'[p].kind # "none" <=> p # r /\ wait[p].kind # "none"
    BY <1>1, <2>1 DEF HInv, Lists, Sent
  <2>4. \A u \in Answerers : ans'[u] = IF u = t THEN ans[t] \ {r} ELSE ans[u]
    BY <1>1 DEF HInv, Lists
  <2>5. waits' = waits
    BY <1>1 DEF Sent
  <2>6. OneHolder'
    BY <1>1, <2>1, <2>3, <2>4, <2>5 DEF HInv, OneHolder
  <2>. QED  BY <2>2, <2>6 DEF HInv
<1>2. ASSUME t # Event, NEW r \in own[t], ans[t] = {}, Sent(r), own' = [own EXCEPT ![t] = {}], ans' = ans
      PROVE  HInv'
  <2>1. t \in Threads
    BY <1>2 DEF Answerers
  <2>2. r \in Rids
    BY <1>2, <2>1 DEF HInv, Lists
  <2>3. Lists'
    BY <1>2, <2>1, <2>2 DEF HInv, Lists, Sent
  <2>4. \A p \in Rids : wait'[p].kind # "none" <=> p # r /\ wait[p].kind # "none"
    BY <1>2, <2>2 DEF HInv, Lists, Sent
  <2>5. \A u \in Threads : own'[u] = IF u = t THEN {} ELSE own[u]
    BY <1>2, <2>1 DEF HInv, Lists
  <2>6. waits' = waits
    BY <1>2 DEF Sent
  <2>7. OneHolder'
    BY <1>2, <2>1, <2>2, <2>4, <2>5, <2>6 DEF HInv, Lists, OneHolder
  <2>. QED  BY <2>3, <2>7 DEF HInv
<1>. QED  BY <1>1, <1>2 DEF Respond

\* Every step keeps each request in one place.
LEMMA NextHolds == HInv /\ [Next]_vars => HInv'
<1>. SUFFICES ASSUME HInv, [Next]_vars PROVE HInv'
  OBVIOUS
<1>1. ASSUME NEW t \in Threads, NEW r \in Rids, NEW c \in Clients, Request(t, r, c)
      PROVE  HInv'
  <2>1. CASE Open(t, r, c)
    BY <2>1, ReplyHolds DEF Open
  <2>2. ASSUME NEW S \in SUBSET Lines, Close(t, r, c, S)
        PROVE  HInv'
    <3>1. \A p \in Rids : wait'[p] = IF p = r THEN Op(c, "OK")
                                     ELSE IF p \in Gone(c) THEN [wait[p] EXCEPT !.res = "EPIPE"] ELSE wait[p]
      BY <2>2 DEF Close
    <3>2. DOMAIN wait' = Rids /\ wait' = [p \in Rids |-> wait'[p]]
      BY <2>2 DEF Close
    <3>3. ASSUME NEW p \in Rids
          PROVE  "kind" \in DOMAIN wait'[p] /\ wait'[p].kind = IF p = r THEN "OP" ELSE wait[p].kind
      <4>1. CASE p = r
        BY <3>1, <4>1 DEF Op, FreeWait
      <4>2. CASE p # r
        <5>1. "kind" \in DOMAIN wait[p]
          BY DEF HInv, Lists
        <5>2. wait'[p] = wait[p] \/ wait'[p] = [wait[p] EXCEPT !.res = "EPIPE"]
          BY <3>1, <4>2
        <5>. QED  BY <4>2, <5>1, <5>2, ResultKeepsKind
      <4>. QED  BY <4>1, <4>2
    <3>4. Gone(c) \in SUBSET waits /\ Recv(t, r) /\ Claim(Gone(c), t) /\ own' = [own EXCEPT ![t] = {r}]
      BY <2>2 DEF Close, Gone
    <3>5. /\ \A p \in Rids : "kind" \in DOMAIN wait'[p]
          /\ wait'[r].kind = "OP" /\ \A p \in Rids \ {r} : wait'[p].kind = wait[p].kind
      BY <3>3
    <3>. QED  BY <3>2, <3>4, <3>5, ClaimAndReply
  <2>3. ASSUME NEW Q \in SUBSET Lines, NEW H \in SUBSET Handles, Submit(t, r, c, Q, H)
        PROVE  HInv'
    BY <2>3, ReplyHolds DEF Submit, Raw
  <2>4. ASSUME NEW poll \in BOOLEAN, NEW f \in Known, FenceWait(t, r, c, f, poll)
        PROVE  HInv'
    <3>. DEFINE w == [FreeWait EXCEPT !.client = c, !.kind = "FENCE", !.fences = {f}]
    <3>1. "kind" \in DOMAIN w /\ w.kind # "none"
      BY DEF FreeWait
    <3>2. Recv(t, r) /\ Park(t, r, w, poll)
      BY <2>4 DEF FenceWait, Raw
    <3>. HIDE DEF w
    <3>. QED  BY <3>1, <3>2, ParkHolds
  <2>5. ASSUME NEW poll \in BOOLEAN, NEW F \in SUBSET Known, BoWait(t, r, c, F, poll)
        PROVE  HInv'
    <3>. DEFINE w == [FreeWait EXCEPT !.client = c, !.kind = "BO", !.fences = F]
    <3>1. "kind" \in DOMAIN w /\ w.kind # "none"
      BY DEF FreeWait
    <3>2. Recv(t, r) /\ Park(t, r, w, poll)
      BY <2>5 DEF BoWait, Raw
    <3>. HIDE DEF w
    <3>. QED  BY <3>1, <3>2, ParkHolds
  <2>6. ASSUME NEW poll \in BOOLEAN, NEW H \in SUBSET Handles, NEW all \in BOOLEAN, NEW fs \in BOOLEAN,
               SyncWait(t, r, c, H, all, fs, poll)
        PROVE  HInv'
    <3>. DEFINE w == [FreeWait EXCEPT !.client = c, !.kind = "SYNC", !.handles = H, !.all = all,
                                      !.forSubmit = fs]
    <3>1. "kind" \in DOMAIN w /\ w.kind # "none"
      BY DEF FreeWait
    <3>2. Recv(t, r) /\ Park(t, r, w, poll)
      BY <2>6 DEF SyncWait, Raw
    <3>. HIDE DEF w
    <3>. QED  BY <3>1, <3>2, ParkHolds
  <2>7. CASE SyncOps(t, r, c)
    <3>1. \A h, s : SetSync(t, r, c, h, s) /\ Recv(t, r) => HInv'
      BY ReplyHolds DEF SetSync
    <3>. QED  BY <2>7, <3>1 DEF SyncOps, SyncCreate, SyncDestroy, SyncSet, Raw
  <2>8. CASE Refuse(t, r, c)
    BY <2>8, ReplyHolds DEF Refuse, Raw
  <2>9. CASE Quit(t, r, c)
    <3>1. \A p \in Rids : wait'[p] = IF p = r THEN Op(c, "OK")
                                     ELSE IF p \in waits THEN [wait[p] EXCEPT !.res = "ENODEV"] ELSE wait[p]
      BY <2>9 DEF Quit
    <3>2. DOMAIN wait' = Rids /\ wait' = [p \in Rids |-> wait'[p]]
      BY <2>9 DEF Quit
    <3>3. ASSUME NEW p \in Rids
          PROVE  "kind" \in DOMAIN wait'[p] /\ wait'[p].kind = IF p = r THEN "OP" ELSE wait[p].kind
      <4>1. CASE p = r
        BY <3>1, <4>1 DEF Op, FreeWait
      <4>2. CASE p # r
        <5>1. "kind" \in DOMAIN wait[p]
          BY DEF HInv, Lists
        <5>2. wait'[p] = wait[p] \/ wait'[p] = [wait[p] EXCEPT !.res = "ENODEV"]
          BY <3>1, <4>2
        <5>. QED  BY <4>2, <5>1, <5>2, ResultKeepsKind
      <4>. QED  BY <4>1, <4>2
    <3>4. waits \in SUBSET waits /\ Recv(t, r) /\ Claim(waits, t) /\ own' = [own EXCEPT ![t] = {r}]
      BY <2>9 DEF Quit
    <3>5. /\ \A p \in Rids : "kind" \in DOMAIN wait'[p]
          /\ wait'[r].kind = "OP" /\ \A p \in Rids \ {r} : wait'[p].kind = wait[p].kind
      BY <3>3
    <3>. QED  BY <3>2, <3>4, <3>5, ClaimAndReply
  <2>. QED  BY <1>1, <2>1, <2>2, <2>3, <2>4, <2>5, <2>6, <2>7, <2>8, <2>9 DEF Request, Waits
<1>2. ASSUME NEW t \in Answerers, Respond(t)
      PROVE  HInv'
  BY <1>2, RespondHolds
<1>3. ASSUME NEW D, NEW F, EventPass(D, F)
      PROVE  HInv'
  <2>. DEFINE S == {r \in waits : Over(r, completed') # "WAIT"}
  <2>1. S \in SUBSET waits /\ Claim(S, Event) /\ own' = own
    BY <1>3 DEF EventPass
  <2>2. DOMAIN wait' = Rids /\ wait' = [p \in Rids |-> wait'[p]]
    BY <1>3 DEF EventPass
  <2>3. ASSUME NEW p \in Rids
        PROVE  "kind" \in DOMAIN wait'[p] /\ wait'[p].kind = wait[p].kind
    <3>1. \/ wait'[p] = wait[p]
          \/ \E x, y : wait'[p] = [wait[p] EXCEPT !.res = x, !.err = y]
      BY <1>3, Zenon DEF EventPass
    <3>2. "kind" \in DOMAIN wait[p]
      BY DEF HInv, Lists
    <3>. QED  BY <3>1, <3>2, ResultKeepsKind
  <2>4. Event \in Answerers
    BY DEF Answerers
  <2>. HIDE DEF S
  <2>. QED  BY <2>1, <2>2, <2>3, <2>4, ClaimMoves
<1>4. CASE UNCHANGED listVars
  BY <1>4 DEF listVars, HInv, Lists, OneHolder
<1>5. ASSUME NEW r \in Rids, Deadline(r)
      PROVE  UNCHANGED listVars
  BY <1>5 DEF Deadline
<1>6. CASE Exit
  BY <1>4, <1>6 DEF Exit
<1>7. CASE UNCHANGED vars
  BY <1>4, <1>7 DEF vars
<1>. QED  BY <1>1, <1>2, <1>3, <1>4, <1>5, <1>6, <1>7 DEF Next, Answerers

\* No request has arrived at the start.
LEMMA InitHolds == Init => HInv
BY DEF Init, HInv, Lists, OneHolder, FreeWait, Answerers

\* Every request is in one place, hence answered at most once, whatever the
\* number of clients, threads and message ids.
THEOREM EachAnsweredOnce == Spec => []OneHolder
<1>1. HInv => OneHolder
  BY DEF HInv
<1>. QED  BY <1>1, InitHolds, NextHolds, PTL DEF Spec

-----------------------------------------------------------------------------
(* No parked request outlives its client.  A request is parked for a live  *)
(* client; client_close takes the client's requests off the list before it *)
(* frees the slot; nothing else changes a parked request's client.         *)

Owned ==
  /\ DOMAIN used = Clients
  /\ \A r \in Rids : "client" \in DOMAIN wait[r]
  /\ NoOrphanWait

\* wait_eval's verdict does not change whose request it is.
LEMMA ResultKeepsClient ==
  ASSUME NEW w, "client" \in DOMAIN w, NEW x, NEW y
  PROVE  /\ "client" \in DOMAIN [w EXCEPT !.res = x]
         /\ [w EXCEPT !.res = x].client = w.client
         /\ "client" \in DOMAIN [w EXCEPT !.res = x, !.err = y]
         /\ [w EXCEPT !.res = x, !.err = y].client = w.client
  OBVIOUS

\* A received message is not parked, so a reply touches no parked request.
LEMMA ReplyOwned ==
  ASSUME HInv, Owned, NEW t \in Threads, NEW r \in Rids, NEW c, NEW res, Recv(t, r), Reply(t, r, c, res),
         DOMAIN used' = Clients, \A d : used[d] => used'[d]
  PROVE  Owned'
<1>1. "client" \in DOMAIN Op(c, res)
  BY DEF Op, FreeWait
<1>2. r \notin waits /\ waits' = waits /\ waits \subseteq Rids
  BY DEF HInv, Lists, OneHolder, Recv, Reply
<1>3. \A p \in Rids : wait'[p] = IF p = r THEN Op(c, res) ELSE wait[p]
  BY DEF HInv, Lists, Reply
<1>. QED  BY <1>1, <1>2, <1>3 DEF Owned, NoOrphanWait

\* A wait is parked for the client that sent it, which is open.
LEMMA ParkOwned ==
  ASSUME HInv, Owned, NEW t \in Threads, NEW r \in Rids, NEW w, NEW poll, Recv(t, r), Park(t, r, w, poll),
         "client" \in DOMAIN w, used[w.client], used' = used
  PROVE  Owned'
<1>1. PICK x, y :
        /\ wait' = [wait EXCEPT ![r] = [w EXCEPT !.res = x, !.err = y]]
        /\ waits' = waits \cup {r} \/ waits' = waits
  BY Zenon DEF Park
<1>2. \A p \in Rids : wait'[p] = IF p = r THEN [w EXCEPT !.res = x, !.err = y] ELSE wait[p]
  BY <1>1 DEF HInv, Lists
<1>3. /\ "client" \in DOMAIN [w EXCEPT !.res = x, !.err = y]
      /\ [w EXCEPT !.res = x, !.err = y].client = w.client
  BY ResultKeepsClient
<1>4. waits \subseteq Rids
  BY DEF HInv, Lists
<1>. QED  BY <1>1, <1>2, <1>3, <1>4 DEF Owned, NoOrphanWait

\* Steps that only take requests off the list, of clients that stay.
LEMMA ShrinkOwned ==
  ASSUME HInv, Owned, DOMAIN used' = Clients, waits' \subseteq waits,
         \A p \in Rids : "client" \in DOMAIN wait'[p],
         \A p \in waits' : wait'[p].client = wait[p].client /\ (used[wait[p].client] => used'[wait[p].client])
  PROVE  Owned'
  BY DEF Owned, NoOrphanWait, HInv, Lists

\* Every step keeps parked requests with open clients.
LEMMA NextOwned == HInv /\ Owned /\ [Next]_vars => Owned'
<1>. SUFFICES ASSUME HInv, Owned, [Next]_vars PROVE Owned'
  OBVIOUS
<1>0. DOMAIN used = Clients /\ (\A p \in Rids : "client" \in DOMAIN wait[p]) /\ waits \subseteq Rids
  BY DEF Owned, HInv, Lists
<1>1. ASSUME NEW t \in Threads, NEW r \in Rids, NEW c \in Clients, Request(t, r, c)
      PROVE  Owned'
  <2>1. CASE Open(t, r, c)
    <3>1. DOMAIN used' = Clients /\ \A d : used[d] => used'[d]
      BY <1>0, <2>1 DEF Open
    <3>. QED  BY <2>1, <3>1, ReplyOwned DEF Open
  <2>2. ASSUME NEW S \in SUBSET Lines, Close(t, r, c, S)
        PROVE  Owned'
    <3>1. \A p \in Rids : wait'[p] = IF p = r THEN Op(c, "OK")
                                     ELSE IF p \in Gone(c) THEN [wait[p] EXCEPT !.res = "EPIPE"] ELSE wait[p]
      BY <2>2 DEF Close
    <3>2. waits' = waits \ Gone(c) /\ r \notin waits
      BY <2>2 DEF Close, Claim, Recv, HInv, OneHolder
    <3>3. DOMAIN used' = Clients /\ \A d \in Clients \ {c} : used[d] => used'[d]
      BY <1>0, <2>2 DEF Close
    <3>4. \A p \in Rids : "client" \in DOMAIN wait'[p]
      <4>. TAKE p \in Rids
      <4>1. CASE p = r
        BY <3>1, <4>1 DEF Op, FreeWait
      <4>2. CASE p # r
        <5>1. wait'[p] = wait[p] \/ wait'[p] = [wait[p] EXCEPT !.res = "EPIPE"]
          BY <3>1, <4>2
        <5>. QED  BY <1>0, <5>1, ResultKeepsClient
      <4>. QED  BY <4>1, <4>2
    <3>5. ASSUME NEW p \in waits'
          PROVE  wait'[p] = wait[p] /\ wait[p].client # c
      BY <1>0, <3>1, <3>2 DEF Gone
    <3>6. ASSUME NEW d, d # c, used[d]
          PROVE  used'[d]
      BY <1>0, <2>2, <3>6 DEF Close
    <3>. QED  BY <3>2, <3>3, <3>4, <3>5, <3>6, ShrinkOwned
  <2>3. ASSUME NEW Q \in SUBSET Lines, NEW H \in SUBSET Handles, Submit(t, r, c, Q, H)
        PROVE  Owned'
    BY <1>0, <2>3, ReplyOwned DEF Submit, Raw
  <2>4. ASSUME NEW poll \in BOOLEAN, NEW f \in Known, FenceWait(t, r, c, f, poll)
        PROVE  Owned'
    <3>. DEFINE w == [FreeWait EXCEPT !.client = c, !.kind = "FENCE", !.fences = {f}]
    <3>1. "client" \in DOMAIN w /\ w.client = c
      BY DEF FreeWait
    <3>2. Recv(t, r) /\ used[c] /\ used' = used /\ Park(t, r, w, poll)
      BY <2>4 DEF FenceWait, Raw
    <3>. HIDE DEF w
    <3>. QED  BY <3>1, <3>2, ParkOwned
  <2>5. ASSUME NEW poll \in BOOLEAN, NEW F \in SUBSET Known, BoWait(t, r, c, F, poll)
        PROVE  Owned'
    <3>. DEFINE w == [FreeWait EXCEPT !.client = c, !.kind = "BO", !.fences = F]
    <3>1. "client" \in DOMAIN w /\ w.client = c
      BY DEF FreeWait
    <3>2. Recv(t, r) /\ used[c] /\ used' = used /\ Park(t, r, w, poll)
      BY <2>5 DEF BoWait, Raw
    <3>. HIDE DEF w
    <3>. QED  BY <3>1, <3>2, ParkOwned
  <2>6. ASSUME NEW poll \in BOOLEAN, NEW H \in SUBSET Handles, NEW all \in BOOLEAN, NEW fs \in BOOLEAN, SyncWait(t, r, c, H, all, fs, poll)
        PROVE  Owned'
    <3>. DEFINE w == [FreeWait EXCEPT !.client = c, !.kind = "SYNC", !.handles = H, !.all = all,
                                      !.forSubmit = fs]
    <3>1. "client" \in DOMAIN w /\ w.client = c
      BY DEF FreeWait
    <3>2. Recv(t, r) /\ used[c] /\ used' = used /\ Park(t, r, w, poll)
      BY <2>6 DEF SyncWait, Raw
    <3>. HIDE DEF w
    <3>. QED  BY <3>1, <3>2, ParkOwned
  <2>7. CASE SyncOps(t, r, c)
    <3>1. \A h, x : SetSync(t, r, c, h, x) /\ Raw(t, r, c) => Owned'
      BY <1>0, ReplyOwned DEF SetSync, Raw
    <3>. QED  BY <2>7, <3>1 DEF SyncOps, SyncCreate, SyncDestroy, SyncSet
  <2>8. CASE Refuse(t, r, c)
    BY <1>0, <2>8, ReplyOwned DEF Refuse, Raw
  <2>9. CASE Quit(t, r, c)
    <3>1. \A p \in Rids : \/ wait'[p] = Op(c, "OK") \/ wait'[p] = wait[p]
                          \/ wait'[p] = [wait[p] EXCEPT !.res = "ENODEV"]
      BY <2>9 DEF Quit
    <3>2. waits' = {} /\ used' = used
      BY <2>9 DEF Quit, Claim, rowVars
    <3>3. ASSUME NEW p \in Rids
          PROVE  "client" \in DOMAIN wait'[p]
      <4>1. "client" \in DOMAIN Op(c, "OK")
        BY DEF Op, FreeWait
      <4>. QED  BY <1>0, <3>1, <4>1, ResultKeepsClient
    <3>. QED  BY <1>0, <3>2, <3>3 DEF Owned, NoOrphanWait
  <2>. QED  BY <1>1, <2>1, <2>2, <2>3, <2>4, <2>5, <2>6, <2>7, <2>8, <2>9 DEF Request, Waits
<1>2. ASSUME NEW t \in Answerers, Respond(t)
      PROVE  Owned'
  <2>1. PICK r : Sent(r) /\ (r \in ans[t] \/ (t # Event /\ r \in own[t]))
    BY <1>2 DEF Respond
  <2>2. r \in Rids /\ r \notin waits
    BY <2>1 DEF HInv, Lists, OneHolder, Answerers
  <2>3. \A p \in Rids : wait'[p] = IF p = r THEN FreeWait ELSE wait[p]
    BY <2>1, <2>2 DEF HInv, Lists, Sent
  <2>4. waits' = waits /\ used' = used
    BY <2>1 DEF Sent, rowVars
  <2>5. "client" \in DOMAIN FreeWait
    BY DEF FreeWait
  <2>. QED  BY <1>0, <2>2, <2>3, <2>4, <2>5 DEF Owned, NoOrphanWait
<1>3. ASSUME NEW D, NEW F, EventPass(D, F)
      PROVE  Owned'
  <2>1. ASSUME NEW p \in Rids
        PROVE  "client" \in DOMAIN wait'[p] /\ wait'[p].client = wait[p].client
    <3>1. \/ wait'[p] = wait[p]
          \/ \E x, y : wait'[p] = [wait[p] EXCEPT !.res = x, !.err = y]
      BY <1>3, Zenon DEF EventPass
    <3>. QED  BY <1>0, <3>1, ResultKeepsClient
  <2>2. waits' \subseteq waits /\ used' = used
    BY <1>3 DEF EventPass, Claim
  <2>. QED  BY <1>0, <2>1, <2>2, ShrinkOwned
<1>4. CASE UNCHANGED <<used, wait, waits>>
  BY <1>4 DEF Owned, NoOrphanWait
<1>5. ASSUME NEW r \in Rids, Deadline(r)
      PROVE  UNCHANGED <<used, wait, waits>>
  BY <1>5 DEF Deadline, rowVars, listVars
<1>6. CASE Exit
  BY <1>4, <1>6 DEF Exit, rowVars, listVars
<1>7. CASE UNCHANGED vars
  BY <1>4, <1>7 DEF vars, rowVars, listVars
<1>. QED  BY <1>1, <1>2, <1>3, <1>4, <1>5, <1>6, <1>7 DEF Next, Answerers

\* A client's death leaves no request parked that would be judged by the
\* syncobjs of the slot's next owner.
THEOREM NoneOrphaned == Spec => []NoOrphanWait
<1>1. Init => Owned
  BY DEF Init, Owned, NoOrphanWait, FreeWait
<1>2. Owned => NoOrphanWait
  BY DEF Owned
<1>. QED  BY <1>1, <1>2, InitHolds, NextHolds, NextOwned, PTL DEF Spec

-----------------------------------------------------------------------------
(* Who is told that a fence is signalled finds its job finished.  The row  *)
(* of an unfinished job still has the job's generation and has not reached *)
(* its seqno; a fence someone waits for was handed out before, so no later *)
(* submit can make it unfinished again.                                    *)

Rows ==
  /\ gen \in [Clients -> Nat]
  /\ issued \in [Clients -> [Lines -> Nat]]
  /\ completed \in [Clients -> [Lines -> Nat]]
  /\ \A c \in Clients, q \in Lines : completed[c][q] <= issued[c][q]
  /\ \A f \in pend : /\ f.c \in Clients /\ f.q \in Lines /\ f.seq \in Nat
                     /\ gen[f.c] = f.gen
                     /\ completed[f.c][f.q] < f.seq /\ f.seq <= issued[f.c][f.q]

\* What a request record has
Whole(w) == {"kind", "fences", "res", "err"} \subseteq DOMAIN w

\* A request for fences names known ones, and is not told OK too early.
Honest(w) ==
  w.kind \in {"FENCE", "BO"} =>
    w.fences \subseteq Known /\ (w.res = "OK" => w.fences \cap pend = {})

Told == \A r \in Rids : Whole(wait[r]) /\ Honest(wait[r])

\* The verdict is written into a request and changes nothing else of it.
LEMMA VerdictFields ==
  ASSUME NEW w, Whole(w), NEW x, NEW y
  PROVE  /\ Whole([w EXCEPT !.res = x]) /\ Whole([w EXCEPT !.res = x, !.err = y])
         /\ [w EXCEPT !.res = x].kind = w.kind /\ [w EXCEPT !.res = x].fences = w.fences
         /\ [w EXCEPT !.res = x].res = x
         /\ [w EXCEPT !.res = x, !.err = y].kind = w.kind
         /\ [w EXCEPT !.res = x, !.err = y].fences = w.fences
         /\ [w EXCEPT !.res = x, !.err = y].res = x
BY DEF Whole

\* wait_eval's OK means that no fence of the request is of an unfinished job.
LEMMA VerdictSound ==
  ASSUME Rows', gen' = gen, NEW w, w.kind \in {"FENCE", "BO"}, Eval(w, completed') = "OK"
  PROVE  w.fences \cap pend' = {}
<1>1. \A f \in w.fences : Signaled(f, completed')
  BY DEF Eval
<1>2. \A f \in pend' : gen[f.c] = f.gen /\ completed'[f.c][f.q] \in Nat /\ f.seq \in Nat
                       /\ completed'[f.c][f.q] < f.seq
  <2> SUFFICES ASSUME NEW f \in pend'
               PROVE  /\ gen[f.c] = f.gen /\ completed'[f.c][f.q] \in Nat /\ f.seq \in Nat
                      /\ completed'[f.c][f.q] < f.seq
    OBVIOUS
  <2>1. /\ f.c \in Clients /\ f.q \in Lines /\ f.seq \in Nat
        /\ gen[f.c] = f.gen /\ completed'[f.c][f.q] < f.seq
    BY DEF Rows
  <2>2. completed'[f.c][f.q] \in Nat
    BY <2>1 DEF Rows
  <2> QED
    BY <2>1, <2>2
<1> QED
  BY <1>1, <1>2 DEF Signaled

\* A step that leaves the rows alone.
LEMMA SameRows ==
  ASSUME Rows, UNCHANGED <<gen, issued, completed, pend>>
  PROVE  Rows' /\ Known' = Known /\ pend' = pend
BY DEF Rows, Known

\* A handler that does not wait replies, whatever it does to the rows.
LEMMA ReplyTold ==
  ASSUME HInv, Told, Known \subseteq Known', pend' \cap Known \subseteq pend,
         NEW t, NEW r \in Rids, NEW c, NEW res, Reply(t, r, c, res)
  PROVE  Told'
<1>1. Whole(Op(c, res)) /\ Op(c, res).kind = "OP"
  BY DEF Op, FreeWait, Whole
<1>2. \A p \in Rids : wait'[p] = IF p = r THEN Op(c, res) ELSE wait[p]
  BY DEF HInv, Lists, Reply
<1>3. ASSUME NEW p \in Rids
      PROVE  Whole(wait'[p]) /\ Honest(wait[p])' 
  <2>1. CASE p = r
    BY <1>1, <1>2, <2>1 DEF Honest
  <2>2. CASE p # r
    <3>1. Honest(wait[p]) /\ Whole(wait[p]) /\ wait'[p] = wait[p]
      BY <1>2, <2>2 DEF Told
    <3> QED
      BY <3>1 DEF Honest
  <2> QED
    BY <2>1, <2>2
<1> QED
  BY <1>3 DEF Told

\* A parked or answered wait is honest.
LEMMA ParkTold ==
  ASSUME HInv, Rows, Told, NEW t, NEW r \in Rids, NEW w, NEW poll, Park(t, r, w, poll), gen' = gen,
         Whole(w), w.kind \in {"FENCE", "BO"} => w.fences \subseteq Known
  PROVE  Rows' /\ Told'
<1>1. UNCHANGED <<gen, issued, completed, pend>>
  BY DEF Park
<1>2. Rows' /\ Known' = Known /\ pend' = pend
  BY <1>1, SameRows
<1>3. PICK x, y :
        /\ wait' = [wait EXCEPT ![r] = [w EXCEPT !.res = x, !.err = y]]
        /\ x = "OK" => Eval(w, completed) = "OK"
  <2>1. PICK v : v = Eval(w, completed)
    OBVIOUS
  <2>2. PICK x : x = IF v = "WAIT" /\ poll THEN "ETIMEDOUT" ELSE v
    OBVIOUS
  <2>3. PICK y : y = (v = "OK" /\ EvalErr(w, errorSeq))
    OBVIOUS
  <2>4. wait' = [wait EXCEPT ![r] = [w EXCEPT !.res = x, !.err = y]]
    BY <2>1, <2>2, <2>3, Zenon DEF Park
  <2>5. x = "OK" => v = "OK"
    BY <2>2
  <2> QED
    BY <2>1, <2>4, <2>5
<1>4. PICK n : n = [w EXCEPT !.res = x, !.err = y]
  OBVIOUS
<1>5. Whole(n) /\ n.kind = w.kind /\ n.fences = w.fences /\ n.res = x
  <2>1. /\ Whole([w EXCEPT !.res = x, !.err = y])
        /\ [w EXCEPT !.res = x, !.err = y].kind = w.kind
        /\ [w EXCEPT !.res = x, !.err = y].fences = w.fences
        /\ [w EXCEPT !.res = x, !.err = y].res = x
    BY VerdictFields DEF Whole
  <2> QED
    BY <1>4, <2>1, Zenon
<1>6. \A p \in Rids : wait'[p] = IF p = r THEN n ELSE wait[p]
  BY <1>3, <1>4 DEF HInv, Lists
<1>7. w.kind \in {"FENCE", "BO"} /\ x = "OK" => w.fences \cap pend = {}
  BY <1>1, <1>2, <1>3, VerdictSound
<1>8. ASSUME NEW p \in Rids
      PROVE  Whole(wait'[p]) /\ Honest(wait[p])'
  <2>1. CASE p = r
    BY <1>2, <1>5, <1>6, <1>7, <2>1 DEF Honest
  <2>2. CASE p # r
    BY <1>2, <1>6, <2>2 DEF Told, Honest
  <2> QED
    BY <2>1, <2>2
<1> QED
  BY <1>2, <1>8 DEF Told

\* A new fence is of the row's present owner and of no number handed out.
LEMMA SubmitRows ==
  ASSUME Rows, NEW t, NEW r, NEW c \in Clients, NEW Q \in SUBSET Lines, NEW H, Submit(t, r, c, Q, H)
  PROVE  Rows' /\ Known \subseteq Known' /\ pend' \cap Known \subseteq pend
<1>1. /\ gen' = gen /\ completed' = completed
      /\ issued' = [issued EXCEPT ![c] = [q \in Lines |-> IF q \in Q THEN @[q] + 1 ELSE @[q]]]
      /\ pend' = pend \cup {[c |-> c, q |-> q, gen |-> gen[c], seq |-> issued[c][q] + 1] : q \in Q}
  BY DEF Submit, Raw
<1>2. PICK N : N = {[c |-> c, q |-> q, gen |-> gen[c], seq |-> issued[c][q] + 1] : q \in Q}
  OBVIOUS
<1>3. \A d \in Clients, q \in Lines :
        /\ issued[d][q] \in Nat /\ completed[d][q] \in Nat
        /\ issued'[d][q] = IF d = c /\ q \in Q THEN issued[d][q] + 1 ELSE issued[d][q]
  BY <1>1 DEF Rows
<1>4. \A f \in N : /\ f.c = c /\ f.q \in Q /\ f.gen = gen[c] /\ f.seq = issued[c][f.q] + 1
  BY <1>2
<1>5. Known \subseteq Known'
  <2> SUFFICES ASSUME NEW f \in Known PROVE f \in Known'
    OBVIOUS
  <2>1. f \in Fence /\ (f.gen < gen[f.c] \/ (f.gen = gen[f.c] /\ f.seq <= issued[f.c][f.q]))
    BY DEF Known
  <2>2. f.c \in Clients /\ f.q \in Lines /\ f.seq \in Nat
    BY <2>1, WaitsAssumption DEF Fence
  <2>3. f.seq <= issued[f.c][f.q] => f.seq <= issued'[f.c][f.q]
    BY <1>3, <2>2
  <2> QED
    BY <1>1, <2>1, <2>3 DEF Known
<1>6. pend' \cap Known \subseteq pend
  <2> SUFFICES ASSUME NEW f \in N, f \in Known PROVE FALSE
    BY <1>1, <1>2
  <2>1. f.gen < gen[f.c] \/ (f.gen = gen[f.c] /\ f.seq <= issued[f.c][f.q])
    BY DEF Known
  <2>2. gen[c] \in Nat /\ issued[c][f.q] \in Nat
    BY <1>3, <1>4 DEF Rows
  <2> QED
    BY <1>4, <2>1, <2>2
<1>7. Rows'
  <2>1. gen' \in [Clients -> Nat] /\ completed' \in [Clients -> [Lines -> Nat]]
    BY <1>1 DEF Rows
  <2>2. issued' \in [Clients -> [Lines -> Nat]]
    BY <1>1 DEF Rows
  <2>3. ASSUME NEW f \in pend'
        PROVE  /\ f.c \in Clients /\ f.q \in Lines /\ f.seq \in Nat /\ gen[f.c] = f.gen
               /\ completed[f.c][f.q] < f.seq /\ f.seq <= issued'[f.c][f.q]
    <3>1. CASE f \in pend
      <4>1. /\ f.c \in Clients /\ f.q \in Lines /\ f.seq \in Nat /\ gen[f.c] = f.gen
            /\ completed[f.c][f.q] < f.seq /\ f.seq <= issued[f.c][f.q]
        BY <3>1 DEF Rows
      <4> QED
        BY <1>3, <4>1
    <3>2. CASE f \in N
      <4>1. f.c = c /\ f.q \in Lines /\ f.q \in Q /\ f.gen = gen[c] /\ f.seq = issued[c][f.q] + 1
        BY <1>4, <3>2
      <4>2. /\ completed[c][f.q] <= issued[c][f.q]
            /\ completed[c][f.q] \in Nat /\ issued[c][f.q] \in Nat
            /\ issued'[c][f.q] = issued[c][f.q] + 1
        BY <1>3, <4>1 DEF Rows
      <4> QED
        BY <4>1, <4>2
    <3> QED
      BY <1>1, <1>2, <3>1, <3>2
  <2>4. \A d \in Clients, q \in Lines : completed'[d][q] <= issued'[d][q]
    BY <1>1, <1>3 DEF Rows
  <2> QED
    BY <1>1, <2>1, <2>2, <2>3, <2>4 DEF Rows
<1> QED
  BY <1>5, <1>6, <1>7

\* A new owner finds no unfinished job on its row.
LEMMA OpenRows ==
  ASSUME Rows, NEW t, NEW r, NEW c \in Clients, Open(t, r, c)
  PROVE  Rows' /\ Known \subseteq Known' /\ pend' \cap Known \subseteq pend
<1>1. /\ gen' = [gen EXCEPT ![c] = gen[c] + 1]
      /\ issued' = [issued EXCEPT ![c] = [q \in Lines |-> 0]]
      /\ completed' = [completed EXCEPT ![c] = [q \in Lines |-> 0]]
      /\ pend' = pend /\ \A f \in pend : f.c # c
  BY DEF Open, NextGen, AllDone, Pending
<1>2. Rows'
  <2>1. /\ gen' \in [Clients -> Nat] /\ issued' \in [Clients -> [Lines -> Nat]]
        /\ completed' \in [Clients -> [Lines -> Nat]]
    BY <1>1 DEF Rows
  <2>2. \A d \in Clients, q \in Lines : completed'[d][q] <= issued'[d][q]
    <3> SUFFICES ASSUME NEW d \in Clients, NEW q \in Lines PROVE completed'[d][q] <= issued'[d][q]
      OBVIOUS
    <3>1. CASE d = c
      BY <1>1, <3>1 DEF Rows
    <3>2. CASE d # c
      BY <1>1, <3>2 DEF Rows
    <3> QED
      BY <3>1, <3>2
  <2>3. ASSUME NEW f \in pend'
        PROVE  /\ f.c \in Clients /\ f.q \in Lines /\ f.seq \in Nat /\ gen'[f.c] = f.gen
               /\ completed'[f.c][f.q] < f.seq /\ f.seq <= issued'[f.c][f.q]
    <3>1. f \in pend /\ f.c # c
      BY <1>1
    <3>2. /\ f.c \in Clients /\ f.q \in Lines /\ f.seq \in Nat /\ gen[f.c] = f.gen
          /\ completed[f.c][f.q] < f.seq /\ f.seq <= issued[f.c][f.q]
      BY <3>1 DEF Rows
    <3>3. gen'[f.c] = gen[f.c] /\ completed'[f.c] = completed[f.c] /\ issued'[f.c] = issued[f.c]
      BY <1>1, <3>1, <3>2 DEF Rows
    <3> QED
      BY <3>2, <3>3
  <2> QED
    BY <2>1, <2>2, <2>3 DEF Rows
<1>3. Known \subseteq Known'
  <2> SUFFICES ASSUME NEW f \in Known PROVE f \in Known'
    OBVIOUS
  <2>1. f \in Fence /\ (f.gen < gen[f.c] \/ (f.gen = gen[f.c] /\ f.seq <= issued[f.c][f.q]))
    BY DEF Known
  <2>2. f.c \in Clients /\ f.gen \in Nat /\ gen[f.c] \in Nat
    BY <2>1, WaitsAssumption DEF Fence, Rows
  <2>3. CASE f.c = c
    <3>1. gen'[f.c] = gen[f.c] + 1
      BY <1>1, <2>3 DEF Rows
    <3>2. f.gen < gen'[f.c]
      BY <2>1, <2>2, <3>1
    <3> QED
      BY <2>1, <3>2 DEF Known
  <2>4. CASE f.c # c
    <3>1. gen'[f.c] = gen[f.c] /\ issued'[f.c] = issued[f.c]
      BY <1>1, <2>2, <2>4 DEF Rows
    <3> QED
      BY <2>1, <3>1 DEF Known
  <2> QED
    BY <2>3, <2>4
<1> QED
  BY <1>1, <1>2, <1>3

\* Rows that only complete: the same fences are known and none becomes pending.
LEMMA CompleteRows ==
  ASSUME Rows, UNCHANGED <<gen, issued>>, completed' \in [Clients -> [Lines -> Nat]],
         \A c \in Clients, q \in Lines : completed'[c][q] <= issued[c][q],
         pend' \subseteq pend, \A f \in pend' : completed'[f.c][f.q] < f.seq
  PROVE  Rows' /\ Known \subseteq Known' /\ pend' \cap Known \subseteq pend
BY DEF Rows, Known

\* client_close completes the lines whose jobs are all discarded.
LEMMA CloseRows ==
  ASSUME Rows, NEW t, NEW r, NEW c \in Clients, NEW S \in SUBSET Lines, Close(t, r, c, S)
  PROVE  Rows' /\ Known \subseteq Known' /\ pend' \cap Known \subseteq pend
<1>1. /\ UNCHANGED <<gen, issued>>
      /\ completed' = [completed EXCEPT ![c] = [q \in Lines |-> IF q \in S THEN issued[c][q] ELSE @[q]]]
      /\ pend' = {f \in pend : ~(f.c = c /\ f.q \in S)}
  BY DEF Close
<1>2. \A d \in Clients, q \in Lines :
        completed'[d][q] = IF d = c /\ q \in S THEN issued[d][q] ELSE completed[d][q]
  BY <1>1 DEF Rows
<1>3. completed' \in [Clients -> [Lines -> Nat]]
  BY <1>1 DEF Rows
<1>4. \A d \in Clients, q \in Lines : completed'[d][q] <= issued[d][q]
  <2>1. \A d \in Clients, q \in Lines : issued[d][q] \in Nat /\ completed[d][q] <= issued[d][q]
    BY DEF Rows
  <2> QED
    BY <1>2, <2>1
<1>5. ASSUME NEW f \in pend'
      PROVE  completed'[f.c][f.q] < f.seq
  <2>1. f \in pend /\ ~(f.c = c /\ f.q \in S)
    BY <1>1
  <2>2. f.c \in Clients /\ f.q \in Lines /\ completed[f.c][f.q] < f.seq
    BY <2>1 DEF Rows
  <2> QED
    BY <1>2, <2>1, <2>2
<1>6. pend' \subseteq pend
  BY <1>1
<1> QED
  BY <1>1, <1>3, <1>4, <1>5, <1>6, CompleteRows

\* An event pass completes jobs that are there.
LEMMA EventRows ==
  ASSUME Rows, NEW D \in SUBSET Busy, NEW F, EventPass(D, F)
  PROVE  Rows' /\ Known \subseteq Known' /\ pend' \cap Known \subseteq pend
<1>1. /\ UNCHANGED <<gen, issued>>
      /\ completed' = [c \in Clients |-> [q \in Lines |->
           IF <<c, q>> \in D THEN Reached(<<c, q>>) ELSE completed[c][q]]]
      /\ pend' = {f \in pend : f.seq > completed'[f.c][f.q]}
  BY DEF EventPass
<1>2. ASSUME NEW c \in Clients, NEW q \in Lines
      PROVE  completed'[c][q] \in Nat /\ completed'[c][q] <= issued[c][q]
  <2>1. completed[c][q] \in Nat /\ issued[c][q] \in Nat /\ completed[c][q] <= issued[c][q]
    BY DEF Rows
  <2>2. CASE <<c, q>> \in D
    <3>1. PICK f \in pend : f.c = c /\ f.q = q
      BY <2>2 DEF Busy
    <3>2. completed[c][q] < f.seq /\ f.seq <= issued[c][q] /\ f.seq \in Nat
      BY <3>1 DEF Rows
    <3>3. Reached(<<c, q>>) = IF used[c] THEN completed[c][q] + 1 ELSE issued[c][q]
      BY DEF Reached
    <3>4. completed'[c][q] = Reached(<<c, q>>)
      BY <1>1, <2>2
    <3> QED
      BY <2>1, <3>2, <3>3, <3>4
  <2>3. CASE <<c, q>> \notin D
    <3>1. completed'[c][q] = completed[c][q]
      BY <1>1, <2>3
    <3> QED
      BY <2>1, <3>1
  <2> QED
    BY <2>2, <2>3
<1>3. completed' \in [Clients -> [Lines -> Nat]]
  BY <1>1, <1>2
<1>4. ASSUME NEW f \in pend'
      PROVE  completed'[f.c][f.q] < f.seq
  <2>1. f \in pend /\ f.seq > completed'[f.c][f.q]
    BY <1>1
  <2>2. f.c \in Clients /\ f.q \in Lines /\ f.seq \in Nat
    BY <2>1 DEF Rows
  <2> QED
    BY <1>2, <2>1, <2>2
<1>5. pend' \subseteq pend
  BY <1>1
<1> QED
  BY <1>1, <1>2, <1>3, <1>4, <1>5, CompleteRows

\* Steps that give requests another verdict than OK, or answer their own.
LEMMA VerdictTold ==
  ASSUME Told, Known \subseteq Known', pend' \cap Known \subseteq pend,
         NEW c, NEW bad, bad # "OK",
         \A p \in Rids : \/ wait'[p] = Op(c, "OK") \/ wait'[p] = wait[p]
                         \/ wait'[p] = [wait[p] EXCEPT !.res = bad]
  PROVE  Told'
<1>1. Whole(Op(c, "OK")) /\ Op(c, "OK").kind = "OP"
  BY DEF Op, FreeWait, Whole
<1>2. ASSUME NEW p \in Rids
      PROVE  Whole(wait'[p]) /\ Honest(wait[p])'
  <2>0. Whole(wait[p]) /\ Honest(wait[p])
    BY DEF Told
  <2>1. CASE wait'[p] = Op(c, "OK")
    BY <1>1, <2>1 DEF Honest
  <2>2. CASE wait'[p] = wait[p]
    BY <2>0, <2>2 DEF Honest
  <2>3. CASE wait'[p] = [wait[p] EXCEPT !.res = bad]
    <3>1. PICK w : w = wait[p]
      OBVIOUS
    <3>2. wait'[p] = [w EXCEPT !.res = bad] /\ Whole(w)
      BY <2>0, <2>3, <3>1
    <3>3. Whole(wait'[p]) /\ wait'[p].kind = w.kind /\ wait'[p].fences = w.fences /\ wait'[p].res = bad
      BY <3>2, VerdictFields DEF Whole
    <3> QED
      BY <2>0, <3>1, <3>3 DEF Honest
  <2> QED
    BY <2>1, <2>2, <2>3
<1> QED
  BY <1>2 DEF Told

\* The event thread's verdicts.
LEMMA EventTold ==
  ASSUME Told, Rows, NEW D \in SUBSET Busy, NEW F, EventPass(D, F)
  PROVE  Told'
<1>0. Rows' /\ Known \subseteq Known' /\ pend' \cap Known \subseteq pend /\ gen' = gen
  BY EventRows DEF EventPass
<1>1. ASSUME NEW p \in Rids
      PROVE  Whole(wait'[p]) /\ Honest(wait[p])'
  <2>0. PICK w : w = wait[p] /\ Whole(w) /\ Honest(w)
    BY DEF Told
  <2>1. CASE p \notin waits
    <3>1. wait'[p] = w
      BY <2>0, <2>1 DEF EventPass
    <3> QED
      BY <1>0, <2>0, <3>1 DEF Honest
  <2>2. CASE p \in waits
    <3>1. PICK x, y : x = Over(p, completed') /\ wait'[p] = [w EXCEPT !.res = x, !.err = y]
      BY <2>0, <2>2, Zenon DEF EventPass
    <3>2. Whole(wait'[p]) /\ wait'[p].kind = w.kind /\ wait'[p].fences = w.fences /\ wait'[p].res = x
      BY <2>0, <3>1, VerdictFields DEF Whole
    <3>3. x = "OK" => Eval(w, completed') = "OK"
      BY <2>0, <3>1 DEF Over
    <3>4. w.kind \in {"FENCE", "BO"} /\ x = "OK" => w.fences \cap pend' = {}
      BY <1>0, <3>3, VerdictSound
    <3> QED
      BY <1>0, <2>0, <3>2, <3>4 DEF Honest
  <2> QED
    BY <2>1, <2>2
<1> QED
  BY <1>1 DEF Told

\* Every step keeps the rows and the verdicts.
LEMMA NextTold == HInv /\ Rows /\ Told /\ [Next]_vars => Rows' /\ Told'
<1> SUFFICES ASSUME HInv, Rows, Told, [Next]_vars PROVE Rows' /\ Told'
  OBVIOUS
<1>0. ASSUME UNCHANGED <<gen, issued, completed, pend>>
      PROVE  Rows' /\ Known \subseteq Known' /\ pend' \cap Known \subseteq pend
  BY <1>0, SameRows
<1>1. ASSUME NEW t \in Threads, NEW r \in Rids, NEW c \in Clients, Request(t, r, c)
      PROVE  Rows' /\ Told'
  <2>1. CASE Open(t, r, c)
    <3>1. Reply(t, r, c, "OK")
      BY <2>1 DEF Open
    <3> QED
      BY <2>1, <3>1, OpenRows, ReplyTold
  <2>2. ASSUME NEW S \in SUBSET Lines, Close(t, r, c, S)
        PROVE  Rows' /\ Told'
    <3>1. \A p \in Rids : \/ wait'[p] = Op(c, "OK") \/ wait'[p] = wait[p]
                          \/ wait'[p] = [wait[p] EXCEPT !.res = "EPIPE"]
      BY <2>2, Zenon DEF Close
    <3>2. Rows' /\ Known \subseteq Known' /\ pend' \cap Known \subseteq pend
      BY <2>2, CloseRows
    <3> QED
      BY <3>1, <3>2, VerdictTold
  <2>3. ASSUME NEW Q \in SUBSET Lines, NEW H \in SUBSET Handles, Submit(t, r, c, Q, H)
        PROVE  Rows' /\ Told'
    <3>1. Reply(t, r, c, "OK")
      BY <2>3 DEF Submit
    <3> QED
      BY <2>3, <3>1, SubmitRows, ReplyTold
  <2>4. ASSUME NEW poll \in BOOLEAN, NEW f \in Known, FenceWait(t, r, c, f, poll)
        PROVE  Rows' /\ Told'
    <3>1. PICK w : w = [FreeWait EXCEPT !.client = c, !.kind = "FENCE", !.fences = {f}]
      OBVIOUS
    <3>2. Whole(w) /\ w.fences = {f}
      BY <3>1 DEF FreeWait, Whole
    <3>3. Park(t, r, w, poll) /\ gen' = gen
      BY <2>4, <3>1 DEF FenceWait, Raw
    <3> QED
      BY <3>2, <3>3, ParkTold
  <2>5. ASSUME NEW poll \in BOOLEAN, NEW F \in SUBSET Known, BoWait(t, r, c, F, poll)
        PROVE  Rows' /\ Told'
    <3>1. PICK w : w = [FreeWait EXCEPT !.client = c, !.kind = "BO", !.fences = F]
      OBVIOUS
    <3>2. Whole(w) /\ w.fences = F
      BY <3>1 DEF FreeWait, Whole
    <3>3. Park(t, r, w, poll) /\ gen' = gen
      BY <2>5, <3>1 DEF BoWait, Raw
    <3> QED
      BY <3>2, <3>3, ParkTold
  <2>6. ASSUME NEW poll \in BOOLEAN, NEW H \in SUBSET Handles, NEW all \in BOOLEAN, NEW fs \in BOOLEAN,
               SyncWait(t, r, c, H, all, fs, poll)
        PROVE  Rows' /\ Told'
    <3>1. PICK w : w = [FreeWait EXCEPT !.client = c, !.kind = "SYNC", !.handles = H, !.all = all,
                                        !.forSubmit = fs]
      OBVIOUS
    <3>2. Whole(w) /\ w.kind = "SYNC"
      BY <3>1 DEF FreeWait, Whole
    <3>3. Park(t, r, w, poll) /\ gen' = gen
      BY <2>6, <3>1 DEF SyncWait, Raw
    <3> QED
      BY <3>2, <3>3, ParkTold
  <2>7. CASE SyncOps(t, r, c)
    <3>1. ASSUME NEW h, NEW x, SetSync(t, r, c, h, x), Raw(t, r, c)
          PROVE  Rows' /\ Told'
      <4>1. Reply(t, r, c, "OK") /\ UNCHANGED <<gen, issued, completed, pend>>
        BY <3>1 DEF SetSync, Raw
      <4> QED
        BY <1>0, <4>1, ReplyTold
    <3> QED
      BY <2>7, <3>1 DEF SyncOps, SyncCreate, SyncDestroy, SyncSet
  <2>8. CASE Refuse(t, r, c)
    <3>1. Reply(t, r, c, "EINVAL") /\ UNCHANGED <<gen, issued, completed, pend>>
      BY <2>8 DEF Refuse, Raw
    <3> QED
      BY <1>0, <3>1, ReplyTold
  <2>9. CASE Quit(t, r, c)
    <3>1. \A p \in Rids : \/ wait'[p] = Op(c, "OK") \/ wait'[p] = wait[p]
                          \/ wait'[p] = [wait[p] EXCEPT !.res = "ENODEV"]
      BY <2>9, Zenon DEF Quit
    <3>2. UNCHANGED <<gen, issued, completed, pend>>
      BY <2>9 DEF Quit, rowVars
    <3> QED
      BY <1>0, <3>1, <3>2, VerdictTold
  <2> QED
    BY <1>1, <2>1, <2>2, <2>3, <2>4, <2>5, <2>6, <2>7, <2>8, <2>9 DEF Request, Waits
<1>2. ASSUME NEW t \in Answerers, Respond(t)
      PROVE  Rows' /\ Told'
  <2>1. PICK r : Sent(r) /\ (r \in ans[t] \/ (t # Event /\ r \in own[t]))
    BY <1>2 DEF Respond
  <2>2. r \in Rids
    BY <2>1 DEF HInv, Lists, Answerers
  <2>3. \A p \in Rids : wait'[p] = IF p = r THEN FreeWait ELSE wait[p]
    BY <2>1, <2>2 DEF HInv, Lists, Sent
  <2>4. UNCHANGED <<gen, issued, completed, pend>>
    BY <2>1 DEF Sent, rowVars
  <2>5. Whole(FreeWait) /\ FreeWait.kind = "none"
    BY DEF FreeWait, Whole
  <2>6. ASSUME NEW p \in Rids
        PROVE  Whole(wait'[p]) /\ Honest(wait[p])'
    BY <1>0, <2>3, <2>4, <2>5 DEF Told, Honest
  <2> QED
    BY <1>0, <2>4, <2>6 DEF Told
<1>3. ASSUME NEW D \in SUBSET Busy, NEW F, EventPass(D, F)
      PROVE  Rows' /\ Told'
  BY <1>3, EventRows, EventTold
<1>4. CASE UNCHANGED <<rowVars, listVars>>
  <2>1. UNCHANGED <<gen, issued, completed, pend, wait>>
    BY <1>4 DEF rowVars, listVars
  <2> QED
    BY <2>1 DEF Rows, Told, Honest, Known
<1>5. ASSUME NEW r \in Rids, Deadline(r)
      PROVE  UNCHANGED <<rowVars, listVars>>
  BY <1>5 DEF Deadline
<1>6. CASE Exit
  BY <1>4, <1>6 DEF Exit
<1>7. CASE UNCHANGED vars
  BY <1>4, <1>7 DEF vars
<1> QED
  BY <1>1, <1>2, <1>3, <1>4, <1>5, <1>6, <1>7 DEF Next, Answerers

\* A client that is told its fence is signalled, or its buffer idle, finds the
\* jobs finished, for any number of clients, queues, threads and requests.
THEOREM OkIsDone == Spec => []OkMeansDone
<1>1. Init => Rows
  BY WaitsAssumption DEF Init, Rows
<1>2. Init => Told
  BY DEF Init, FreeWait, Told, Whole, Honest
<1>3. Told => OkMeansDone
  BY DEF Told, Honest, OkMeansDone
<1> QED
  BY <1>1, <1>2, <1>3, InitHolds, NextHolds, NextTold, PTL DEF Spec
=============================================================================
