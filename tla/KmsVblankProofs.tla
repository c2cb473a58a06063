-------------------------- MODULE KmsVblankProofs --------------------------
(***************************************************************************)
(* Proofs, for every number of clients and every length of the queues, of  *)
(* the safety properties of the vblank thread and the event queues.        *)
(***************************************************************************)
EXTENDS KmsVblankProps, FiniteSetTheorems, TLAPS

-----------------------------------------------------------------------------
(* The kick                                                                *)

\* Already when the kick is given, before the condition is signalled.
KickSeen ==
  pend = "fence" /\ disp \in {"idle", "signal"} /\ at \in {"wait", "sleep"} => gate \/ kicked

\* Every step keeps it: the thread forgets the kick before it reads pend, and
\* commit() stores pend before it kicks.
LEMMA KickNext == KickSeen /\ [Next]_vars => KickSeen'
<1> SUFFICES ASSUME KickSeen, [Next]_vars
             PROVE  KickSeen'
  OBVIOUS
<1>1. CASE ThreadLooks
  BY <1>1 DEF ThreadLooks, Look, KickSeen, commits
<1>2. CASE Waiting \/ Paced \/ WaitOver
  BY <1>2 DEF Waiting, Paced, WaitOver, CondWait, CondTimeout, ReadHead, SetSeen, ReadFrames, WaitVars, commits, KickSeen
<1>3. CASE Pass \/ Post
  BY <1>3 DEF Pass, Post, KickSeen
<1>4. CASE \E c \in Clients : Open(c) \/ ReadEvents(c) \/ WaitVblank(c) \/ QueueEvent(c)
  BY <1>4 DEF Open, ReadEvents, WaitVblank, QueueEvent, RequestVars, thread, commits, KickSeen
<1>5. CASE \E c \in Clients : Close(c)
  BY <1>5 DEF Close, NoCommit, RequestVars, thread, commits, KickSeen
<1>6. CASE \E c \in Clients : Commit(c)
  BY <1>6 DEF Commit, KickSeen
<1>7. CASE CommitKick \/ CommitSignal
  BY <1>7 DEF CommitKick, CommitSignal, Woken, commits, KickSeen
<1>8. CASE Quit
  BY <1>8 DEF Quit, thread, commits, KickSeen
<1>9. CASE Outside
  BY <1>9 DEF Outside, Handler, Frame, SourceFails, Silence, FenceSignals, DeadlinePasses, Woken, thread, commits, KickSeen
<1>10. CASE UNCHANGED vars
  BY <1>10 DEF vars, thread, commits, KickSeen
<1> QED
  BY <1>1, <1>2, <1>3, <1>4, <1>5, <1>6, <1>7, <1>8, <1>9, <1>10 DEF Next, Thread, Request

\* A deferred commit is always noticed without waiting for the next vblank: at any
\* interleaving of the stores of commit() with the unlocked reads of the vblank
\* thread (kms_vblank_thread, gate_kick).
THEOREM KickNotLost == Spec => []GateNoticed
<1>1. Init => KickSeen
  BY DEF Init, KickSeen
<1>2. KickSeen => GateNoticed
  BY DEF KickSeen, GateNoticed
<1> QED
  BY <1>1, <1>2, KickNext, PTL DEF Spec

-----------------------------------------------------------------------------
(* The parked reads                                                        *)

\* The tables have an entry for each client.
Tables ==
  /\ used \subseteq Clients
  /\ evq \in [Clients -> Seq({"flip", "vbl"})]

ReadInv == Tables /\ NoReaderLeft

\* The queue after the events of a vblank is one.
LEMMA QueueType ==
  ASSUME Tables, NEW c \in Clients, NEW k
  PROVE  Queue(c, k) \in Seq({"flip", "vbl"})
<1>1. Push(evq[c], FlipEvent(c, k), "flip") \in Seq({"flip", "vbl"})
  BY DEF Push, Tables
<1> QED
  BY <1>1 DEF Queue, Push

\* What a read leaves and takes are queues.
LEMMA RestType ==
  ASSUME NEW q \in Seq({"flip", "vbl"})
  PROVE  /\ Fill(q) \in 0 .. Len(q)
         /\ Rest(q) \in Seq({"flip", "vbl"})
         /\ Taken(q) \in Seq({"flip", "vbl"})
<1>1. Fill(q) \in 0 .. Len(q)
  BY VblankAssumption DEF VblankAssumption, Fill
<1> QED
  BY <1>1 DEF Rest, Taken

\* A pass serves every parked read whose queue has got an event.
LEMMA ReadPass ==
  ASSUME ReadInv, Pass
  PROVE  ReadInv'
<1>1. Tables'
  <2>1. \A c \in Clients : Rest(Queue(c, n)) \in Seq({"flip", "vbl"}) /\ Queue(c, n) \in Seq({"flip", "vbl"})
    BY QueueType, RestType DEF ReadInv
  <2> QED
    BY <2>1 DEF Pass, ReadInv, Tables
<1>2. ASSUME NEW c \in read'
      PROVE  c \in used' /\ evq'[c] = <<>>
  <2>1. c \in read /\ c \notin Served(n) /\ c \in used /\ c \in Clients /\ evq[c] = <<>>
    BY <1>2 DEF Pass, ReadInv, NoReaderLeft, Tables
  <2>2. Queue(c, n) = <<>>
    <3>1. CASE n > 0
      BY <2>1, <3>1 DEF Served, Ready
    <3>2. CASE ~(n > 0)
      BY <2>1, <3>2 DEF Queue, Push, FlipEvent, VblEvent, Completing
    <3> QED
      BY <3>1, <3>2
  <2> QED
    BY <2>1, <2>2 DEF Pass
<1> QED
  BY <1>1, <1>2 DEF ReadInv, NoReaderLeft

\* Every step keeps the invariant of the parked reads.
LEMMA ReadNext == ReadInv /\ [Next]_vars => ReadInv'
<1> SUFFICES ASSUME ReadInv, [Next]_vars
             PROVE  ReadInv'
  OBVIOUS
<1> USE DEF ReadInv, Tables, NoReaderLeft
<1>1. CASE ThreadLooks \/ Waiting \/ Paced \/ WaitOver
  BY <1>1 DEF ThreadLooks, Waiting, Paced, WaitOver, CondWait, CondTimeout, ReadHead, SetSeen, ReadFrames, WaitVars, tables
<1>2. CASE Pass
  BY <1>2, ReadPass
<1>3. CASE Post
  BY <1>3 DEF Post, tables
<1>4. ASSUME NEW c \in Clients, Open(c)
      PROVE  ReadInv'
  BY <1>4 DEF Open, Cleared
<1>5. ASSUME NEW c \in Clients, Close(c)
      PROVE  ReadInv'
  BY <1>5 DEF Close
<1>6. ASSUME NEW c \in Clients, ReadEvents(c)
      PROVE  ReadInv'
  <2>1. Rest(evq[c]) \in Seq({"flip", "vbl"})
    BY RestType
  <2> QED
    BY <1>6, <2>1 DEF ReadEvents, Handles
<1>7. CASE \E c \in Clients : Commit(c) \/ WaitVblank(c) \/ QueueEvent(c)
  BY <1>7 DEF Commit, WaitVblank, QueueEvent
<1>8. CASE CommitKick \/ CommitSignal
  BY <1>8 DEF CommitKick, CommitSignal, tables
<1>9. CASE Quit
  BY <1>9 DEF Quit
<1>10. CASE Outside
  BY <1>10 DEF Outside, Handler, Frame, SourceFails, Silence, FenceSignals, DeadlinePasses, tables
<1>11. CASE UNCHANGED vars
  BY <1>11 DEF vars, tables
<1> QED
  BY <1>1, <1>2, <1>3, <1>4, <1>5, <1>6, <1>7, <1>8, <1>9, <1>10, <1>11 DEF Next, Thread, Request

\* No read stays parked on a queue that holds an event, whatever the order of
\* commits, vblanks, closes and reads (serve_reads, kms_on_vblank).
THEOREM ReadersServed == Spec => []NoReaderLeft
<1>1. Init => ReadInv
  BY DEF Init, ReadInv, Tables, NoReaderLeft
<1>2. ReadInv => NoReaderLeft
  BY DEF ReadInv
<1> QED
  BY <1>1, <1>2, ReadNext, PTL DEF Spec

-----------------------------------------------------------------------------
(* The events of the flips                                                 *)

\* The number of flip events in a queue is one.
LEMMA FlipsType ==
  ASSUME NEW q \in Seq({"flip", "vbl"})
  PROVE  IsFiniteSet({i \in DOMAIN q : q[i] = "flip"}) /\ Flips(q) \in Nat
<1>1. DOMAIN q = 1 .. Len(q) /\ Len(q) \in Nat
  OBVIOUS
<1>2. IsFiniteSet(1 .. Len(q))
  BY <1>1, FS_Interval
<1>3. {i \in DOMAIN q : q[i] = "flip"} \in SUBSET (1 .. Len(q))
  BY <1>1
<1>4. IsFiniteSet({i \in DOMAIN q : q[i] = "flip"})
  BY <1>2, <1>3, FS_Subset
<1> QED
  BY <1>4, FS_CardinalityType DEF Flips

\* An event at the end of a queue counts if it is a flip's.
LEMMA FlipsAppend ==
  ASSUME NEW q \in Seq({"flip", "vbl"}), NEW e \in {"flip", "vbl"}
  PROVE  Flips(Append(q, e)) = Flips(q) + (IF e = "flip" THEN 1 ELSE 0)
<1> DEFINE S == {i \in DOMAIN q : q[i] = "flip"}
           x == Len(q) + 1
           T == {i \in DOMAIN Append(q, e) : Append(q, e)[i] = "flip"}
<1>1. IsFiniteSet(S) /\ Flips(q) \in Nat
  BY FlipsType
<1>2. CASE e = "flip"
  <2>1. T = S \cup {x} /\ x \notin S
    BY <1>2
  <2>2. Cardinality(S \cup {x}) = Cardinality(S) + 1
    BY <1>1, <2>1, FS_AddElement
  <2> QED
    BY <1>2, <2>1, <2>2 DEF Flips
<1>3. CASE e = "vbl"
  <2>1. T = S
    BY <1>3
  <2>2. Cardinality(S) \in Nat /\ Flips(q) = Cardinality(S) /\ Flips(Append(q, e)) = Cardinality(T)
    BY <1>1, FS_CardinalityType DEF Flips
  <2> HIDE DEF S, T
  <2> QED
    BY <1>3, <2>1, <2>2
<1> QED
  BY <1>2, <1>3

\* What a read takes and what it leaves are the whole queue.
LEMMA FlipsSplit ==
  ASSUME NEW q \in Seq({"flip", "vbl"})
  PROVE  Flips(q) = Flips(Taken(q)) + Flips(Rest(q))
<1> DEFINE k == Fill(q)
           A == {i \in DOMAIN Taken(q) : Taken(q)[i] = "flip"}
           B == {i \in DOMAIN Rest(q) : Rest(q)[i] = "flip"}
           C == {i \in DOMAIN q : q[i] = "flip"}
           D == {i \in C : i > k}
           f == [i \in B |-> i + k]
<1>1. k \in 0 .. Len(q) /\ Taken(q) \in Seq({"flip", "vbl"}) /\ Rest(q) \in Seq({"flip", "vbl"})
  BY RestType
<1>2. IsFiniteSet(A) /\ IsFiniteSet(B) /\ IsFiniteSet(C)
  BY <1>1, FlipsType
<1>3. A = {i \in C : i <= k}
  BY <1>1 DEF Taken
<1>4. \A i \in Nat : i \in B <=> i >= 1 /\ i + k \in D
  <2>1. Len(Rest(q)) = Len(q) - k /\ \A i \in 1 .. Len(q) - k : Rest(q)[i] = q[i + k]
    BY <1>1 DEF Rest
  <2>2. DOMAIN Rest(q) = 1 .. Len(q) - k /\ DOMAIN q = 1 .. Len(q)
    BY <1>1, <2>1
  <2> HIDE DEF k
  <2> QED
    BY <1>1, <2>1, <2>2
<1>5. B \subseteq Nat /\ D \subseteq Nat
  BY <1>1
<1>6. f \in Bijection(B, D)
  <2>1. f \in [B -> D]
    BY <1>1, <1>4, <1>5
  <2>2. \A a, b \in B : f[a] = f[b] => a = b
    BY <1>1, <1>5
  <2>3. \A d \in D : \E b \in B : f[b] = d
    <3> SUFFICES ASSUME NEW d \in D PROVE \E b \in B : f[b] = d
      OBVIOUS
    <3>1. d - k \in Nat /\ d - k >= 1 /\ (d - k) + k = d
      BY <1>1, <1>5
    <3>2. d - k \in B
      BY <1>4, <3>1
    <3> QED
      BY <3>1, <3>2
  <2> QED
    BY <2>1, <2>2, <2>3 DEF Bijection, Injection, Surjection, IsInjective
<1>7. Cardinality(B) = Cardinality(D) /\ IsFiniteSet(D)
  BY <1>2, <1>6, FS_Bijection DEF ExistsBijection
<1>8. Cardinality(C) = Cardinality(A) + Cardinality(D)
  <2>1. C = A \cup D /\ A \cap D = {}
    BY <1>1, <1>3
  <2>2. Cardinality(A \cup D) = Cardinality(A) + Cardinality(D) - Cardinality(A \cap D)
    BY <1>2, <1>7, FS_Union
  <2>3. Cardinality({}) = 0 /\ Cardinality(A) \in Nat /\ Cardinality(D) \in Nat
    BY <1>2, <1>7, FS_EmptySet, FS_CardinalityType
  <2> HIDE DEF A, C, D
  <2>4. Cardinality(A \cap D) = 0
    BY <2>1, <2>3, Zenon
  <2>5. Cardinality(C) = Cardinality(A \cup D)
    BY <2>1, Zenon
  <2> QED
    BY <2>2, <2>3, <2>4, <2>5
<1> QED
  BY <1>7, <1>8 DEF Flips

\* What is promised and not in a queue yet: the pending commit's event.
Promised(c) == IF pend # "none" /\ pclient = c /\ pevent THEN 1 ELSE 0

\* The owner of the pending commit is a client.
FlipInv ==
  /\ Tables
  /\ owed \in [Clients -> Int]
  /\ pend # "none" => pclient \in used
  /\ OneEventPerFlip

\* With the events of a pass in it, a queue has the flip's, unless it was full.
LEMMA FlipsQueue ==
  ASSUME Tables, NEW c \in Clients, NEW k
  PROVE  /\ Flips(Queue(c, k)) \in Nat
         /\ Flips(Queue(c, k)) =
              Flips(evq[c]) + (IF FlipEvent(c, k) /\ ~(Len(evq[c]) >= EvqLen) THEN 1 ELSE 0)
<1> DEFINE q == Push(evq[c], FlipEvent(c, k), "flip")
<1>1. evq[c] \in Seq({"flip", "vbl"}) /\ q \in Seq({"flip", "vbl"})
  BY DEF Tables, Push
<1>2. Flips(q) = Flips(evq[c]) + (IF FlipEvent(c, k) /\ ~(Len(evq[c]) >= EvqLen) THEN 1 ELSE 0)
  <2>1. CASE FlipEvent(c, k) /\ ~(Len(evq[c]) >= EvqLen)
    <3>1. q = Append(evq[c], "flip")
      BY <2>1 DEF Push
    <3> QED
      BY <1>1, <2>1, <3>1, FlipsAppend
  <2>2. CASE ~(FlipEvent(c, k) /\ ~(Len(evq[c]) >= EvqLen))
    <3>1. q = evq[c]
      BY <2>2 DEF Push
    <3>2. Flips(evq[c]) \in Nat
      BY <1>1, FlipsType
    <3> HIDE DEF q
    <3> QED
      BY <2>2, <3>1, <3>2
  <2> QED
    BY <2>1, <2>2
<1>3. Flips(q) \in Nat
  BY <1>1, FlipsType
<1> HIDE DEF q
<1>4. Flips(Push(q, VblEvent(c, k), "vbl")) = Flips(q)
  <2>1. Flips(Append(q, "vbl")) = Flips(q)
    BY <1>1, <1>3, FlipsAppend
  <2> QED
    BY <2>1 DEF Push
<1>5. Queue(c, k) = Push(q, VblEvent(c, k), "vbl")
  BY DEF Queue, q
<1> QED
  BY <1>2, <1>3, <1>4, <1>5

\* A pass moves the event of the commit it completes into its client's queue and
\* hands the events of the served reads over.
LEMMA FlipPass ==
  ASSUME FlipInv, Pass
  PROVE  FlipInv'
<1>1. Tables'
  <2>1. \A c \in Clients : Rest(Queue(c, n)) \in Seq({"flip", "vbl"}) /\ Queue(c, n) \in Seq({"flip", "vbl"})
    BY QueueType, RestType DEF FlipInv
  <2> QED
    BY <2>1 DEF Pass, FlipInv, Tables
<1> DEFINE gone(c) == IF c \in Served(n) THEN Flips(Taken(Queue(c, n))) ELSE 0
           full(c) == IF FlipEvent(c, n) /\ Len(evq[c]) >= EvqLen THEN 1 ELSE 0
<1>2. \A c \in Clients : gone(c) \in Nat /\ full(c) \in Nat
  BY QueueType, RestType, FlipsType DEF FlipInv
<1>3. owed' = [c \in Clients |-> owed[c] - gone(c) - full(c)]
  BY DEF Pass
<1>4. owed' \in [Clients -> Int]
  <2> HIDE DEF gone, full
  <2> QED
    BY <1>2, <1>3 DEF FlipInv
<1>5. /\ used' = used
      /\ IF Completing(n) THEN pend' = "none"
         ELSE (pend' # "none" <=> pend # "none") /\ pclient' = pclient /\ pevent' = pevent
  BY DEF Pass, NoCommit, TryApply
<1>6. pend' # "none" => pclient' \in used'
  BY <1>5 DEF FlipInv
<1>7. ASSUME NEW c \in used'
      PROVE  owed'[c] = Flips(evq'[c]) + Promised(c)'
  <2>1. c \in Clients /\ owed[c] \in Int /\ owed[c] = Flips(evq[c]) + Promised(c)
    BY <1>5, <1>7 DEF FlipInv, Tables, OneEventPerFlip, Promised
  <2>2. /\ Flips(evq[c]) \in Nat /\ Flips(Queue(c, n)) \in Nat
        /\ Flips(Queue(c, n)) = Flips(evq[c]) + (IF FlipEvent(c, n) /\ ~(Len(evq[c]) >= EvqLen) THEN 1 ELSE 0)
    BY <2>1, FlipsQueue, FlipsType DEF FlipInv, Tables
  <2>3. Promised(c) = Promised(c)' + (IF FlipEvent(c, n) THEN 1 ELSE 0)
    BY <1>5 DEF Promised, FlipEvent, Completing
  <2>4. owed[c] - full(c) = Flips(Queue(c, n)) + Promised(c)'
    <3>1. Promised(c)' \in Nat
      BY DEF Promised
    <3> HIDE DEF gone
    <3> QED
      BY <2>1, <2>2, <2>3, <3>1
  <2>5. Flips(Queue(c, n)) = gone(c) + Flips(evq'[c])
    <3>1. CASE c \in Served(n)
      <4>1. evq'[c] = Rest(Queue(c, n))
        BY <2>1, <3>1 DEF Pass
      <4> QED
        BY <2>1, <3>1, <4>1, QueueType, FlipsSplit DEF FlipInv
    <3>2. CASE c \notin Served(n)
      <4>1. evq'[c] = Queue(c, n)
        BY <2>1, <3>2 DEF Pass
      <4> QED
        BY <2>2, <3>2, <4>1
    <3> QED
      BY <3>1, <3>2
  <2>6. owed'[c] = owed[c] - gone(c) - full(c)
    BY <1>3, <2>1
  <2>7. /\ Flips(evq'[c]) \in Nat /\ gone(c) \in Nat /\ full(c) \in Nat
        /\ Promised(c)' \in Nat
    BY <1>1, <1>2, <2>1, FlipsType DEF Tables, Promised
  <2> HIDE DEF gone, full
  <2> QED
    BY <2>1, <2>2, <2>4, <2>5, <2>6, <2>7
<1> QED
  BY <1>1, <1>4, <1>6, <1>7 DEF FlipInv, OneEventPerFlip, Promised

\* Initially nothing is promised and every queue is empty.
LEMMA FlipInit == Init => FlipInv
<1> SUFFICES ASSUME Init PROVE FlipInv
  OBVIOUS
<1>1. Tables
  BY DEF Init, Tables
<1> QED
  BY <1>1 DEF Init, FlipInv, OneEventPerFlip

\* A step that leaves queues, clients and what is promised alone keeps the count;
\* a commit, a read, an open and a close move both sides of it alike.
LEMMA FlipNext == FlipInv /\ [Next]_vars => FlipInv'
<1> SUFFICES ASSUME FlipInv, [Next]_vars PROVE FlipInv'
  OBVIOUS
<1> USE DEF FlipInv, OneEventPerFlip
<1>1. ASSUME UNCHANGED <<used, evq, vblev, read, wait, owed, pclient, pevent>>,
             pend' # "none" <=> pend # "none"
      PROVE  FlipInv'
  BY <1>1 DEF Tables
<1>2. CASE UNCHANGED vars
  BY <1>1, <1>2 DEF vars, tables, commits
<1>3. ASSUME NEW c \in Clients, Open(c)
      PROVE  FlipInv'
  <2>1. Flips(<<>>) = 0
    <3>1. {i \in DOMAIN <<>> : <<>>[i] = "flip"} = {}
      OBVIOUS
    <3> QED
      BY <3>1, FS_EmptySet DEF Flips
  <2>2. Tables' /\ owed' \in [Clients -> Int] /\ (pend' # "none" => pclient' \in used')
    BY <1>3 DEF Open, Cleared, Tables, commits
  <2>3. ASSUME NEW d \in used'
        PROVE  owed'[d] = Flips(evq'[d]) + Promised(d)'
    <3>1. CASE d = c
      <4>1. owed'[c] = 0 /\ evq'[c] = <<>> /\ Promised(c)' = 0
        BY <1>3 DEF Open, Cleared, Tables, commits, Promised
      <4> QED
        BY <2>1, <3>1, <4>1
    <3>2. CASE d # c
      BY <1>3, <2>3, <3>2 DEF Open, Cleared, Tables, commits, Promised
    <3> QED
      BY <3>1, <3>2
  <2> QED
    BY <2>2, <2>3 DEF Promised
<1>4. ASSUME NEW c \in Clients, Close(c)
      PROVE  FlipInv'
  BY <1>4 DEF Close, Handles, NoCommit, Tables, commits
<1>5. ASSUME NEW c \in Clients, Commit(c)
      PROVE  FlipInv'
  <2>1. Tables' /\ owed' \in [Clients -> Int] /\ (pend' # "none" => pclient' \in used')
    BY <1>5 DEF Commit, Handles, Tables
  <2>2. ASSUME NEW d \in used'
        PROVE  owed'[d] = Flips(evq'[d]) + Promised(d)'
    <3>1. /\ d \in Clients /\ owed[d] = Flips(evq[d]) + 0 /\ evq' = evq
          /\ Flips(evq[d]) \in Nat
      BY <1>5, <2>2, FlipsType DEF Commit, Handles, Tables
    <3>2. owed'[d] = owed[d] + Promised(d)'
      <4>1. pclient' = c /\ pend' # "none"
        BY <1>5 DEF Commit
      <4>2. owed' = [owed EXCEPT ![c] = @ + (IF pevent' THEN 1 ELSE 0)]
        BY <1>5 DEF Commit
      <4> QED
        BY <3>1, <4>1, <4>2 DEF Promised
    <3> QED
      BY <3>1, <3>2 DEF Promised
  <2> QED
    BY <2>1, <2>2 DEF Promised
<1>6. ASSUME NEW c \in Clients, ReadEvents(c)
      PROVE  FlipInv'
  <2> DEFINE q == evq[c]
  <2>1. /\ q \in Seq({"flip", "vbl"}) /\ Rest(q) \in Seq({"flip", "vbl"})
        /\ Flips(q) \in Nat /\ Flips(Taken(q)) \in Nat /\ Flips(Rest(q)) \in Nat
        /\ Flips(q) = Flips(Taken(q)) + Flips(Rest(q))
    BY RestType, FlipsType, FlipsSplit DEF Tables
  <2>2. \/ UNCHANGED <<evq, owed>>
        \/ /\ evq' = [evq EXCEPT ![c] = Rest(q)]
           /\ owed' = [owed EXCEPT ![c] = @ - Flips(Taken(q))]
    BY <1>6 DEF ReadEvents
  <2>3. UNCHANGED <<used, commits>> /\ c \in used
    BY <1>6 DEF ReadEvents, Handles
  <2>4. Tables' /\ owed' \in [Clients -> Int] /\ (pend' # "none" => pclient' \in used')
    <3> HIDE DEF q
    <3>1. Tables'
      BY <2>1, <2>2, <2>3 DEF Tables
    <3>2. owed' \in [Clients -> Int]
      <4>1. owed[c] - Flips(Taken(q)) \in Int
        BY <2>1
      <4> QED
        BY <2>2, <4>1
    <3> QED
      BY <2>3, <3>1, <3>2 DEF commits
  <2>5. ASSUME NEW d \in used'
        PROVE  owed'[d] = Flips(evq'[d]) + Promised(d)'
    <3>1. Promised(d)' = Promised(d) /\ Promised(d) \in Nat /\ d \in Clients /\ owed[d] = Flips(evq[d]) + Promised(d)
      BY <2>3, <2>5 DEF Promised, commits, Tables
    <3>2. CASE UNCHANGED <<evq, owed>>
      BY <3>1, <3>2
    <3>3. CASE d # c
      BY <2>2, <3>1, <3>3 DEF Tables
    <3>4. CASE d = c /\ ~UNCHANGED <<evq, owed>>
      <4>1. evq'[c] = Rest(q) /\ owed'[c] = owed[c] - Flips(Taken(q)) /\ owed[c] = Flips(q) + Promised(d)
        BY <2>2, <3>1, <3>4 DEF Tables
      <4> HIDE DEF q
      <4> QED
        BY <2>1, <3>1, <3>4, <4>1
    <3> QED
      BY <3>2, <3>3, <3>4
  <2> QED
    BY <2>4, <2>5 DEF Promised
<1>7. ASSUME NEW c \in Clients, WaitVblank(c) \/ QueueEvent(c)
      PROVE  FlipInv'
  BY <1>7 DEF WaitVblank, QueueEvent, Handles, Tables, commits
<1>8. CASE Quit
  BY <1>8 DEF Quit, Tables, commits
<1>9. CASE CommitKick \/ CommitSignal
  BY <1>1, <1>9 DEF CommitKick, CommitSignal, tables, commits
<1>10. CASE ThreadLooks \/ Waiting \/ Paced \/ WaitOver \/ Post
  BY <1>1, <1>10 DEF ThreadLooks, Waiting, Paced, WaitOver, Post, CondWait, CondTimeout, ReadHead,
                     SetSeen, ReadFrames, WaitVars, tables, commits
<1>11. CASE Pass
  BY <1>11, FlipPass
<1>12. CASE Outside
  BY <1>1, <1>12 DEF Outside, Handler, Frame, SourceFails, Silence, FenceSignals, DeadlinePasses,
                     tables, commits
<1> QED
  BY <1>2, <1>3, <1>4, <1>5, <1>6, <1>7, <1>8, <1>9, <1>10, <1>11, <1>12
     DEF Next, Thread, Request

\* Every flip that asked for an event is pending or has that one event in the
\* queue of the client that asked, whatever slots change hands and however many
\* clients, parked requests and queue entries there are (complete, ev_push,
\* client_close, client_open).
THEOREM FlipEventsExact == Spec => []OneEventPerFlip
<1>1. FlipInv => OneEventPerFlip
  BY DEF FlipInv
<1> QED
  BY <1>1, FlipInit, FlipNext, PTL DEF Spec
=============================================================================
