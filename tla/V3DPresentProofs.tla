-------------------------- MODULE V3DPresentProofs --------------------------
(***************************************************************************)
(* Proofs, for every number of clients, frames, buffers and queue places,  *)
(* that frames are shown rendered, in order, and without tearing.          *)
(***************************************************************************)
EXTENDS V3DPresent, WellFoundedInduction, SequenceTheorems, TLAPS

-----------------------------------------------------------------------------
(* The shape of the queue and of the pans                                  *)

\* The types, without the bound on the queue's length.
Shape ==
  /\ issued \in [Clients -> Nat]
  /\ completed \in [Clients -> Nat]
  /\ pc \in [Clients -> {"draw", "flip", "wait", "again"}]
  /\ queue \in Seq([c : Clients, n : Nat, gated : BOOLEAN])
  /\ pans \in Seq(Clients \X Nat)

\* A frame is rendered after it was issued; a client that flips again has
\* waited for its render.
Rendering ==
  \A c \in Clients : /\ completed[c] <= issued[c]
                     /\ pc[c] = "again" => completed[c] >= issued[c]

\* What is shown is rendered, and what is queued without a gate.
Gated ==
  /\ \A i \in 1 .. Len(pans) : completed[pans[i][1]] >= pans[i][2]
  /\ \A i \in 1 .. Len(queue) : ~ queue[i].gated => completed[queue[i].c] >= queue[i].n

\* Where frame n of client c may be: before the one the client is flipping.
Behind(iss, at, c, n) == n <= iss[c] /\ (at[c] # "draw" => n < iss[c])

\* The frames of a client are in order, through the pans and then the queue.
Ordered ==
  /\ \A i \in 1 .. Len(pans) : Behind(issued, pc, pans[i][1], pans[i][2])
  /\ \A i \in 1 .. Len(queue) : Behind(issued, pc, queue[i].c, queue[i].n)
  /\ \A i, k \in 1 .. Len(pans) : i < k /\ pans[i][1] = pans[k][1] => pans[i][2] < pans[k][2]
  /\ \A i, k \in 1 .. Len(queue) : i < k /\ queue[i].c = queue[k].c => queue[i].n < queue[k].n
  /\ \A i \in 1 .. Len(pans), k \in 1 .. Len(queue) :
       pans[i][1] = queue[k].c => pans[i][2] < queue[k].n

\* Unless a flip was refused for good, every frame but the one being flipped is
\* shown or queued.
Flipped(c, n) ==
  \/ \E i \in 1 .. Len(pans) : pans[i] = <<c, n>>
  \/ \E i \in 1 .. Len(queue) : queue[i].c = c /\ queue[i].n = n

Complete ==
  dropped = {} => \A c \in Clients, n \in Nat : n > 0 /\ Behind(issued, pc, c, n) => Flipped(c, n)

\* The inductive invariant.
PresentInv == Shape /\ Rendering /\ Gated /\ Ordered /\ Complete

-----------------------------------------------------------------------------
(* How many flips are shown                                                *)

\* A nonempty set of naturals has a least element.
LEMMA LeastNat ==
  ASSUME NEW S \in SUBSET Nat, S # {}
  PROVE  \E i \in S : \A k \in S : i <= k
<1> DEFINE R == OpToRel(<, Nat)
<1>1. IsWellFoundedOn(R, Nat)
  BY NatLessThanWellFounded
<1>2. \A x, y \in Nat : x < y => <<x, y>> \in R
  BY DEF OpToRel
<1> HIDE DEF R
<1>3. PICK i \in S : \A k \in S : ~(<<k, i>> \in R)
  BY Zenon, <1>1, WFMin
<1>4. ASSUME NEW k \in S
      PROVE  i <= k
  <2>1. ~(k < i)
    BY <1>2, <1>3
  <2> QED
    BY <2>1
<1> QED
  BY <1>4

\* The head of the queue that has passed: at most all of it, and passed.
LEMMA RunnableFacts ==
  ASSUME Shape, NEW comp
  PROVE  /\ Runnable(comp) \in 0 .. Len(queue)
         /\ \A i \in 1 .. Runnable(comp) : Passed(queue[i], comp)
<1> DEFINE blocked == {i \in 1 .. Len(queue) : ~Passed(queue[i], comp)}
           first == CHOOSE i \in blocked : \A k \in blocked : i <= k
<1>1. Len(queue) \in Nat
  BY DEF Shape
<1>2. CASE blocked = {}
  <2>1. Runnable(comp) = Len(queue)
    BY <1>2 DEF Runnable
  <2>2. \A i \in 1 .. Len(queue) : Passed(queue[i], comp)
    BY <1>2
  <2> QED
    BY <1>1, <2>1, <2>2
<1>3. CASE blocked # {}
  <2>1. Runnable(comp) = first - 1
    BY <1>3 DEF Runnable
  <2>2. blocked \in SUBSET Nat /\ blocked \subseteq 1 .. Len(queue)
    BY <1>1
  <2>3. \A i \in 1 .. Len(queue) : i \notin blocked => Passed(queue[i], comp)
    OBVIOUS
  <2> HIDE DEF blocked
  <2>4. first \in blocked /\ \A k \in blocked : first <= k
    BY <1>3, <2>2, LeastNat
  <2> HIDE DEF first
  <2>5. first \in 1 .. Len(queue)
    BY <2>2, <2>4
  <2>6. \A i \in 1 .. first - 1 : i \in 1 .. Len(queue) /\ i \notin blocked
    BY <1>1, <2>2, <2>4, <2>5
  <2> QED
    BY <1>1, <2>1, <2>3, <2>5, <2>6
<1> QED
  BY <1>2, <1>3

\* Two frames that share a buffer are not neighbours.
LEMMA NextBuffer ==
  ASSUME NEW x \in Nat, NBuf > 1
  PROVE  (x + 1) % NBuf # x % NBuf
<1>0. NBuf \in Nat \ {0}
  BY PresentAssumption
<1> DEFINE q == x \div NBuf
           p == (x + 1) \div NBuf
<1>1. /\ q \in Int /\ p \in Int
      /\ x = NBuf * q + (x % NBuf)
      /\ x + 1 = NBuf * p + ((x + 1) % NBuf)
      /\ x % NBuf \in Int /\ (x + 1) % NBuf \in Int
  BY <1>0
<1> HIDE DEF q, p
<1>2. SUFFICES ASSUME (x + 1) % NBuf = x % NBuf
               PROVE  FALSE
  OBVIOUS
<1>3. NBuf * p = NBuf * q + 1
  BY <1>0, <1>1, <1>2
<1>4. CASE p <= q
  <2>1. NBuf * p <= NBuf * q
    BY <1>0, <1>1, <1>4
  <2> QED
    BY <2>1, <1>0, <1>1, <1>3
<1>5. CASE p >= q + 1
  <2>1. NBuf * p >= NBuf * (q + 1)
    BY <1>0, <1>1, <1>5
  <2>2. NBuf * (q + 1) = NBuf * q + NBuf
    BY <1>0, <1>1
  <2> QED
    BY <2>1, <2>2, <1>0, <1>1, <1>3
<1> QED
  BY <1>1, <1>4, <1>5

-----------------------------------------------------------------------------
(* The steps                                                               *)

\* What the types say of each client, flip and pan.
LEMMA Typed ==
  ASSUME Shape
  PROVE  /\ Len(queue) \in Nat /\ Len(pans) \in Nat
         /\ \A c \in Clients : issued[c] \in Nat /\ completed[c] \in Nat
         /\ \A i \in 1 .. Len(queue) :
              queue[i].c \in Clients /\ queue[i].n \in Nat /\ queue[i].gated \in BOOLEAN
         /\ \A i \in 1 .. Len(pans) : pans[i][1] \in Clients /\ pans[i][2] \in Nat
<1>1. \A i \in 1 .. Len(queue) : queue[i] \in [c : Clients, n : Nat, gated : BOOLEAN]
  <2> DEFINE S == [c : Clients, n : Nat, gated : BOOLEAN]
  <2>1. queue \in Seq(S)
    BY DEF Shape
  <2> HIDE DEF S
  <2>2. \A i \in 1 .. Len(queue) : queue[i] \in S
    BY <2>1, ElementOfSeq
  <2> QED
    BY <2>2 DEF S
<1>2. \A i \in 1 .. Len(pans) : pans[i] \in Clients \X Nat
  <2> DEFINE S == Clients \X Nat
  <2>1. pans \in Seq(S)
    BY DEF Shape
  <2> HIDE DEF S
  <2>2. \A i \in 1 .. Len(pans) : pans[i] \in S
    BY <2>1, ElementOfSeq
  <2> QED
    BY <2>2 DEF S
<1>3. \A c \in Clients : issued[c] \in Nat /\ completed[c] \in Nat
  BY DEF Shape
<1>4. Len(queue) \in Nat /\ Len(pans) \in Nat
  BY DEF Shape
<1> QED
  BY <1>1, <1>2, <1>3, <1>4

\* A step that leaves the queue and the pans alone keeps what is said of them
\* when renders only complete and frames only fall behind.
LEMMA SameQueue ==
  ASSUME PresentInv, UNCHANGED <<queue, pans>>, Shape', dropped' = {} => dropped = {},
         \A c \in Clients : completed'[c] >= completed[c],
         \A c \in Clients, n \in Nat : Behind(issued, pc, c, n) => Behind(issued', pc', c, n),
         dropped' = {} => \A c \in Clients, n \in Nat : Behind(issued', pc', c, n) => Behind(issued, pc, c, n)
  PROVE  Gated' /\ Ordered' /\ Complete'
<1>1. Shape /\ Gated /\ Ordered /\ Complete
  BY DEF PresentInv
<1>2. queue' = queue /\ pans' = pans
  OBVIOUS
<1>3. \A c \in Clients : completed[c] \in Nat /\ completed'[c] \in Nat
  BY <1>1 DEF Shape
<1>4. \A i \in 1 .. Len(queue) :
         queue[i].c \in Clients /\ queue[i].n \in Nat /\ queue[i].gated \in BOOLEAN
  BY <1>1, Typed
<1>5. \A i \in 1 .. Len(pans) : pans[i][1] \in Clients /\ pans[i][2] \in Nat
  BY <1>1, Typed
<1>6. Gated'
  <2>1. ASSUME NEW i \in 1 .. Len(pans)
        PROVE  completed'[pans[i][1]] >= pans[i][2]
    <3>1. completed[pans[i][1]] >= pans[i][2]
      BY <1>1 DEF Gated
    <3> QED
      BY <1>3, <1>5, <3>1
  <2>2. ASSUME NEW i \in 1 .. Len(queue), ~queue[i].gated
        PROVE  completed'[queue[i].c] >= queue[i].n
    <3>1. completed[queue[i].c] >= queue[i].n
      BY <1>1, <2>2 DEF Gated
    <3> QED
      BY <1>3, <1>4, <3>1
  <2> QED
    BY <1>2, <2>1, <2>2 DEF Gated
<1>7. Ordered'
  <2>1. \A i \in 1 .. Len(pans) : Behind(issued', pc', pans[i][1], pans[i][2])
    BY <1>1, <1>5 DEF Ordered
  <2>2. \A i \in 1 .. Len(queue) : Behind(issued', pc', queue[i].c, queue[i].n)
    BY <1>1, <1>4 DEF Ordered
  <2> QED
    BY <1>1, <1>2, <2>1, <2>2 DEF Ordered
<1>8. Complete'
  <2> SUFFICES ASSUME dropped' = {}, NEW c \in Clients, NEW n \in Nat, n > 0, Behind(issued', pc', c, n)
               PROVE  Flipped(c, n)'
    BY DEF Complete
  <2>1. dropped = {} /\ Behind(issued, pc, c, n)
    OBVIOUS
  <2>2. Flipped(c, n)
    BY <1>1, <2>1 DEF Complete
  <2> QED
    BY <1>2, <2>2 DEF Flipped
<1> QED
  BY <1>6, <1>7, <1>8

\* The flip a client asks for: of the frame it has last issued, gated or after
\* its render.
Request(f) ==
  /\ f \in [c : Clients, n : Nat, gated : BOOLEAN]
  /\ f.n = issued[f.c] /\ pc[f.c] # "draw"
  /\ ~f.gated => completed[f.c] >= f.n

\* A flip, shown, refused or queued, keeps the invariant.
LEMMA FlipKeeps ==
  ASSUME PresentInv, NEW f, Request(f), NEW ok, NEW busy,
         ok = "draw", busy \in {"draw", "wait"},
         FlipRequest(f, ok, busy), UNCHANGED <<issued, completed>>
  PROVE  PresentInv'
<1> USE DEF PresentInv
<1>1. /\ f.c \in Clients /\ f.n \in Nat /\ f.gated \in BOOLEAN
      /\ issued[f.c] \in Nat
      /\ Len(queue) \in Nat /\ Len(pans) \in Nat
  BY DEF Request, Shape
<1>0. /\ \A i \in 1 .. Len(queue) : queue[i].c \in Clients /\ queue[i].n \in Nat
      /\ \A i \in 1 .. Len(pans) : pans[i][1] \in Clients /\ pans[i][2] \in Nat
      /\ \A c \in Clients : completed[c] \in Nat
  BY Typed
<1>2. CASE /\ ShowNow(f)
           /\ pans' = Append(pans, Pan(f)) /\ queue' = queue
           /\ pc' = [pc EXCEPT ![f.c] = ok] /\ dropped' = dropped
  <2>1. Len(pans') = Len(pans) + 1 /\ pans'[Len(pans) + 1] = <<f.c, f.n>>
    BY <1>1, <1>2 DEF Shape, Pan
  <2>2. \A i \in 1 .. Len(pans) : pans'[i] = pans[i]
    BY <1>1, <1>2 DEF Shape
  <2>3. queue = <<>> /\ Len(queue) = 0 /\ completed[f.c] >= f.n
    BY <1>2 DEF ShowNow, Passed, Request
  <2>4. Shape'
    BY <1>1, <1>2 DEF Shape, Pan
  <2>5. Rendering'
    BY <1>1, <1>2 DEF Rendering, Shape
  <2>6. Gated'
    BY <1>1, <1>2, <2>1, <2>2, <2>3 DEF Gated, Shape
  <2>7. \A c \in Clients, n \in Nat : Behind(issued, pc, c, n) => Behind(issued', pc', c, n)
    BY <1>1, <1>2 DEF Behind, Shape
  <2>8. Behind(issued', pc', f.c, f.n)
    BY <1>1, <1>2 DEF Behind, Shape, Request
  <2>9. \A n \in Nat : Behind(issued, pc, f.c, n) => n < f.n
    BY DEF Behind, Request
  <2>10. \A c \in Clients, n \in Nat : Behind(issued', pc', c, n) => Behind(issued, pc, c, n) \/ (c = f.c /\ n = f.n)
    BY <1>1, <1>2 DEF Behind, Shape, Request
  <2>11. Ordered'
    <3>1. \A i \in 1 .. Len(pans') : Behind(issued', pc', pans'[i][1], pans'[i][2])
      BY <1>0, <1>1, <2>1, <2>2, <2>7, <2>8 DEF Ordered
    <3>2. \A i, k \in 1 .. Len(pans') :
             i < k /\ pans'[i][1] = pans'[k][1] => pans'[i][2] < pans'[k][2]
      <4> SUFFICES ASSUME NEW i \in 1 .. Len(pans'), NEW k \in 1 .. Len(pans'),
                          i < k, pans'[i][1] = pans'[k][1]
                   PROVE  pans'[i][2] < pans'[k][2]
        OBVIOUS
      <4>1. i \in 1 .. Len(pans) /\ (k \in 1 .. Len(pans) \/ k = Len(pans) + 1)
        BY <1>1, <2>1
      <4>2. CASE k \in 1 .. Len(pans)
        BY <2>2, <4>1, <4>2, ZenonT(20) DEF Ordered
      <4>3. CASE k = Len(pans) + 1
        <5>1. pans'[i] = pans[i] /\ pans[i][1] = f.c /\ pans'[k][2] = f.n
          BY <2>1, <2>2, <4>1, <4>3
        <5>2. Behind(issued, pc, pans[i][1], pans[i][2]) /\ pans[i][2] \in Nat
          BY <1>0, <4>1, ZenonT(20) DEF Ordered
        <5>3. pans[i][2] < f.n
          BY <2>9, <5>1, <5>2, ZenonT(20)
        <5> QED
          BY <5>1, <5>3, Zenon
      <4> QED
        BY <4>1, <4>2, <4>3, Zenon
    <3>3. Len(queue') = 0
      BY <1>2, <2>3
    <3> QED
      BY <3>1, <3>2, <3>3 DEF Ordered
  <2>12. Complete'
    <3> SUFFICES ASSUME dropped = {}, NEW c \in Clients, NEW n \in Nat, n > 0, Behind(issued', pc', c, n)
                 PROVE  Flipped(c, n)'
      BY <1>2 DEF Complete
    <3>1. CASE c = f.c /\ n = f.n
      <4>1. Len(pans) + 1 \in 1 .. Len(pans')
        BY <1>1, <2>1
      <4> QED
        BY <2>1, <3>1, <4>1 DEF Flipped
    <3>2. CASE Behind(issued, pc, c, n)
      <4>0. Flipped(c, n)
        BY <3>2 DEF Complete
      <4>1. PICK i \in 1 .. Len(pans) : pans[i] = <<c, n>>
        <5>1. ~ \E i \in 1 .. Len(queue) : queue[i].c = c /\ queue[i].n = n
          BY <2>3
        <5> QED
          BY <4>0, <5>1 DEF Flipped
      <4>2. i \in 1 .. Len(pans')
        BY <1>1, <2>1
      <4> QED
        BY <2>2, <4>1, <4>2 DEF Flipped
    <3> QED
      BY <2>10, <3>1, <3>2
  <2> QED
    BY <2>4, <2>5, <2>6, <2>11, <2>12
<1>3. CASE /\ ~ShowNow(f) /\ Full
           /\ pc' = [pc EXCEPT ![f.c] = busy]
           /\ dropped' = IF busy = "draw" THEN dropped \cup {Pan(f)} ELSE dropped
           /\ UNCHANGED <<queue, pans>>
  <2>1. Shape'
    BY <1>1, <1>3 DEF Shape
  <2>2. Rendering'
    BY <1>1, <1>3 DEF Rendering, Shape
  <2>4. \A c \in Clients, n \in Nat : Behind(issued, pc, c, n) => Behind(issued', pc', c, n)
    BY <1>1, <1>3 DEF Behind, Shape, Request
  <2>5. busy = "wait" => \A c \in Clients, n \in Nat : Behind(issued', pc', c, n) => Behind(issued, pc, c, n)
    BY <1>1, <1>3 DEF Behind, Shape, Request
  <2>6. busy = "draw" => dropped' # {}
    BY <1>3
  <2>7. \A c \in Clients : completed'[c] >= completed[c]
    BY <1>0
  <2>8. dropped' = {} => busy = "wait" /\ dropped = {}
    BY <1>3, <2>6
  <2>9. Gated' /\ Ordered' /\ Complete'
    BY <1>3, <2>1, <2>4, <2>5, <2>7, <2>8, SameQueue
  <2> QED
    BY <2>1, <2>2, <2>9
<1>4. CASE /\ ~ShowNow(f) /\ ~Full
           /\ Enqueue(f)
           /\ pc' = [pc EXCEPT ![f.c] = ok] /\ dropped' = dropped
  <2>1. Len(queue') = Len(queue) + 1 /\ queue'[Len(queue) + 1] = f /\ pans' = pans
    BY <1>1, <1>4 DEF Shape, Enqueue, Request
  <2>2. \A i \in 1 .. Len(queue) : queue'[i] = queue[i]
    BY <1>1, <1>4 DEF Shape, Enqueue, Request
  <2>4. Shape'
    BY <1>1, <1>4 DEF Shape, Enqueue, Request
  <2>5. Rendering'
    BY <1>1, <1>4 DEF Rendering, Shape
  <2>6. Gated'
    <3>1. \A i \in 1 .. Len(queue') : ~queue'[i].gated => completed[queue'[i].c] >= queue'[i].n
      BY <1>1, <2>1, <2>2 DEF Gated, Request
    <3> QED
      BY <2>1, <3>1 DEF Gated
  <2>7. \A c \in Clients, n \in Nat : Behind(issued, pc, c, n) => Behind(issued', pc', c, n)
    BY <1>1, <1>4 DEF Behind, Shape
  <2>8. Behind(issued', pc', f.c, f.n)
    BY <1>1, <1>4 DEF Behind, Shape, Request
  <2>9. \A n \in Nat : Behind(issued, pc, f.c, n) => n < f.n
    BY DEF Behind, Request
  <2>10. \A c \in Clients, n \in Nat : Behind(issued', pc', c, n) => Behind(issued, pc, c, n) \/ (c = f.c /\ n = f.n)
    BY <1>1, <1>4 DEF Behind, Shape, Request
  <2>11. Ordered'
    <3>1. \A i \in 1 .. Len(pans) : Behind(issued', pc', pans[i][1], pans[i][2])
      BY <1>0, <2>7 DEF Ordered
    <3>2. \A i \in 1 .. Len(queue') : Behind(issued', pc', queue'[i].c, queue'[i].n)
      BY <1>0, <1>1, <2>1, <2>2, <2>7, <2>8 DEF Ordered
    <3>3. \A i, k \in 1 .. Len(queue') :
             i < k /\ queue'[i].c = queue'[k].c => queue'[i].n < queue'[k].n
      BY <1>0, <1>1, <2>1, <2>2, <2>9 DEF Ordered
    <3>4. \A i \in 1 .. Len(pans), k \in 1 .. Len(queue') :
             pans[i][1] = queue'[k].c => pans[i][2] < queue'[k].n
      BY <1>0, <1>1, <2>1, <2>2, <2>9 DEF Ordered
    <3>5. \A i, k \in 1 .. Len(pans) : i < k /\ pans[i][1] = pans[k][1] => pans[i][2] < pans[k][2]
      BY DEF Ordered
    <3> QED
      BY <2>1, <3>1, <3>2, <3>3, <3>4, <3>5 DEF Ordered
  <2>12. Complete'
    <3> SUFFICES ASSUME dropped = {}, NEW c \in Clients, NEW n \in Nat, n > 0, Behind(issued', pc', c, n)
                 PROVE  Flipped(c, n)'
      BY <1>4 DEF Complete
    <3>1. CASE c = f.c /\ n = f.n
      <4>1. Len(queue) + 1 \in 1 .. Len(queue')
        BY <1>1, <2>1
      <4> QED
        BY <2>1, <3>1, <4>1 DEF Flipped
    <3>2. CASE Behind(issued, pc, c, n)
      <4>1. CASE \E i \in 1 .. Len(pans) : pans[i] = <<c, n>>
        BY <2>1, <4>1 DEF Flipped
      <4>2. ASSUME NEW i \in 1 .. Len(queue), queue[i].c = c /\ queue[i].n = n
            PROVE  Flipped(c, n)'
        <5>1. i \in 1 .. Len(queue')
          BY <1>1, <2>1
        <5> QED
          BY <2>2, <4>2, <5>1 DEF Flipped
      <4>3. Flipped(c, n)
        BY <3>2 DEF Complete
      <4> QED
        BY <4>1, <4>2, <4>3, Zenon DEF Flipped
    <3> QED
      BY <2>10, <3>1, <3>2
  <2> QED
    BY <2>4, <2>5, <2>6, <2>11, <2>12
<1> QED
  BY <1>2, <1>3, <1>4 DEF FlipRequest

\* A pass of the event thread moves the head of the queue to the pans.
LEMMA PassKeeps ==
  ASSUME PresentInv, NEW D, EventPass(D)
  PROVE  PresentInv'
<1> USE DEF PresentInv
<1> DEFINE k == Runnable(completed')
<1>1. k \in 0 .. Len(queue) /\ \A i \in 1 .. k : Passed(queue[i], completed')
  BY RunnableFacts
<1>2. Len(queue) \in Nat /\ Len(pans) \in Nat
  BY DEF Shape
<1>3. /\ pans' = pans \o [i \in 1 .. k |-> Pan(queue[i])]
      /\ queue' = SubSeq(queue, k + 1, Len(queue))
      /\ issued' = issued /\ pc' = pc /\ dropped' = dropped
      /\ completed' = [c \in Clients |-> IF c \in D THEN completed[c] + 1 ELSE completed[c]]
      /\ D \subseteq {c \in Clients : completed[c] < issued[c]}
  BY DEF EventPass
<1> HIDE DEF k
<1>4. /\ \A i \in 1 .. Len(queue) :
           queue[i].c \in Clients /\ queue[i].n \in Nat /\ queue[i].gated \in BOOLEAN
      /\ \A i \in 1 .. Len(pans) : pans[i][1] \in Clients /\ pans[i][2] \in Nat
      /\ \A c \in Clients : completed[c] \in Nat /\ issued[c] \in Nat
  BY Typed
<1>5. [i \in 1 .. k |-> Pan(queue[i])] \in Seq(Clients \X Nat)
  BY <1>1, <1>2, <1>4 DEF Pan
<1>6. /\ Len(pans') = Len(pans) + k
      /\ \A i \in 1 .. Len(pans) : pans'[i] = pans[i]
      /\ \A i \in 1 .. k : pans'[Len(pans) + i] = <<queue[i].c, queue[i].n>>
  <2> DEFINE S == Clients \X Nat
             new == [i \in 1 .. k |-> Pan(queue[i])]
  <2>1. k \in Nat /\ Len(new) = k /\ \A i \in 1 .. k : new[i] = <<queue[i].c, queue[i].n>>
    BY <1>1, <1>2 DEF Pan
  <2>2. pans \in Seq(S) /\ new \in Seq(S) /\ pans' = pans \o new
    BY <1>3, <1>5 DEF Shape
  <2> HIDE DEF S, new
  <2>3. /\ Len(pans') = Len(pans) + Len(new)
        /\ \A i \in 1 .. Len(pans) + Len(new) :
             pans'[i] = IF i <= Len(pans) THEN pans[i] ELSE new[i - Len(pans)]
    BY <2>2, ConcatProperties
  <2>4. ASSUME NEW i \in 1 .. k
        PROVE  pans'[Len(pans) + i] = new[i]
    BY <1>2, <2>1, <2>3
  <2>5. ASSUME NEW i \in 1 .. Len(pans)
        PROVE  pans'[i] = pans[i]
    BY <1>2, <2>1, <2>3
  <2> QED
    BY <2>1, <2>3, <2>4, <2>5
<1>7. /\ Len(queue') = Len(queue) - k
      /\ \A i \in 1 .. Len(queue) - k : queue'[i] = queue[k + i]
  BY <1>1, <1>2, <1>3 DEF Shape
<1>8. \A c \in Clients : completed'[c] \in Nat /\ completed'[c] >= completed[c] /\ completed'[c] <= issued[c]
  BY <1>3 DEF Shape, Rendering
<1>9. Shape'
  <2>1. pans' \in Seq(Clients \X Nat)
    <3> DEFINE S == Clients \X Nat
               new == [i \in 1 .. k |-> Pan(queue[i])]
    <3>1. pans \in Seq(S) /\ new \in Seq(S) /\ pans' = pans \o new
      BY <1>3, <1>5 DEF Shape
    <3> HIDE DEF S, new
    <3>2. pans' \in Seq(S)
      BY <3>1, ConcatProperties
    <3> QED
      BY <3>2 DEF S
  <2>2. queue' \in Seq([c : Clients, n : Nat, gated : BOOLEAN])
    <3> DEFINE S == [c : Clients, n : Nat, gated : BOOLEAN]
    <3>1. queue \in Seq(S)
      BY DEF Shape
    <3> HIDE DEF S
    <3>2. SubSeq(queue, k + 1, Len(queue)) \in Seq(S)
      BY <1>1, <1>2, <3>1
    <3> QED
      BY <1>3, <3>2 DEF S
  <2>3. completed' \in [Clients -> Nat]
    BY <1>3, <1>8
  <2> QED
    BY <1>3, <2>1, <2>2, <2>3 DEF Shape
<1>10. Rendering'
  BY <1>3, <1>8 DEF Rendering, Shape
<1>11. Gated'
  <2>1. ASSUME NEW i \in 1 .. Len(pans')
        PROVE  completed'[pans'[i][1]] >= pans'[i][2]
    <3>1. CASE i \in 1 .. Len(pans)
      <4>1. completed[pans[i][1]] >= pans[i][2] /\ pans'[i] = pans[i]
        BY <1>6, <3>1 DEF Gated
      <4> QED
        BY <1>4, <1>8, <3>1, <4>1
    <3>2. CASE i \notin 1 .. Len(pans)
      <4>1. PICK j \in 1 .. k : i = Len(pans) + j
        <5>1. i - Len(pans) \in 1 .. k
          BY <1>1, <1>2, <1>6, <3>2
        <5> QED
          BY <1>2, <5>1
      <4>2. Passed(queue[j], completed') /\ j \in 1 .. Len(queue)
        BY <1>1, <1>2
      <4>3. completed'[queue[j].c] >= queue[j].n
        BY <1>4, <1>8, <4>2 DEF Passed, Gated
      <4> QED
        BY <1>6, <4>1, <4>2, <4>3
    <3> QED
      BY <3>1, <3>2
  <2>2. ASSUME NEW i \in 1 .. Len(queue'), ~queue'[i].gated
        PROVE  completed'[queue'[i].c] >= queue'[i].n
    <3>1. k + i \in 1 .. Len(queue) /\ queue'[i] = queue[k + i]
      BY <1>1, <1>2, <1>7
    <3> QED
      BY <2>2, <3>1, <1>4, <1>8 DEF Gated
  <2> QED
    BY <2>1, <2>2 DEF Gated
<1>12. \A c, n : Behind(issued', pc', c, n) <=> Behind(issued, pc, c, n)
  BY <1>3 DEF Behind
<1>13. \A i \in 1 .. Len(pans') : \/ i \in 1 .. Len(pans) /\ pans'[i] = pans[i]
                                  \/ /\ i > Len(pans) /\ i - Len(pans) \in 1 .. k
                                     /\ i - Len(pans) \in 1 .. Len(queue)
                                     /\ pans'[i] = <<queue[i - Len(pans)].c, queue[i - Len(pans)].n>>
  <2> SUFFICES ASSUME NEW i \in 1 .. Len(pans'), i \notin 1 .. Len(pans)
               PROVE  /\ i > Len(pans) /\ i - Len(pans) \in 1 .. k
                      /\ i - Len(pans) \in 1 .. Len(queue)
                      /\ pans'[i] = <<queue[i - Len(pans)].c, queue[i - Len(pans)].n>>
    BY <1>6
  <2>1. i > Len(pans) /\ i - Len(pans) \in 1 .. k /\ i - Len(pans) \in 1 .. Len(queue)
    BY <1>1, <1>2, <1>6
  <2>2. i = Len(pans) + (i - Len(pans))
    BY <1>2, <2>1
  <2> QED
    BY <1>6, <2>1, <2>2
<1>14. \A i \in 1 .. Len(queue') : k + i \in 1 .. Len(queue) /\ queue'[i] = queue[k + i]
  BY <1>1, <1>2, <1>7
<1>15. Ordered'
  <2>1. \A i \in 1 .. Len(pans') : Behind(issued', pc', pans'[i][1], pans'[i][2])
    BY <1>12, <1>13 DEF Ordered
  <2>2. \A i \in 1 .. Len(queue') : Behind(issued', pc', queue'[i].c, queue'[i].n)
    BY <1>12, <1>14 DEF Ordered
  <2>3. \A i, j \in 1 .. Len(pans') : i < j /\ pans'[i][1] = pans'[j][1] => pans'[i][2] < pans'[j][2]
    <3> SUFFICES ASSUME NEW i \in 1 .. Len(pans'), NEW j \in 1 .. Len(pans'),
                        i < j, pans'[i][1] = pans'[j][1]
                 PROVE  pans'[i][2] < pans'[j][2]
      OBVIOUS
    <3> DEFINE u == i - Len(pans)
               v == j - Len(pans)
    <3>1. CASE i \in 1 .. Len(pans) /\ j \in 1 .. Len(pans)
      BY <1>6, <3>1 DEF Ordered
    <3>2. CASE i \in 1 .. Len(pans) /\ j \notin 1 .. Len(pans)
      <4>1. v \in 1 .. Len(queue) /\ pans'[j] = <<queue[v].c, queue[v].n>>
        BY <1>13, <3>2
      <4>2. pans'[i] = pans[i]
        BY <1>6, <3>2
      <4> HIDE DEF v
      <4> QED
        BY <3>2, <4>1, <4>2 DEF Ordered
    <3>3. CASE i \notin 1 .. Len(pans) /\ j \notin 1 .. Len(pans)
      <4>1. v \in 1 .. Len(queue) /\ pans'[j] = <<queue[v].c, queue[v].n>>
        BY <1>13, <3>3
      <4>2. u \in 1 .. Len(queue) /\ pans'[i] = <<queue[u].c, queue[u].n>>
        BY <1>13, <3>3
      <4>3. u < v
        BY <1>2, <1>6, <1>1
      <4> HIDE DEF u, v
      <4> QED
        BY <4>1, <4>2, <4>3 DEF Ordered
    <3>4. i \notin 1 .. Len(pans) => j \notin 1 .. Len(pans)
      BY <1>1, <1>2, <1>6
    <3> QED
      BY <3>1, <3>2, <3>3, <3>4
  <2>4. \A i, j \in 1 .. Len(queue') : i < j /\ queue'[i].c = queue'[j].c => queue'[i].n < queue'[j].n
    <3> SUFFICES ASSUME NEW i \in 1 .. Len(queue'), NEW j \in 1 .. Len(queue'),
                        i < j, queue'[i].c = queue'[j].c
                 PROVE  queue'[i].n < queue'[j].n
      OBVIOUS
    <3> DEFINE u == k + i
               v == k + j
    <3>1. /\ u \in 1 .. Len(queue) /\ queue'[i] = queue[u]
          /\ v \in 1 .. Len(queue) /\ queue'[j] = queue[v]
      BY <1>14
    <3>2. u < v
      BY <1>1, <1>2, <1>7
    <3> HIDE DEF u, v
    <3> QED
      BY <3>1, <3>2 DEF Ordered
  <2>5. \A i \in 1 .. Len(pans'), j \in 1 .. Len(queue') :
           pans'[i][1] = queue'[j].c => pans'[i][2] < queue'[j].n
    <3> SUFFICES ASSUME NEW i \in 1 .. Len(pans'), NEW j \in 1 .. Len(queue'),
                        pans'[i][1] = queue'[j].c
                 PROVE  pans'[i][2] < queue'[j].n
      OBVIOUS
    <3> DEFINE u == i - Len(pans)
               v == k + j
    <3>1. v \in 1 .. Len(queue) /\ queue'[j] = queue[v] /\ v > k
      BY <1>1, <1>2, <1>7, <1>14
    <3>2. CASE i \in 1 .. Len(pans)
      <4>1. pans'[i] = pans[i]
        BY <1>6, <3>2
      <4> HIDE DEF v
      <4> QED
        BY <3>1, <3>2, <4>1 DEF Ordered
    <3>3. CASE i \notin 1 .. Len(pans)
      <4>1. u \in 1 .. Len(queue) /\ u \in 1 .. k /\ pans'[i] = <<queue[u].c, queue[u].n>>
        BY <1>13, <3>3
      <4> HIDE DEF u, v
      <4>2. u < v
        BY <1>1, <3>1, <4>1
      <4> QED
        BY <3>1, <4>1, <4>2 DEF Ordered
    <3> QED
      BY <3>2, <3>3
  <2> QED
    BY <2>1, <2>2, <2>3, <2>4, <2>5 DEF Ordered
<1>16. Complete'
  <2> SUFFICES ASSUME dropped = {}, NEW c \in Clients, NEW n \in Nat, n > 0, Behind(issued, pc, c, n)
               PROVE  Flipped(c, n)'
    BY <1>3, <1>12 DEF Complete
  <2>1. ASSUME NEW i \in 1 .. Len(pans), pans[i] = <<c, n>>
        PROVE  Flipped(c, n)'
    <3>1. i \in 1 .. Len(pans') /\ pans'[i] = pans[i]
      BY <1>1, <1>2, <1>6
    <3> QED
      BY <2>1, <3>1 DEF Flipped
  <2>2. CASE \E i \in 1 .. Len(queue) : queue[i].c = c /\ queue[i].n = n
    <3>1. PICK i \in 1 .. Len(queue) : queue[i].c = c /\ queue[i].n = n
      BY <2>2
    <3>2. CASE i <= k
      <4>1. i \in 1 .. k /\ Len(pans) + i \in 1 .. Len(pans')
        BY <1>1, <1>2, <1>6, <3>2
      <4> QED
        BY <1>6, <3>1, <4>1 DEF Flipped
    <3>3. CASE i > k
      <4>1. i - k \in 1 .. Len(queue') /\ i - k \in 1 .. Len(queue) - k /\ k + (i - k) = i
        BY <1>1, <1>2, <1>7, <3>3
      <4>2. queue'[i - k] = queue[i]
        BY <1>7, <4>1
      <4> QED
        BY <3>1, <4>1, <4>2 DEF Flipped
    <3> QED
      BY <1>1, <1>2, <3>2, <3>3
  <2>3. Flipped(c, n)
    BY DEF Complete
  <2> QED
    BY <2>1, <2>2, <2>3, Zenon DEF Flipped
<1> QED
  BY <1>9, <1>10, <1>11, <1>15, <1>16

\* Every step keeps the invariant.
LEMMA PresentStep ==
  ASSUME PresentInv, [Next]_vars
  PROVE  PresentInv'
<1> USE DEF PresentInv
<1>1. ASSUME NEW c \in Clients, Draw(c)
      PROVE  PresentInv'
  <2>1. Shape' /\ Rendering'
    BY <1>1 DEF Draw, Shape, Rendering
  <2>2. \A d \in Clients : completed'[d] >= completed[d]
    BY <1>1 DEF Draw, Shape
  <2>3. \A d \in Clients, n \in Nat : Behind(issued', pc', d, n) <=> Behind(issued, pc, d, n)
    BY <1>1 DEF Draw, Behind, Shape
  <2>4. UNCHANGED <<queue, pans>> /\ dropped' = dropped
    BY <1>1 DEF Draw
  <2>5. Gated' /\ Ordered' /\ Complete'
    BY <2>1, <2>2, <2>3, <2>4, SameQueue
  <2> QED
    BY <2>1, <2>5
<1>2. ASSUME NEW c \in Clients, FirstFlip(c)
      PROVE  PresentInv'
  <2> DEFINE f == [c |-> c, n |-> issued[c], gated |-> TRUE]
  <2>1. Request(f)
    BY <1>2 DEF FirstFlip, Request, Shape
  <2>2. FlipRequest(f, "draw", "wait") /\ UNCHANGED <<issued, completed>>
    BY <1>2 DEF FirstFlip
  <2> HIDE DEF f
  <2> QED
    BY <2>1, <2>2, FlipKeeps
<1>3. ASSUME NEW c \in Clients, WaitRender(c)
      PROVE  PresentInv'
  <2>1. Shape' /\ Rendering'
    BY <1>3 DEF WaitRender, Shape, Rendering
  <2>2. \A d \in Clients : completed'[d] >= completed[d]
    BY <1>3 DEF WaitRender, Shape
  <2>3. \A d \in Clients, n \in Nat : Behind(issued', pc', d, n) <=> Behind(issued, pc, d, n)
    BY <1>3 DEF WaitRender, Behind, Shape
  <2>4. UNCHANGED <<queue, pans>> /\ dropped' = dropped
    BY <1>3 DEF WaitRender
  <2>5. Gated' /\ Ordered' /\ Complete'
    BY <2>1, <2>2, <2>3, <2>4, SameQueue
  <2> QED
    BY <2>1, <2>5
<1>4. ASSUME NEW c \in Clients, SecondFlip(c)
      PROVE  PresentInv'
  <2> DEFINE f == [c |-> c, n |-> issued[c], gated |-> FALSE]
  <2>1. Request(f)
    BY <1>4 DEF SecondFlip, Request, Shape, Rendering
  <2>2. FlipRequest(f, "draw", "draw") /\ UNCHANGED <<issued, completed>>
    BY <1>4 DEF SecondFlip
  <2> HIDE DEF f
  <2> QED
    BY <2>1, <2>2, FlipKeeps
<1>5. ASSUME NEW c \in Clients, SchedFail(c)
      PROVE  PresentInv'
  <2>1. Shape' /\ Rendering'
    BY <1>5 DEF SchedFail, Shape, Rendering
  <2>2. \A d \in Clients : completed'[d] >= completed[d]
    BY <1>5 DEF SchedFail, Shape
  <2>3. \A d \in Clients, n \in Nat : Behind(issued', pc', d, n) <=> Behind(issued, pc, d, n)
    BY <1>5 DEF SchedFail, Behind, Shape
  <2>4. UNCHANGED <<queue, pans>> /\ dropped' = dropped
    BY <1>5 DEF SchedFail
  <2>5. Gated' /\ Ordered' /\ Complete'
    BY <2>1, <2>2, <2>3, <2>4, SameQueue
  <2> QED
    BY <2>1, <2>5
<1>6. CASE UNCHANGED vars
  <2>1. /\ issued' = issued /\ completed' = completed /\ pc' = pc
        /\ UNCHANGED <<queue, pans>> /\ dropped' = dropped
    BY <1>6 DEF vars
  <2>2. Shape' /\ Rendering'
    BY <2>1 DEF Shape, Rendering
  <2>3. \A d \in Clients : completed'[d] >= completed[d]
    BY <2>1 DEF Shape
  <2>4. Gated' /\ Ordered' /\ Complete'
    BY <2>1, <2>2, <2>3, SameQueue
  <2> QED
    BY <2>2, <2>4
<1> QED
  BY <1>1, <1>2, <1>3, <1>4, <1>5, <1>6, PassKeeps DEF Next

\* The invariant holds in every state.
THEOREM PresentInvariant == Spec => []PresentInv
<1>1. Init => PresentInv
  BY DEF Init, PresentInv, Shape, Rendering, Gated, Ordered, Complete, Behind, Flipped
<1> QED
  BY <1>1, PresentStep, PTL DEF Spec

-----------------------------------------------------------------------------
(* What it says                                                            *)

\* No frame is panned before its render has completed (present_run's gate, and
\* the client's wait before its second flip).
THEOREM PansRendered == Spec => []ShownRendered
<1>1. PresentInv => ShownRendered
  BY DEF PresentInv, Gated, ShownRendered
<1> QED
  BY <1>1, PresentInvariant, PTL

\* The frames of a client are panned in the order it drew them, each at most
\* once, whether v3da_flip showed them at once or queued them.
THEOREM PansInOrder == Spec => []ShownInOrder
<1>1. PresentInv => ShownInOrder
  BY DEF PresentInv, Ordered, ShownInOrder
<1> QED
  BY <1>1, PresentInvariant, PTL

\* With two buffers or more, the render in progress does not write the buffer
\* on the display: the last pan of its client is of the last frame rendered.
THEOREM PansDoNotTear ==
  ASSUME NBuf > 1
  PROVE  Spec => []NoTearing
<1>1. ASSUME PresentInv
      PROVE  NoTearing
  <2>0. Shape /\ Gated /\ Ordered /\ Complete
    BY <1>1 DEF PresentInv
  <2> DEFINE m == Len(pans)
             c == pans[m][1]
             n == pans[m][2]
  <2> SUFFICES ASSUME pans # <<>>, completed[c] < issued[c], ~Overdue(c), dropped = {}
               PROVE  (completed[c] + 1) % NBuf # n % NBuf
    BY DEF NoTearing, Last
  <2>1. m \in Nat /\ m \in 1 .. m
    BY <2>0 DEF Shape
  <2>3. c \in Clients /\ n \in Nat /\ completed[c] \in Nat /\ issued[c] \in Nat
    BY <2>0, <2>1, Typed
  <2>4. n <= completed[c]
    BY <2>0, <2>1, <2>3 DEF Gated
  <2> HIDE DEF m, c, n
  <2>5. completed[c] > 0 => n = completed[c]
    <3> SUFFICES ASSUME completed[c] > 0
                 PROVE  n = completed[c]
      OBVIOUS
    <3>1. Behind(issued, pc, c, completed[c])
      BY <2>3 DEF Behind
    <3>2. Flipped(c, completed[c])
      BY <2>0, <2>3, <3>1 DEF Complete
    <3>3. PICK i \in 1 .. Len(pans) : pans[i] = <<c, completed[c]>>
      BY <2>3, <3>2 DEF Flipped, Overdue
    <3>4. CASE i = m
      BY <3>3, <3>4 DEF n
    <3>5. CASE i < m
      <4>1. pans[i][1] = pans[m][1] /\ pans[i][2] = completed[c] /\ pans[m][2] = n
        BY <3>3 DEF c, n
      <4>2. completed[c] < n
        BY <2>0, <2>1, <3>5, <4>1 DEF Ordered, m
      <4> QED
        BY <2>3, <2>4, <4>2
    <3> QED
      BY <2>1, <3>3, <3>4, <3>5 DEF m
  <2>6. n = completed[c]
    BY <2>3, <2>4, <2>5
  <2> QED
    BY <2>3, <2>6, NextBuffer
<1> QED
  BY <1>1, PresentInvariant, PTL

=============================================================================
