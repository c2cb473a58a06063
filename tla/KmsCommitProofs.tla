-------------------------- MODULE KmsCommitProofs --------------------------
(***************************************************************************)
(* Proofs, for every number of clients, planes, framebuffers and buffers,  *)
(* about the display server's commits: its reference counts are exact, the *)
(* display reads only what they hold, a flip completes when its picture is *)
(* read, and the planes shown are mapped for the current mode.             *)
(***************************************************************************)
EXTENDS KmsCommitProps, FiniteSetTheorems, TLAPS

FbRec == [owner : Clients \cup {None}, user : BOOLEAN, refs : Nat, bo : Bos \cup {None}]
BoRec == [owner : Clients \cup {None}, handle : BOOLEAN, refs : Nat]

\* The types of the tables and of the commit.
Tables ==
  /\ bo \in [Bos -> BoRec]
  /\ fb \in [Fbs -> FbRec]
  /\ cur \in [Planes -> Fbs \cup {None}]
  /\ pst \in [Planes -> Fbs \cup {None, Keep}]
  /\ pend \in {"none", "fence", "armed"}
  /\ pend = "none" <=> pst = NoCommit

\* What a framebuffer and a buffer count.
User(f) == IF fb[f].user THEN 1 ELSE 0
Handle(b) == IF bo[b].handle THEN 1 ELSE 0
FbsOf(b) == {f \in Fbs : fb[f].bo = b}
Shows(f) == Holds(cur, Planes, f) + Holds(pst, Planes, f)

\* A framebuffer without references is free, one with references has a buffer.
FbFree ==
  \A f \in Fbs : /\ fb[f].refs = 0 => fb[f] = FreeFb
                 /\ fb[f].refs > 0 => fb[f].bo \in Bos

FbCounts == \A f \in Fbs : fb[f].refs = User(f) + Shows(f)
BoCounts == \A b \in Bos : bo[b].refs = Handle(b) + Cardinality(FbsOf(b))

\* The inductive invariant of the reference counts.
CountInv == Tables /\ FbFree /\ FbCounts /\ BoCounts

-----------------------------------------------------------------------------
(* Counting planes                                                         *)

\* The planes that show a framebuffer are finitely many.
LEMMA HoldsNat ==
  ASSUME NEW s, NEW S \in SUBSET Planes, NEW f
  PROVE  /\ IsFiniteSet({p \in S : s[p] = f}) /\ Holds(s, S, f) \in Nat
<1>1. {p \in S : s[p] = f} \in SUBSET Planes
  OBVIOUS
<1>2. IsFiniteSet({p \in S : s[p] = f})
  BY <1>1, KmsAssumption, FS_Subset
<1> QED
  BY <1>2, FS_CardinalityType DEF Holds

\* ... of all of them,
LEMMA HoldsPlanes ==
  ASSUME NEW s, NEW f
  PROVE  Holds(s, Planes, f) \in Nat
<1>1. Planes \in SUBSET Planes
  OBVIOUS
<1> QED
  BY <1>1, HoldsNat, ZenonT(20)

\* ... of a part and of the others,
LEMMA HoldsSplit ==
  ASSUME NEW s, NEW S \in SUBSET Planes, NEW f
  PROVE  Holds(s, Planes, f) = Holds(s, S, f) + Holds(s, Planes \ S, f)
<1> DEFINE A == {p \in S : s[p] = f}
           B == {p \in Planes \ S : s[p] = f}
<1>a. A \in SUBSET Planes /\ B \in SUBSET Planes
  OBVIOUS
<1>1. IsFiniteSet(A) /\ IsFiniteSet(B)
  BY <1>a, KmsAssumption, FS_Subset
<1>2. {p \in Planes : s[p] = f} = A \cup B /\ A \cap B = {}
  OBVIOUS
<1>3. Cardinality(A \cup B) = Cardinality(A) + Cardinality(B) - Cardinality(A \cap B)
  BY <1>1, FS_Union
<1>4. Cardinality(A) \in Nat /\ Cardinality(B) \in Nat /\ Cardinality(A \cap B) = 0
  BY <1>1, <1>2, FS_CardinalityType, FS_EmptySet, ZenonT(20)
<1> QED
  BY <1>2, <1>3, <1>4 DEF Holds

\* ... the same of two states that agree on the framebuffer,
LEMMA HoldsSame ==
  ASSUME NEW s, NEW t, NEW S, NEW f, \A p \in S : s[p] = f <=> t[p] = f
  PROVE  Holds(s, S, f) = Holds(t, S, f)
<1>1. {p \in S : s[p] = f} = {p \in S : t[p] = f}
  OBVIOUS
<1> QED
  BY <1>1 DEF Holds

\* ... none if no plane shows it,
LEMMA HoldsNone ==
  ASSUME NEW s, NEW S, NEW f, \A p \in S : s[p] # f
  PROVE  Holds(s, S, f) = 0
<1>1. {p \in S : s[p] = f} = {}
  OBVIOUS
<1> QED
  BY <1>1, FS_EmptySet DEF Holds

\* ... and some if one does.
LEMMA HoldsSome ==
  ASSUME NEW s, NEW S \in SUBSET Planes, NEW f, NEW p \in S, s[p] = f
  PROVE  Holds(s, S, f) > 0
<1> DEFINE A == {q \in S : s[q] = f}
<1>1. A # {} /\ IsFiniteSet(A)
  BY HoldsNat
<1>2. Cardinality(A) # 0 /\ Cardinality(A) \in Nat
  BY <1>1, FS_EmptySet, FS_CardinalityType
<1> QED
  BY <1>2 DEF Holds

\* The framebuffers of a buffer are finitely many.
LEMMA FbsFinite ==
  ASSUME NEW F \in SUBSET Fbs
  PROVE  IsFiniteSet(F) /\ Cardinality(F) \in Nat
<1>1. IsFiniteSet(F)
  BY KmsAssumption, FS_Subset
<1> QED
  BY <1>1, FS_CardinalityType

-----------------------------------------------------------------------------
(* Releasing references                                                    *)

\* The fields of a framebuffer and of a buffer.
LEMMA Fields ==
  ASSUME Tables
  PROVE  /\ \A f \in Fbs : /\ fb[f] \in FbRec /\ fb[f].refs \in Nat /\ fb[f].user \in BOOLEAN
                           /\ fb[f].bo \in Bos \cup {None} /\ User(f) \in 0 .. 1
         /\ \A b \in Bos : /\ bo[b] \in BoRec /\ bo[b].refs \in Nat /\ bo[b].handle \in BOOLEAN
                           /\ Handle(b) \in 0 .. 1
<1>1. ASSUME NEW f \in Fbs
      PROVE  /\ fb[f] \in FbRec /\ fb[f].refs \in Nat /\ fb[f].user \in BOOLEAN
             /\ fb[f].bo \in Bos \cup {None} /\ User(f) \in 0 .. 1
  <2>1. fb[f] \in FbRec
    BY DEF Tables
  <2> QED
    BY <2>1 DEF FbRec, User
<1>2. ASSUME NEW b \in Bos
      PROVE  /\ bo[b] \in BoRec /\ bo[b].refs \in Nat /\ bo[b].handle \in BOOLEAN
             /\ Handle(b) \in 0 .. 1
  <2>1. bo[b] \in BoRec
    BY DEF Tables
  <2> QED
    BY <2>1 DEF BoRec, Handle
<1> QED
  BY <1>1, <1>2

\* The fields of a free framebuffer and a free buffer.
LEMMA FreeFields ==
  /\ FreeFb \in FbRec /\ FreeFb.refs = 0 /\ FreeFb.user = FALSE /\ FreeFb.bo = None /\ FreeFb.owner = None
  /\ FreeBo \in BoRec /\ FreeBo.refs = 0 /\ FreeBo.handle = FALSE /\ FreeBo.owner = None
BY DEF FreeFb, FreeBo, FbRec, BoRec

\* What is left of framebuffer f after the drops, when the users of U are gone.
FbAfter(drop, U, f) ==
  /\ fb[f].refs <= drop[f] => fb'[f] = FreeFb
  /\ fb[f].refs > drop[f] =>
       /\ fb'[f].refs = fb[f].refs - drop[f] /\ (fb'[f].user <=> fb[f].user /\ f \notin U)
       /\ fb'[f].bo = fb[f].bo /\ fb'[f].owner = fb[f].owner

\* Framebuffers that lose as many references as planes and users lose interest
\* keep exact counts.
LEMMA FbsReleased ==
  ASSUME CountInv, NEW drop, NEW U, fb' \in [Fbs -> FbRec],
         \A f \in Fbs : f \in U => fb[f].user,
         \A f \in Fbs : drop[f] \in Nat /\ drop[f] + Shows(f)' = (IF f \in U THEN 1 ELSE 0) + Shows(f),
         \A f \in Fbs : FbAfter(drop, U, f)
  PROVE  FbFree' /\ FbCounts'
<1>1. ASSUME NEW f \in Fbs
      PROVE  /\ fb'[f].refs = 0 => fb'[f] = FreeFb
             /\ fb'[f].refs > 0 => fb'[f].bo \in Bos
             /\ fb'[f].refs = User(f)' + Shows(f)'
  <2>1. fb[f].refs \in Nat /\ fb[f].user \in BOOLEAN /\ fb[f].refs = User(f) + Shows(f) /\ User(f) \in 0 .. 1
    BY Fields DEF CountInv, FbCounts
  <2>2. Shows(f) \in Nat /\ Shows(f)' \in Nat
    BY HoldsPlanes DEF Shows
  <2>3. drop[f] \in Nat /\ drop[f] + Shows(f)' = (IF f \in U THEN 1 ELSE 0) + Shows(f) /\ (f \in U => fb[f].user)
    OBVIOUS
  <2>4. CASE fb[f].refs <= drop[f]
    <3>1. fb'[f] = FreeFb
      BY <2>4 DEF FbAfter
    <3>2. Shows(f)' = 0
      BY <2>1, <2>2, <2>3, <2>4 DEF User
    <3>3. fb'[f].refs = 0 /\ fb'[f].user = FALSE
      BY <3>1, FreeFields
    <3> QED
      BY <3>1, <3>2, <3>3 DEF User
  <2>5. CASE fb[f].refs > drop[f]
    <3>1. /\ fb'[f].refs = fb[f].refs - drop[f] /\ (fb'[f].user <=> fb[f].user /\ f \notin U)
          /\ fb'[f].bo = fb[f].bo
      BY <2>5 DEF FbAfter
    <3>2. fb[f].bo \in Bos
      BY <2>1, <2>3, <2>5 DEF CountInv, FbFree
    <3>3. fb'[f].refs = User(f)' + Shows(f)'
      BY <2>1, <2>2, <2>3, <3>1 DEF User
    <3> QED
      BY <2>1, <2>3, <2>5, <3>1, <3>2, <3>3
  <2> QED
    BY <2>1, <2>3, <2>4, <2>5
<1> QED
  BY <1>1 DEF FbFree, FbCounts

\* A buffer that loses a reference for each framebuffer that went and for its
\* handle if it was closed keeps an exact count.
LEMMA BosReleased ==
  ASSUME CountInv, NEW drop, NEW U, NEW closed, fb' \in [Fbs -> FbRec],
         \A b \in closed : b \in Bos /\ bo[b].handle,
         \A f \in Fbs : drop[f] \in Nat /\ FbAfter(drop, U, f),
         bo' = ReleaseBos(drop, closed)
  PROVE  bo' \in [Bos -> BoRec] /\ BoCounts'
<1> DEFINE Gone(b) == {f \in Fbs : fb[f].bo = b /\ fb[f].refs <= drop[f]}
           c(b) == IF b \in closed THEN 1 ELSE 0
           left(b) == bo[b].refs - Cardinality(Gone(b)) - c(b)
<1>1. ASSUME NEW b \in Bos
      PROVE  bo'[b] = IF left(b) <= 0 THEN FreeBo
                      ELSE [bo[b] EXCEPT !.refs = left(b), !.handle = @ /\ b \notin closed]
  BY ZenonT(20) DEF ReleaseBos
<1>2. ASSUME NEW b \in Bos
      PROVE  bo'[b] \in BoRec /\ bo'[b].refs = Handle(b)' + Cardinality(FbsOf(b)')
  <2>1. bo[b] \in BoRec /\ bo[b].refs \in Nat /\ bo[b].handle \in BOOLEAN /\ Handle(b) \in 0 .. 1
    BY Fields DEF CountInv
  <2>2. bo[b].refs = Handle(b) + Cardinality(FbsOf(b))
    BY DEF CountInv, BoCounts
  <2>3. Gone(b) \subseteq FbsOf(b) /\ FbsOf(b) \in SUBSET Fbs
    BY DEF FbsOf
  <2>4. FbsOf(b)' = FbsOf(b) \ Gone(b)
    <3>1. ASSUME NEW f \in Fbs
          PROVE  f \in FbsOf(b)' <=> f \in FbsOf(b) \ Gone(b)
      <4>1. fb[f].refs \in Nat /\ drop[f] \in Nat
        BY Fields DEF CountInv
      <4>2. CASE fb[f].refs <= drop[f]
        <5>1. fb'[f].bo = None
          BY <4>2, FreeFields DEF FbAfter
        <5>2. None \notin Bos
          BY KmsAssumption
        <5> QED
          BY <4>2, <5>1, <5>2 DEF FbsOf
      <4>3. CASE ~ (fb[f].refs <= drop[f])
        <5>1. fb'[f].bo = fb[f].bo
          BY <4>1, <4>3 DEF FbAfter
        <5> QED
          BY <4>3, <5>1 DEF FbsOf
      <4> QED
        BY <4>2, <4>3
    <3> QED
      BY <3>1 DEF FbsOf
  <2>5. IsFiniteSet(FbsOf(b)) /\ Cardinality(FbsOf(b)) \in Nat
    BY <2>3, FbsFinite
  <2>6. Gone(b) \in SUBSET Fbs
    OBVIOUS
  <2>7. IsFiniteSet(Gone(b)) /\ Cardinality(Gone(b)) \in Nat
    BY <2>6, FbsFinite
  <2>8. Cardinality(FbsOf(b)') = Cardinality(FbsOf(b)) - Cardinality(Gone(b))
    <3>1. FbsOf(b) \cap Gone(b) = Gone(b)
      BY <2>3
    <3> HIDE DEF Gone
    <3>2. Cardinality(FbsOf(b) \ Gone(b)) = Cardinality(FbsOf(b)) - Cardinality(FbsOf(b) \cap Gone(b))
      BY <2>5, FS_Difference, ZenonT(20)
    <3> QED
      BY <2>4, <3>1, <3>2, ZenonT(20)
  <2>9. FbsOf(b)' \in SUBSET Fbs
    BY DEF FbsOf
  <2>10. Cardinality(FbsOf(b)') \in Nat
    BY <2>9, FbsFinite
  <2>11. c(b) \in 0 .. 1 /\ (c(b) = 1 <=> b \in closed) /\ (b \in closed => bo[b].handle)
    OBVIOUS
  <2>12. left(b) = Handle(b) - c(b) + Cardinality(FbsOf(b)')
    BY <2>1, <2>2, <2>5, <2>7, <2>8
  <2>13. Handle(b) = IF bo[b].handle THEN 1 ELSE 0
    BY DEF Handle
  <2>14. Handle(b)' = IF bo'[b].handle THEN 1 ELSE 0
    BY DEF Handle
  <2> HIDE DEF left, c
  <2>15. CASE left(b) <= 0
    <3>1. bo'[b] = FreeBo
      BY <1>1, <2>15, ZenonT(20)
    <3>2. bo'[b] \in BoRec /\ bo'[b].refs = 0 /\ bo'[b].handle = FALSE
      BY <3>1, FreeFields
    <3>3. Cardinality(FbsOf(b)') = 0
      BY <2>1, <2>10, <2>11, <2>12, <2>13, <2>15
    <3> QED
      BY <2>14, <3>2, <3>3
  <2>16. CASE ~ (left(b) <= 0)
    <3>1. bo'[b] = [bo[b] EXCEPT !.refs = left(b), !.handle = @ /\ b \notin closed]
      BY <1>1, <2>16, ZenonT(20)
    <3>2. /\ bo'[b].refs = left(b) /\ (bo'[b].handle <=> bo[b].handle /\ b \notin closed)
          /\ bo'[b].handle \in BOOLEAN /\ bo'[b].owner = bo[b].owner
      BY <2>1, <3>1, ZenonT(20) DEF BoRec
    <3>3. left(b) \in Nat
      BY <2>1, <2>10, <2>11, <2>12, <2>16
    <3>4. bo'[b] \in BoRec
      BY <2>1, <3>1, <3>3, ZenonT(20) DEF BoRec
    <3>5. Handle(b)' = Handle(b) - c(b)
      BY <2>11, <2>13, <2>14, <3>2
    <3> QED
      BY <2>12, <3>2, <3>4, <3>5
  <2> QED
    BY <2>15, <2>16
<1>3. bo' = [b \in Bos |-> bo'[b]]
  BY ZenonT(20) DEF ReleaseBos
<1> QED
  BY <1>2, <1>3 DEF BoCounts

\* A framebuffer whose user goes unless k.
UserOut(r, k) == [r EXCEPT !.user = @ /\ k]

\* The fields of such a framebuffer.
LEMMA UserOutFields ==
  ASSUME NEW r \in FbRec, NEW k \in BOOLEAN
  PROVE  /\ UserOut(r, k) \in FbRec /\ (UserOut(r, k).user <=> r.user /\ k)
         /\ UserOut(r, k).refs = r.refs /\ UserOut(r, k).bo = r.bo /\ UserOut(r, k).owner = r.owner
BY DEF UserOut, FbRec

\* A free framebuffer has no user to lose.
LEMMA UserOutFree ==
  ASSUME NEW k \in BOOLEAN
  PROVE  UserOut(FreeFb, k) = FreeFb
<1>1. (FreeFb.user /\ k) = FALSE
  BY DEF FreeFb
<1>2. UserOut(FreeFb, k) = [FreeFb EXCEPT !.user = FALSE]
  BY <1>1, ZenonT(20) DEF UserOut
<1> DEFINE r == [FreeFb EXCEPT !.user = FALSE]
<1>3. /\ r \in FbRec /\ r.user = FALSE /\ r.refs = FreeFb.refs /\ r.bo = FreeFb.bo
      /\ r.owner = FreeFb.owner
  BY FreeFields, ZenonT(20) DEF FbRec
<1> HIDE DEF r
<1>4. r = FreeFb
  BY <1>3, FreeFields DEF FbRec
<1> QED
  BY <1>2, <1>4 DEF r

\* What ReleaseFbs leaves of a framebuffer.
LEMMA ReleasedFields ==
  ASSUME Tables, NEW drop, NEW f \in Fbs, drop[f] \in Nat
  PROVE  /\ ReleaseFbs(drop)[f] \in FbRec
         /\ fb[f].refs <= drop[f] => ReleaseFbs(drop)[f] = FreeFb
         /\ fb[f].refs > drop[f] =>
              /\ ReleaseFbs(drop)[f].refs = fb[f].refs - drop[f] /\ ReleaseFbs(drop)[f].user = fb[f].user
              /\ ReleaseFbs(drop)[f].bo = fb[f].bo /\ ReleaseFbs(drop)[f].owner = fb[f].owner
<1>1. fb[f] \in FbRec /\ fb[f].refs \in Nat
  BY Fields
<1>2. CASE fb[f].refs <= drop[f]
  <2>1. ReleaseFbs(drop)[f] = FreeFb
    BY <1>2 DEF ReleaseFbs
  <2> QED
    BY <1>1, <1>2, <2>1, FreeFields
<1>3. CASE ~ (fb[f].refs <= drop[f])
  <2> DEFINE n == fb[f].refs - drop[f]
  <2>1. ReleaseFbs(drop)[f] = [fb[f] EXCEPT !.refs = n]
    BY <1>3 DEF ReleaseFbs
  <2>2. n \in Nat
    BY <1>1, <1>3
  <2> HIDE DEF n
  <2>3. /\ ReleaseFbs(drop)[f] \in FbRec
        /\ ReleaseFbs(drop)[f].refs = n /\ ReleaseFbs(drop)[f].user = fb[f].user
        /\ ReleaseFbs(drop)[f].bo = fb[f].bo /\ ReleaseFbs(drop)[f].owner = fb[f].owner
    BY <1>1, <2>1, <2>2 DEF FbRec
  <2> USE DEF n
  <2> QED
    BY <1>3, <2>3
<1> QED
  BY <1>2, <1>3

\* So it is after the drops, with its user gone if the user is in U.
LEMMA AfterRelease ==
  ASSUME Tables, NEW drop, NEW f \in Fbs, drop[f] \in Nat, NEW U, NEW k \in BOOLEAN,
         fb[f].user => (k <=> f \notin U),
         fb'[f] = UserOut(ReleaseFbs(drop)[f], k)
  PROVE  fb'[f] \in FbRec /\ FbAfter(drop, U, f)
<1> DEFINE r == ReleaseFbs(drop)[f]
<1>1. /\ r \in FbRec /\ (fb[f].refs <= drop[f] => r = FreeFb)
      /\ fb[f].refs > drop[f] =>
            r.refs = fb[f].refs - drop[f] /\ r.user = fb[f].user /\ r.bo = fb[f].bo /\ r.owner = fb[f].owner
  BY ReleasedFields
<1> HIDE DEF r
<1>2. fb'[f] = UserOut(r, k)
  BY DEF r
<1>3. /\ fb'[f] \in FbRec /\ (fb'[f].user <=> r.user /\ k)
      /\ fb'[f].refs = r.refs /\ fb'[f].bo = r.bo /\ fb'[f].owner = r.owner
  BY <1>1, <1>2, UserOutFields
<1>4. r = FreeFb => fb'[f] = FreeFb
  BY <1>2, UserOutFree
<1> QED
  BY <1>1, <1>3, <1>4 DEF FbAfter

\* The same when no user goes.
LEMMA AfterPlain ==
  ASSUME Tables, NEW drop, NEW f \in Fbs, drop[f] \in Nat, fb'[f] = ReleaseFbs(drop)[f]
  PROVE  fb'[f] \in FbRec /\ FbAfter(drop, {}, f)
<1> DEFINE r == ReleaseFbs(drop)[f]
<1>1. /\ r \in FbRec /\ (fb[f].refs <= drop[f] => r = FreeFb)
      /\ fb[f].refs > drop[f] =>
            r.refs = fb[f].refs - drop[f] /\ r.user = fb[f].user /\ r.bo = fb[f].bo /\ r.owner = fb[f].owner
  BY ReleasedFields
<1> HIDE DEF r
<1>2. fb'[f] = r
  BY DEF r
<1> QED
  BY <1>1, <1>2 DEF FbAfter

-----------------------------------------------------------------------------
(* What completion and taking planes off do to the counts                  *)

\* No plane of no commit shows anything.
LEMMA NoCommitHolds ==
  ASSUME NEW f \in Fbs
  PROVE  Holds(NoCommit, Planes, f) = 0
<1>1. \A p \in Planes : NoCommit[p] # f
  BY KmsAssumption DEF NoCommit
<1> QED
  BY <1>1, HoldsNone

\* Completion moves the references of the commit to the screen.
LEMMA ShownHolds ==
  ASSUME Tables, NEW f \in Fbs
  PROVE  Holds(cur, pmask, f) + Holds(Shown(pst), Planes, f) = Holds(cur, Planes, f) + Holds(pst, Planes, f)
<1> DEFINE P == pmask
           Q == Planes \ pmask
           t == Shown(pst)
<1>1. P \in SUBSET Planes /\ Q \in SUBSET Planes
  BY DEF pmask
<1>2. /\ \A p \in P : t[p] = pst[p]
      /\ \A p \in Q : t[p] = cur[p] /\ pst[p] = Keep
  BY DEF pmask, Shown
<1> HIDE DEF t
<1>3. Holds(t, P, f) = Holds(pst, P, f)
  <2>1. \A p \in P : t[p] = f <=> pst[p] = f
    BY <1>2
  <2> QED
    BY <2>1, HoldsSame
<1>4. Holds(t, Q, f) = Holds(cur, Q, f)
  <2>1. \A p \in Q : t[p] = f <=> cur[p] = f
    BY <1>2
  <2> QED
    BY <2>1, HoldsSame
<1>5. Holds(pst, Q, f) = 0
  <2>1. \A p \in Q : pst[p] # f
    BY <1>2, KmsAssumption
  <2> QED
    BY <2>1, HoldsNone
<1>6. /\ Holds(t, Planes, f) = Holds(t, P, f) + Holds(t, Q, f)
      /\ Holds(cur, Planes, f) = Holds(cur, P, f) + Holds(cur, Q, f)
      /\ Holds(pst, Planes, f) = Holds(pst, P, f) + Holds(pst, Q, f)
  BY <1>1, HoldsSplit
<1>7. /\ Holds(cur, P, f) \in Nat /\ Holds(cur, Q, f) \in Nat
      /\ Holds(pst, P, f) \in Nat
  BY <1>1, HoldsNat, ZenonT(20)
<1> HIDE DEF P, Q
<1>8. Holds(cur, P, f) + Holds(t, Planes, f) = Holds(cur, Planes, f) + Holds(pst, Planes, f)
  BY ONLY <1>3, <1>4, <1>5, <1>6, <1>7
<1> QED
  BY <1>8 DEF P, t

\* Planes taken off drop exactly what they showed.
LEMMA WithoutHolds ==
  ASSUME NEW s, NEW S \in SUBSET Planes, NEW f \in Fbs
  PROVE  Holds(s, S, f) + Holds(Without(s, S), Planes, f) = Holds(s, Planes, f)
<1> DEFINE Q == Planes \ S
           t == Without(s, S)
<1>1. Q \in SUBSET Planes
  OBVIOUS
<1>2. /\ \A p \in S : t[p] = None
      /\ \A p \in Q : t[p] = s[p]
  BY DEF Without
<1> HIDE DEF t
<1>3. Holds(t, S, f) = 0
  <2>1. \A p \in S : t[p] # f
    BY <1>2, KmsAssumption
  <2> QED
    BY <2>1, HoldsNone
<1>4. Holds(t, Q, f) = Holds(s, Q, f)
  <2>1. \A p \in Q : t[p] = f <=> s[p] = f
    BY <1>2
  <2> QED
    BY <2>1, HoldsSame
<1>5. /\ Holds(t, Planes, f) = Holds(t, S, f) + Holds(t, Q, f)
      /\ Holds(s, Planes, f) = Holds(s, S, f) + Holds(s, Q, f)
  BY HoldsSplit
<1>6. Holds(s, S, f) \in Nat /\ Holds(s, Q, f) \in Nat
  BY <1>1, HoldsNat, ZenonT(20)
<1> HIDE DEF Q
<1>7. Holds(s, S, f) + Holds(t, Planes, f) = Holds(s, Planes, f)
  BY ONLY <1>3, <1>4, <1>5, <1>6
<1> QED
  BY <1>7 DEF t

-----------------------------------------------------------------------------
(* The counts through every step                                           *)

\* Steps that move no reference.
LEMMA CountSame ==
  ASSUME CountInv, UNCHANGED <<bo, fb, cur, pst>>, pend' \in {"none", "fence", "armed"},
         pend' = "none" <=> pend = "none"
  PROVE  CountInv'
<1>1. Tables'
  BY DEF CountInv, Tables
<1>2. FbFree' /\ FbCounts'
  BY DEF CountInv, FbFree, FbCounts, User, Shows
<1>3. BoCounts'
  BY DEF CountInv, BoCounts, Handle, FbsOf
<1> QED
  BY <1>1, <1>2, <1>3 DEF CountInv

\* CREATE_DUMB: a free buffer has no framebuffer, its handle is its reference.
LEMMA CountCreateDumb ==
  ASSUME CountInv, NEW c \in Clients, NEW b \in Bos, CreateDumb(c, b)
  PROVE  CountInv'
<1> DEFINE new == [owner |-> c, handle |-> TRUE, refs |-> 1]
<1>1. bo[b] = FreeBo /\ bo' = [bo EXCEPT ![b] = new] /\ UNCHANGED <<fb, cur, pst, pend>>
  BY DEF CreateDumb, crtc
<1>2. new \in BoRec /\ new.handle = TRUE /\ new.refs = 1
  BY DEF BoRec
<1> HIDE DEF new
<1>3. bo \in [Bos -> BoRec]
  BY DEF CountInv, Tables
<1>4. bo' \in [Bos -> BoRec]
  BY <1>1, <1>2, <1>3
<1>5. Tables' /\ FbFree' /\ FbCounts'
  BY <1>1, <1>4 DEF CountInv, Tables, FbFree, FbCounts, User, Shows
<1>6. ASSUME NEW d \in Bos
      PROVE  bo'[d].refs = Handle(d)' + Cardinality(FbsOf(d)')
  <2>1. FbsOf(d)' = FbsOf(d)
    BY <1>1 DEF FbsOf
  <2>2. bo[d].refs = Handle(d) + Cardinality(FbsOf(d))
    BY DEF CountInv, BoCounts
  <2>3. CASE d = b
    <3>1. bo'[b] = new
      BY <1>1, <1>3
    <3>2. bo[b].refs = 0 /\ Handle(b) = 0
      BY <1>1, FreeFields DEF Handle
    <3>3. FbsOf(b) \in SUBSET Fbs
      BY DEF FbsOf
    <3>4. Cardinality(FbsOf(b)) \in Nat
      BY <3>3, FbsFinite
    <3>5. Handle(b)' = 1
      BY <1>2, <3>1 DEF Handle
    <3> QED
      BY <1>2, <2>1, <2>2, <2>3, <3>1, <3>2, <3>4, <3>5
  <2>4. CASE d # b
    <3>1. bo'[d] = bo[d]
      BY <1>1, <1>3, <2>4
    <3> QED
      BY <2>1, <2>2, <3>1 DEF Handle
  <2> QED
    BY <2>3, <2>4
<1> QED
  BY <1>5, <1>6 DEF CountInv, BoCounts

\* DESTROY_DUMB: the handle goes, the framebuffers keep their references.
LEMMA CountDestroyDumb ==
  ASSUME CountInv, NEW c \in Clients, NEW b \in Bos, DestroyDumb(c, b)
  PROVE  CountInv'
<1> DEFINE drop == [f \in Fbs |-> 0]
<1>1. bo[b].handle /\ bo' = ReleaseBos(drop, {b}) /\ UNCHANGED <<fb, cur, pst, pend>>
  BY DEF DestroyDumb, crtc
<1>2. fb' \in [Fbs -> FbRec] /\ fb \in [Fbs -> FbRec]
  BY <1>1 DEF CountInv, Tables
<1>3. ASSUME NEW f \in Fbs
      PROVE  drop[f] = 0 /\ drop[f] \in Nat
  OBVIOUS
<1> HIDE DEF drop
<1>4. ASSUME NEW f \in Fbs
      PROVE  FbAfter(drop, {}, f)
  <2>1. fb'[f] = fb[f] /\ fb[f].refs \in Nat /\ fb[f].user \in BOOLEAN
    BY <1>1, Fields DEF CountInv
  <2>2. fb[f].refs <= drop[f] => fb'[f] = FreeFb
    BY <1>3, <2>1 DEF CountInv, FbFree
  <2> QED
    BY <1>3, <2>1, <2>2 DEF FbAfter
<1>5. bo' \in [Bos -> BoRec] /\ BoCounts'
  <2> DEFINE closed == {b}
  <2>1. \A d \in closed : d \in Bos /\ bo[d].handle
    BY <1>1
  <2>2. bo' = ReleaseBos(drop, closed)
    BY <1>1
  <2>3. \A f \in Fbs : drop[f] \in Nat /\ FbAfter(drop, {}, f)
    BY <1>3, <1>4
  <2> HIDE DEF closed
  <2> QED
    BY <1>2, <2>1, <2>2, <2>3, BosReleased, ZenonT(20)
<1>6. Tables' /\ FbFree' /\ FbCounts'
  BY <1>1, <1>5, ZenonT(20) DEF CountInv, Tables, FbFree, FbCounts, User, Shows
<1> QED
  BY <1>5, <1>6 DEF CountInv

\* ADDFB: a free framebuffer is shown nowhere; it takes one of its buffer.
LEMMA CountAddFb ==
  ASSUME CountInv, NEW c \in Clients, NEW f \in Fbs, NEW b \in Bos, AddFb(c, f, b)
  PROVE  CountInv'
<1> DEFINE new == [owner |-> c, user |-> TRUE, refs |-> 1, bo |-> b]
           n == bo[b].refs + 1
<1>1. /\ fb[f] = FreeFb /\ fb' = [fb EXCEPT ![f] = new]
      /\ bo' = [bo EXCEPT ![b].refs = n] /\ UNCHANGED <<cur, pst, pend>>
  BY DEF AddFb, crtc
<1>2. new \in FbRec /\ new.user = TRUE /\ new.refs = 1 /\ new.bo = b
  BY DEF FbRec
<1> HIDE DEF new
<1>3. bo \in [Bos -> BoRec] /\ fb \in [Fbs -> FbRec] /\ bo[b] \in BoRec /\ bo[b].refs \in Nat
  BY Fields DEF CountInv, Tables
<1>4. n \in Nat /\ n = bo[b].refs + 1
  BY <1>3
<1> HIDE DEF n
<1>5. /\ bo'[b] \in BoRec /\ bo'[b].refs = n /\ bo'[b].handle = bo[b].handle
      /\ bo' \in [Bos -> BoRec] /\ \A d \in Bos : d # b => bo'[d] = bo[d]
  <2>1. bo'[b] = [bo[b] EXCEPT !.refs = n] /\ \A d \in Bos : d # b => bo'[d] = bo[d]
    BY <1>1, <1>3
  <2>2. bo'[b] \in BoRec /\ bo'[b].refs = n /\ bo'[b].handle = bo[b].handle
    BY <1>3, <1>4, <2>1 DEF BoRec
  <2>3. \A d \in Bos : bo'[d] \in BoRec
    BY <1>3, <2>1, <2>2
  <2>4. bo' = [d \in Bos |-> bo'[d]]
    BY <1>1, <1>3, ZenonT(20)
  <2> QED
    BY <2>1, <2>2, <2>3, <2>4
<1>6. fb'[f] = new /\ fb' \in [Fbs -> FbRec] /\ \A g \in Fbs : g # f => fb'[g] = fb[g]
  BY <1>1, <1>2, <1>3
<1>7. Tables'
  BY <1>1, <1>5, <1>6 DEF CountInv, Tables
<1>8. ASSUME NEW g \in Fbs
      PROVE  /\ fb'[g].refs = 0 => fb'[g] = FreeFb
             /\ fb'[g].refs > 0 => fb'[g].bo \in Bos
             /\ fb'[g].refs = User(g)' + Shows(g)'
  <2>1. Shows(g)' = Shows(g)
    BY <1>1 DEF Shows
  <2>2. fb[g].refs = User(g) + Shows(g)
    BY DEF CountInv, FbCounts
  <2>3. CASE g = f
    <3>1. fb[f].refs = 0 /\ User(f) = 0
      BY <1>1, FreeFields DEF User
    <3>2. Shows(f) \in Nat
      BY HoldsPlanes DEF Shows
    <3>3. User(f)' = 1
      BY <1>2, <1>6 DEF User
    <3>4. Shows(f) = 0
      BY <2>2, <2>3, <3>1, <3>2
    <3> QED
      BY <1>2, <1>6, <2>1, <2>3, <3>3, <3>4
  <2>4. CASE g # f
    <3>1. fb'[g] = fb[g]
      BY <1>6, <2>4
    <3> QED
      BY <2>1, <2>2, <3>1 DEF CountInv, FbFree, User
  <2> QED
    BY <2>3, <2>4
<1>9. ASSUME NEW d \in Bos
      PROVE  bo'[d].refs = Handle(d)' + Cardinality(FbsOf(d)')
  <2>1. bo[d].refs = Handle(d) + Cardinality(FbsOf(d))
    BY DEF CountInv, BoCounts
  <2>2. FbsOf(d) \in SUBSET Fbs
    BY DEF FbsOf
  <2>3. IsFiniteSet(FbsOf(d)) /\ Cardinality(FbsOf(d)) \in Nat /\ Handle(d) \in 0 .. 1
    BY <2>2, FbsFinite, Fields DEF CountInv
  <2>4. fb[f].bo = None /\ None \notin Bos
    BY <1>1, FreeFields, KmsAssumption
  <2>5. CASE d = b
    <3>1. FbsOf(b)' = FbsOf(b) \cup {f} /\ f \notin FbsOf(b)
      BY <1>2, <1>6, <2>4 DEF FbsOf
    <3>2. Cardinality(FbsOf(b) \cup {f}) = Cardinality(FbsOf(b)) + 1
      BY <2>3, <2>5, <3>1, FS_AddElement, ZenonT(20)
    <3>3. Handle(b)' = Handle(b)
      BY <1>5 DEF Handle
    <3> QED
      BY <1>4, <1>5, <2>1, <2>3, <2>5, <3>1, <3>2, <3>3
  <2>6. CASE d # b
    <3>1. FbsOf(d)' = FbsOf(d)
      BY <1>2, <1>6, <2>4, <2>6 DEF FbsOf
    <3>2. bo'[d] = bo[d]
      BY <1>5, <2>6
    <3> QED
      BY <2>1, <3>1, <3>2 DEF Handle
  <2> QED
    BY <2>5, <2>6
<1>10. FbFree' /\ FbCounts'
  BY <1>8 DEF FbFree, FbCounts
<1>11. BoCounts'
  BY <1>9 DEF BoCounts
<1> QED
  BY <1>7, <1>10, <1>11 DEF CountInv

\* Dropping references keeps every count.
LEMMA Released ==
  ASSUME CountInv, NEW drop, NEW U, NEW closed, fb' = [f \in Fbs |-> fb'[f]],
         \A f \in Fbs : f \in U => fb[f].user,
         \A f \in Fbs : drop[f] \in Nat,
         \A f \in Fbs : drop[f] + Shows(f)' = (IF f \in U THEN 1 ELSE 0) + Shows(f),
         \A f \in Fbs : fb'[f] \in FbRec /\ FbAfter(drop, U, f),
         \A b \in closed : b \in Bos /\ bo[b].handle,
         bo' = ReleaseBos(drop, closed),
         cur' \in [Planes -> Fbs \cup {None}], pst' \in [Planes -> Fbs \cup {None, Keep}],
         pend' \in {"none", "fence", "armed"}, pend' = "none" <=> pst' = NoCommit
  PROVE  CountInv'
<1>1. fb' \in [Fbs -> FbRec]
  OBVIOUS
<1>2. FbFree' /\ FbCounts'
  BY <1>1, FbsReleased
<1>3. bo' \in [Bos -> BoRec] /\ BoCounts'
  BY <1>1, BosReleased, ZenonT(20)
<1>4. NoCommit' = NoCommit
  BY DEF NoCommit
<1>5. Tables'
  BY <1>1, <1>3, <1>4 DEF Tables
<1> QED
  BY <1>2, <1>3, <1>5 DEF CountInv

\* complete(): what was on screen goes, what was pending is on screen.
LEMMA CountComplete ==
  ASSUME CountInv, Complete
  PROVE  CountInv'
<1> DEFINE drop == Outgoing
           t == Shown(pst)
<1>1. /\ cur' = t /\ fb' = ReleaseFbs(drop) /\ bo' = ReleaseBos(drop, {})
      /\ pend' = "none" /\ pst' = NoCommit
  BY DEF Complete, Release, Settle
<1>2. Tables
  BY DEF CountInv
<1>3. pmask \in SUBSET Planes
  BY DEF pmask
<1>4. ASSUME NEW f \in Fbs
      PROVE  drop[f] \in Nat /\ drop[f] + Shows(f)' = Shows(f)
  <2>1. drop[f] = Holds(cur, pmask, f)
    BY DEF Outgoing
  <2>2. Holds(cur, pmask, f) \in Nat
    BY <1>3, HoldsNat, ZenonT(20)
  <2>3. Holds(cur, pmask, f) + Holds(t, Planes, f) = Holds(cur, Planes, f) + Holds(pst, Planes, f)
    BY <1>2, ShownHolds
  <2>4. Holds(pst', Planes, f) = 0
    BY <1>1, NoCommitHolds
  <2>5. Holds(cur', Planes, f) = Holds(t, Planes, f) /\ Holds(t, Planes, f) \in Nat
    BY <1>1, HoldsPlanes
  <2> HIDE DEF t, drop
  <2> QED
    BY <2>1, <2>2, <2>3, <2>4, <2>5 DEF Shows
<1>5. t \in [Planes -> Fbs \cup {None}]
  BY <1>2 DEF Tables, Shown
<1>6. fb' = [f \in Fbs |-> fb'[f]] /\ \A f \in Fbs : fb'[f] = ReleaseFbs(drop)[f]
  BY <1>1 DEF ReleaseFbs
<1>7. NoCommit \in [Planes -> Fbs \cup {None, Keep}]
  BY DEF NoCommit
<1> HIDE DEF t, drop
<1>8. \A f \in Fbs : fb'[f] \in FbRec /\ FbAfter(drop, {}, f)
  BY <1>2, <1>4, <1>6, AfterPlain
<1>9. ASSUME NEW f \in Fbs
      PROVE  drop[f] + Shows(f)' = (IF f \in {} THEN 1 ELSE 0) + Shows(f)
  BY <1>4, HoldsPlanes DEF Shows
<1>10. cur' \in [Planes -> Fbs \cup {None}] /\ pst' \in [Planes -> Fbs \cup {None, Keep}]
  BY <1>1, <1>5, <1>7
<1> QED
  BY <1>1, <1>4, <1>6, <1>8, <1>9, <1>10, Released

\* RMFB: off the planes that show it, and the user's reference.
LEMMA CountRmFb ==
  ASSUME CountInv, NEW c \in Clients, NEW f \in Fbs, RmFb(c, f)
  PROVE  CountInv'
<1> DEFINE S == {p \in Planes : cur[p] = f}
           drop == [g \in Fbs |-> IF g = f THEN Cardinality(S) + 1 ELSE 0]
           t == Without(cur, S)
           U == {f}
<1>1. /\ fb[f].user /\ cur' = t /\ bo' = ReleaseBos(drop, {})
      /\ fb' = [g \in Fbs |-> [ReleaseFbs(drop)[g] EXCEPT !.user = @ /\ g # f]]
      /\ UNCHANGED <<pend, pst>>
  BY DEF RmFb
<1>2. Tables
  BY DEF CountInv
<1>3. S \in SUBSET Planes
  OBVIOUS
<1>4. Cardinality(S) = Holds(cur, S, f) /\ \A g \in Fbs : g # f => Holds(cur, S, g) = 0
  <2>1. {p \in S : cur[p] = f} = S
    OBVIOUS
  <2>2. ASSUME NEW g \in Fbs, g # f
        PROVE  Holds(cur, S, g) = 0
    <3>1. \A p \in S : cur[p] # g
      BY <2>2
    <3> QED
      BY <3>1, HoldsNone
  <2> QED
    BY <2>1, <2>2 DEF Holds
<1>5. /\ drop[f] = Holds(cur, S, f) + 1
      /\ \A g \in Fbs : g # f => drop[g] = Holds(cur, S, g) /\ drop[g] = 0
  BY <1>4
<1>6. fb' = [g \in Fbs |-> fb'[g]] /\ \A g \in Fbs : fb'[g] = UserOut(ReleaseFbs(drop)[g], g # f)
  BY <1>1 DEF UserOut
<1>7. t \in [Planes -> Fbs \cup {None}]
  BY <1>2 DEF Tables, Without
<1> HIDE DEF drop
<1>8. ASSUME NEW g \in Fbs
      PROVE  drop[g] \in Nat /\ drop[g] + Shows(g)' = (IF g \in U THEN 1 ELSE 0) + Shows(g)
  <2>1. Holds(cur, S, g) \in Nat
    BY <1>3, HoldsNat, ZenonT(20)
  <2>2. Holds(cur, S, g) + Holds(t, Planes, g) = Holds(cur, Planes, g)
    BY <1>3, WithoutHolds
  <2>3. Holds(cur', Planes, g) = Holds(t, Planes, g) /\ Holds(t, Planes, g) \in Nat
    BY <1>1, HoldsPlanes
  <2>4. Holds(pst', Planes, g) = Holds(pst, Planes, g) /\ Holds(pst, Planes, g) \in Nat
    BY <1>1, HoldsPlanes
  <2> HIDE DEF t, S
  <2>5. CASE g = f
    BY <1>5, <2>1, <2>2, <2>3, <2>4, <2>5 DEF Shows
  <2>6. CASE g # f
    BY <1>5, <2>1, <2>2, <2>3, <2>4, <2>6 DEF Shows
  <2> QED
    BY <2>5, <2>6
<1> HIDE DEF t, S
<1>9. ASSUME NEW g \in Fbs
      PROVE  fb'[g] \in FbRec /\ FbAfter(drop, U, g)
  <2> DEFINE k == g # f
  <2>1. k \in BOOLEAN /\ (k <=> g \notin U) /\ fb'[g] = UserOut(ReleaseFbs(drop)[g], k)
    BY <1>6
  <2> HIDE DEF k, U
  <2> QED
    BY <1>2, <1>8, <2>1, AfterRelease
<1>10. cur' \in [Planes -> Fbs \cup {None}] /\ pst' \in [Planes -> Fbs \cup {None, Keep}]
  BY <1>1, <1>2, <1>7 DEF Tables
<1>11. pend' \in {"none", "fence", "armed"} /\ (pend' = "none" <=> pst' = NoCommit)
  BY <1>1, <1>2 DEF Tables
<1>12. \A g \in Fbs : g \in U => fb[g].user
  BY <1>1
<1> DEFINE closed == {}
<1>13. bo' = ReleaseBos(drop, closed) /\ \A b \in closed : b \in Bos /\ bo[b].handle
  BY <1>1
<1> HIDE DEF U, closed
<1> QED
  BY <1>6, <1>8, <1>9, <1>10, <1>11, <1>12, <1>13, Released, ZenonT(20)

\* client_close: the client's commit, its planes, its framebuffers, its handles.
LEMMA CountClose ==
  ASSUME CountInv, NEW c \in Clients, Close(c)
  PROVE  CountInv'
<1> DEFINE now == Now(c)
           S == PlanesOf(now, c)
           t == Without(now, S)
           settled == Mine(c) /\ pend = "armed"
           rel(f) == IF ~ Mine(c) THEN 0 ELSE IF settled THEN Outgoing[f] ELSE ReleasedIncoming[f]
           u(f) == IF fb[f].owner = c /\ fb[f].user THEN 1 ELSE 0
           drop == [f \in Fbs |-> rel(f) + Holds(now, S, f) + u(f)]
           U == {f \in Fbs : fb[f].owner = c /\ fb[f].user}
           closed == {b \in Bos : bo[b].owner = c /\ bo[b].handle}
<1>1. /\ cur' = t /\ bo' = ReleaseBos(drop, closed)
      /\ fb' = [f \in Fbs |-> [ReleaseFbs(drop)[f] EXCEPT !.user = @ /\ fb[f].owner # c]]
      /\ IF Mine(c) THEN Settle ELSE UNCHANGED <<pend, pst>>
  BY DEF Close
<1>2. Tables
  BY DEF CountInv
<1>3. S \in SUBSET Planes
  BY DEF PlanesOf
<1>4. ASSUME NEW f \in Fbs
      PROVE  rel(f) \in Nat /\ rel(f) + Holds(now, Planes, f) + Holds(pst', Planes, f) = Shows(f)
  <2>1. /\ Holds(cur, Planes, f) \in Nat /\ Holds(pst, Planes, f) \in Nat
        /\ Holds(Shown(pst), Planes, f) \in Nat
    BY HoldsPlanes
  <2>2. CASE ~ Mine(c)
    <3>1. rel(f) = 0 /\ now = cur /\ pst' = pst
      BY <1>1, <2>2 DEF Now
    <3> HIDE DEF rel, now
    <3> QED
      BY <2>1, <3>1 DEF Shows
  <2>3. CASE settled
    <3>1. rel(f) = Holds(cur, pmask, f) /\ now = Shown(pst) /\ pst' = NoCommit
      BY <1>1, <2>3 DEF Now, Outgoing, Settle
    <3>2. pmask \in SUBSET Planes
      BY DEF pmask
    <3>3. Holds(cur, pmask, f) \in Nat
      BY <3>2, HoldsNat, ZenonT(20)
    <3>4. Holds(NoCommit, Planes, f) = 0
      BY NoCommitHolds
    <3>5. Holds(cur, pmask, f) + Holds(Shown(pst), Planes, f) = Holds(cur, Planes, f) + Holds(pst, Planes, f)
      BY <1>2, ShownHolds
    <3> HIDE DEF rel, now
    <3> QED
      BY <2>1, <3>1, <3>3, <3>4, <3>5 DEF Shows
  <2>4. CASE Mine(c) /\ ~ settled
    <3>1. rel(f) = Holds(pst, Planes, f) /\ now = cur /\ pst' = NoCommit
      BY <1>1, <2>4 DEF Now, ReleasedIncoming, Settle
    <3>2. Holds(NoCommit, Planes, f) = 0
      BY NoCommitHolds
    <3> HIDE DEF rel, now
    <3> QED
      BY <2>1, <3>1, <3>2 DEF Shows
  <2> QED
    BY <2>2, <2>3, <2>4
<1>5. \A f \in Fbs : drop[f] = rel(f) + Holds(now, S, f) + u(f)
  OBVIOUS
<1>6. \A f \in Fbs : u(f) = IF f \in U THEN 1 ELSE 0
  OBVIOUS
<1>7. now \in [Planes -> Fbs \cup {None}]
  BY <1>2 DEF Now, Tables, Shown
<1>8. t \in [Planes -> Fbs \cup {None}]
  BY <1>7 DEF Without
<1>9. fb' = [f \in Fbs |-> fb'[f]] /\ \A f \in Fbs : fb'[f] = UserOut(ReleaseFbs(drop)[f], fb[f].owner # c)
  BY <1>1 DEF UserOut
<1>10. \A f \in Fbs : f \in U <=> fb[f].owner = c /\ fb[f].user
  OBVIOUS
<1>11. \A b \in closed : b \in Bos /\ bo[b].handle
  OBVIOUS
<1>12. /\ pst' \in [Planes -> Fbs \cup {None, Keep}]
       /\ pend' \in {"none", "fence", "armed"} /\ (pend' = "none" <=> pst' = NoCommit)
  BY <1>1, <1>2 DEF Tables, Settle, NoCommit
<1>13. cur' \in [Planes -> Fbs \cup {None}]
  BY <1>1, <1>8
<1> HIDE DEF drop, rel, u, U, closed, S, now
<1>14. ASSUME NEW f \in Fbs
       PROVE  drop[f] \in Nat /\ drop[f] + Shows(f)' = (IF f \in U THEN 1 ELSE 0) + Shows(f)
  <2>1. Holds(now, S, f) \in Nat
    BY <1>3, HoldsNat, ZenonT(20)
  <2>2. Holds(now, S, f) + Holds(t, Planes, f) = Holds(now, Planes, f)
    BY <1>3, WithoutHolds
  <2>3. Holds(cur', Planes, f) = Holds(t, Planes, f) /\ Holds(t, Planes, f) \in Nat
    BY <1>1, HoldsPlanes
  <2>4. Holds(pst', Planes, f) \in Nat
    BY HoldsPlanes
  <2>5. u(f) \in Nat /\ u(f) = IF f \in U THEN 1 ELSE 0
    BY <1>6
  <2>6. rel(f) \in Nat /\ rel(f) + Holds(now, Planes, f) + Holds(pst', Planes, f) = Shows(f)
    BY <1>4
  <2>7. Shows(f)' = Holds(cur', Planes, f) + Holds(pst', Planes, f)
    BY DEF Shows
  <2>8. drop[f] = rel(f) + Holds(now, S, f) + u(f)
    BY <1>5
  <2> HIDE DEF t
  <2>9. drop[f] \in Nat /\ drop[f] + Shows(f)' = u(f) + Shows(f)
    BY ONLY <2>1, <2>2, <2>3, <2>4, <2>5, <2>6, <2>7, <2>8
  <2> QED
    BY <2>5, <2>9
<1>15. ASSUME NEW f \in Fbs
       PROVE  fb'[f] \in FbRec /\ FbAfter(drop, U, f)
  <2> DEFINE k == fb[f].owner # c
  <2>1. k \in BOOLEAN /\ (fb[f].user => (k <=> f \notin U)) /\ fb'[f] = UserOut(ReleaseFbs(drop)[f], k)
    BY <1>9, <1>10
  <2> HIDE DEF k
  <2> QED
    BY <1>2, <1>14, <2>1, AfterRelease
<1>16. \A f \in Fbs : f \in U => fb[f].user
  BY <1>10
<1> QED
  BY <1>1, <1>9, <1>11, <1>12, <1>13, <1>14, <1>15, <1>16, Released, ZenonT(20)

\* What commit() builds: the planes it was given, and those it carries.
Built(st, m, outside) ==
  [p \in Planes |-> IF p \in outside THEN None
                    ELSE IF p \in Carried(st, m) THEN cur[p] ELSE st[p]]

\* The commit touches only planes its client names or the mode moves.
LEMMA BuiltFields ==
  ASSUME Tables, NEW st \in States, NEW m, NEW outside \in SUBSET Carried(st, m)
  PROVE  /\ Built(st, m, outside) \in [Planes -> Fbs \cup {None, Keep}]
         /\ \A p \in Planes : /\ st[p] # Keep => Built(st, m, outside)[p] = st[p]
                              /\ Built(st, m, outside)[p] \in {st[p], cur[p], None}
<1> DEFINE s == Built(st, m, outside)
<1>1. \A p \in Planes : s[p] = IF p \in outside THEN None
                                ELSE IF p \in Carried(st, m) THEN cur[p] ELSE st[p]
  BY DEF Built
<1>2. \A p \in Planes : p \in Carried(st, m) => st[p] = Keep
  BY DEF Carried
<1>3. s = [p \in Planes |-> s[p]]
  BY DEF Built
<1> HIDE DEF s
<1>4. ASSUME NEW p \in Planes
      PROVE  /\ s[p] \in Fbs \cup {None, Keep}
             /\ st[p] # Keep => s[p] = st[p]
             /\ s[p] \in {st[p], cur[p], None}
  <2>1. st[p] \in Fbs \cup {None, Keep} /\ cur[p] \in Fbs \cup {None}
    BY DEF States, Tables
  <2>2. CASE p \in outside
    BY <1>1, <1>2, <2>1, <2>2
  <2>3. CASE p \notin outside /\ p \in Carried(st, m)
    BY <1>1, <1>2, <2>1, <2>3
  <2>4. CASE p \notin outside /\ p \notin Carried(st, m)
    BY <1>1, <2>1, <2>4
  <2> QED
    BY <2>2, <2>3, <2>4
<1>5. s \in [Planes -> Fbs \cup {None, Keep}]
  BY <1>3, <1>4
<1> QED
  BY <1>4, <1>5 DEF s

\* A framebuffer that takes n more references.
MoreRefs(r, n) == [r EXCEPT !.refs = @ + n]

\* Its fields.
LEMMA MoreRefsFields ==
  ASSUME NEW r \in FbRec, NEW n \in Nat
  PROVE  /\ MoreRefs(r, n) \in FbRec /\ MoreRefs(r, n).refs = r.refs + n
         /\ MoreRefs(r, n).user = r.user /\ MoreRefs(r, n).bo = r.bo /\ MoreRefs(r, n).owner = r.owner
<1> DEFINE k == r.refs + n
<1>1. k \in Nat
  BY DEF FbRec
<1>2. MoreRefs(r, n) = [r EXCEPT !.refs = k]
  BY DEF MoreRefs
<1> HIDE DEF k
<1>3. /\ MoreRefs(r, n) \in FbRec /\ MoreRefs(r, n).refs = k
      /\ MoreRefs(r, n).user = r.user /\ MoreRefs(r, n).bo = r.bo /\ MoreRefs(r, n).owner = r.owner
  BY <1>1, <1>2 DEF FbRec
<1> QED
  BY <1>3 DEF k

\* commit(): it takes one reference for each plane, on framebuffers in use.
LEMMA CountCommit ==
  ASSUME CountInv, NEW c \in Clients, NEW st \in States, NEW m, NEW g, Commit(c, st, m, g)
  PROVE  CountInv'
<1>1. PICK outside \in SUBSET Carried(st, m) :
        /\ pst' = Built(st, m, outside)
        /\ fb' = [f \in Fbs |-> [fb[f] EXCEPT !.refs = @ + Taken(Built(st, m, outside))[f]]]
        /\ TryApply(Built(st, m, outside), ModeAfter(st, m), g, lag)
  BY ZenonT(20) DEF Commit, Built
<1> DEFINE s == Built(st, m, outside)
<1>2. Tables
  BY DEF CountInv
<1>3. /\ s \in [Planes -> Fbs \cup {None, Keep}]
      /\ \A p \in Planes : (st[p] # Keep => s[p] = st[p]) /\ s[p] \in {st[p], cur[p], None}
  BY <1>2, BuiltFields
<1>4. fb' = [f \in Fbs |-> fb'[f]] /\ \A f \in Fbs : fb'[f] = MoreRefs(fb[f], Holds(s, Planes, f))
  BY <1>1 DEF MoreRefs, Taken
<1>5. pst' = s /\ pend' \in {"fence", "armed"}
  BY <1>1 DEF TryApply, ApplyUngated
<1> HIDE DEF s
<1>6. pend = "none" /\ st # NoCommit /\ Owned(c, st) /\ bo' = bo /\ cur' = cur
  BY DEF Commit
<1>7. s # NoCommit
  <2>1. \E p \in Planes : st[p] # Keep
    <3>1. st = [p \in Planes |-> st[p]]
      BY DEF States
    <3> QED
      BY <1>6, <3>1 DEF NoCommit
  <2> QED
    BY <1>3, <2>1 DEF NoCommit
<1>8. pst = NoCommit
  BY <1>2, <1>6 DEF Tables
<1>9. ASSUME NEW f \in Fbs
      PROVE  /\ Holds(s, Planes, f) \in Nat
             /\ fb'[f] \in FbRec /\ fb'[f].refs = fb[f].refs + Holds(s, Planes, f)
             /\ fb'[f].user = fb[f].user /\ fb'[f].bo = fb[f].bo /\ fb'[f].owner = fb[f].owner
  <2>1. Holds(s, Planes, f) \in Nat /\ fb[f] \in FbRec
    BY <1>2, HoldsPlanes, Fields
  <2> QED
    BY <1>4, <2>1, MoreRefsFields
<1>10. fb' \in [Fbs -> FbRec]
  BY <1>4, <1>9
<1>11. Tables'
  <2>1. NoCommit' = NoCommit
    BY DEF NoCommit
  <2> QED
    BY <1>2, <1>3, <1>5, <1>6, <1>7, <1>10, <2>1 DEF Tables
<1>12. ASSUME NEW f \in Fbs
       PROVE  /\ fb'[f].refs = 0 => fb'[f] = FreeFb
              /\ fb'[f].refs > 0 => fb'[f].bo \in Bos
              /\ fb'[f].refs = User(f)' + Shows(f)'
  <2> DEFINE n == Holds(s, Planes, f)
  <2>1. /\ fb[f].refs = User(f) + Shows(f) /\ fb[f].refs \in Nat /\ User(f) \in 0 .. 1
        /\ fb[f].user \in BOOLEAN
    BY Fields DEF CountInv, FbCounts
  <2>2. Holds(pst, Planes, f) = 0 /\ Holds(cur, Planes, f) \in Nat
    BY <1>8, NoCommitHolds, HoldsPlanes
  <2>3. n > 0 => fb[f].refs > 0
    <3>1. CASE \A p \in Planes : s[p] # f
      BY <3>1, HoldsNone
    <3>2. CASE \E p \in Planes : s[p] = f
      <4>1. PICK p \in Planes : s[p] = f
        BY <3>2
      <4>2. CASE st[p] = f
        <5>1. fb[f].user
          BY <1>6, <4>2, ZenonT(20) DEF Owned
        <5> QED
          BY <2>1, <2>2, <5>1 DEF User, Shows
      <4>3. CASE cur[p] = f
        <5>1. Planes \in SUBSET Planes
          BY ZenonT(20)
        <5>2. Holds(cur, Planes, f) > 0
          BY <4>3, <5>1, HoldsSome
        <5> QED
          BY <2>1, <2>2, <5>2 DEF Shows
      <4>4. f # None
        BY KmsAssumption
      <4> QED
        BY <1>3, <4>1, <4>2, <4>3, <4>4
    <3> QED
      BY <3>1, <3>2
  <2>4. /\ n \in Nat /\ fb'[f].refs = fb[f].refs + n /\ fb'[f].bo = fb[f].bo
        /\ fb'[f].user = fb[f].user
    BY <1>9
  <2>5. Shows(f)' = Holds(cur, Planes, f) + n
    BY <1>5, <1>6 DEF Shows
  <2>6. User(f)' = User(f) /\ Shows(f) = Holds(cur, Planes, f) + Holds(pst, Planes, f)
    BY <2>4, ZenonT(20) DEF User, Shows
  <2>7. fb'[f].refs > 0 => fb'[f].bo \in Bos
    BY <2>1, <2>3, <2>4 DEF CountInv, FbFree
  <2>8. fb'[f].refs = 0 => fb'[f] = FreeFb
    <3>1. SUFFICES ASSUME fb'[f].refs = 0
                   PROVE  fb'[f] = FreeFb
      OBVIOUS
    <3>2. fb[f].refs = 0
      BY <2>1, <2>4, <3>1
    <3>3. fb[f] = FreeFb
      BY <3>2 DEF CountInv, FbFree
    <3>4. /\ fb'[f] \in FbRec /\ fb'[f].user = FreeFb.user /\ fb'[f].bo = FreeFb.bo
          /\ fb'[f].owner = FreeFb.owner /\ fb'[f].refs = FreeFb.refs
      BY <1>9, <3>1, <3>3, FreeFields, ZenonT(20)
    <3> QED
      BY <3>4, FreeFields DEF FbRec
  <2> HIDE DEF n
  <2>9. fb'[f].refs = User(f)' + Shows(f)'
    BY <2>1, <2>2, <2>4, <2>5, <2>6
  <2> QED
    BY <2>7, <2>8, <2>9
<1>13. FbFree' /\ FbCounts'
  BY <1>12 DEF FbFree, FbCounts
<1>14. BoCounts'
  <2>1. ASSUME NEW b \in Bos
        PROVE  bo'[b].refs = Handle(b)' + Cardinality(FbsOf(b)')
    <3>1. FbsOf(b)' = FbsOf(b)
      BY <1>9 DEF FbsOf
    <3> QED
      BY <1>6, <3>1 DEF CountInv, BoCounts, Handle
  <2> QED
    BY <2>1 DEF BoCounts
<1> QED
  BY <1>11, <1>13, <1>14 DEF CountInv

\* Every step keeps the counts.
LEMMA CountNext ==
  ASSUME CountInv, [Next]_vars
  PROVE  CountInv'
<1>1. pend \in {"none", "fence", "armed"}
  BY DEF CountInv, Tables
<1>2. CASE UNCHANGED vars
  BY <1>1, <1>2, CountSame DEF vars, tables, crtc
<1>3. ASSUME NEW c \in Clients, Open(c)
      PROVE  CountInv'
  BY <1>1, <1>3, CountSame DEF Open, crtc
<1>4. ASSUME NEW c \in Clients, CommitSome(c)
      PROVE  CountInv'
  <2>1. PICK st \in States, m \in Modes \cup {Keep}, g \in SUBSET Planes : Commit(c, st, m, g)
    BY <1>4 DEF CommitSome
  <2> QED
    BY <2>1, CountCommit
<1>5. CASE OnVblank
  <2>1. CASE Complete
    BY <2>1, CountComplete
  <2>2. CASE ~ Complete
    <3>1. UNCHANGED <<bo, fb, cur, pst>> /\ pend' \in {"none", "fence", "armed"} /\ (pend' = "none" <=> pend = "none")
      BY <1>1, <1>5, <2>2, ZenonT(20) DEF OnVblank, TryApply, ApplyUngated, tables, crtc
    <3> QED
      BY <3>1, CountSame
  <2> QED
    BY <2>1, <2>2
<1>6. CASE GatePoll
  BY <1>6, CountSame DEF GatePoll, ApplyUngated, tables
<1>7. CASE ThreadSees \/ Display
  <2>1. UNCHANGED <<tables, crtc>>
    BY <1>7 DEF ThreadSees, Display, GuardBegins, FirmwareLatches, VblankComes
  <2> QED
    BY <1>1, <2>1, CountSame DEF tables, crtc
<1>8. CASE FenceSignals
  BY <1>1, <1>8, CountSame DEF FenceSignals, tables
<1> QED
  BY <1>2, <1>3, <1>4, <1>5, <1>6, <1>7, <1>8, CountClose, CountCreateDumb, CountDestroyDumb,
     CountAddFb, CountRmFb DEF Next, Request, Thread

\* The counts are right at the start.
LEMMA CountInit ==
  ASSUME Init
  PROVE  CountInv
<1>1. bo = [b \in Bos |-> FreeBo] /\ fb = [f \in Fbs |-> FreeFb] /\ pst = NoCommit /\ pend = "none"
      /\ cur = [p \in Planes |-> None]
  BY DEF Init
<1>2. Tables
  BY <1>1, FreeFields DEF Tables, NoCommit
<1>3. ASSUME NEW f \in Fbs
      PROVE  fb[f] = FreeFb /\ fb[f].refs = 0 /\ User(f) = 0 /\ Shows(f) = 0
  <2>1. \A p \in Planes : cur[p] # f
    BY <1>1, KmsAssumption
  <2>2. Holds(cur, Planes, f) = 0 /\ Holds(pst, Planes, f) = 0
    BY <1>1, <2>1, HoldsNone, NoCommitHolds
  <2> QED
    BY <1>1, <2>2, FreeFields DEF User, Shows
<1>4. ASSUME NEW b \in Bos
      PROVE  bo[b].refs = 0 /\ Handle(b) = 0 /\ Cardinality(FbsOf(b)) = 0
  <2>1. FbsOf(b) = {}
    BY <1>1, FreeFields, KmsAssumption DEF FbsOf
  <2> QED
    BY <1>1, <2>1, FreeFields, FS_EmptySet DEF Handle
<1> QED
  BY <1>2, <1>3, <1>4 DEF CountInv, FbFree, FbCounts, BoCounts

\* The reference counts hold always.
LEMMA CountAlways == Spec => []CountInv
<1>1. Init => CountInv
  BY CountInit
<1>2. CountInv /\ [Next]_vars => CountInv'
  BY CountNext
<1> QED
  BY <1>1, <1>2, PTL DEF Spec

(* The reference counts are exact, whatever the clients, the vblank thread *)
(* and the display do (kms_fb_ref, kms_fb_unref, kms_bo_unref over commit, *)
(* complete, RMFB and client_close).                                       *)
THEOREM CountsExact == Spec => []RefsExact
<1>1. CountInv => RefsExact
  <2>1. ASSUME CountInv, NEW f \in Fbs
        PROVE  /\ fb[f].refs = (IF fb[f].user THEN 1 ELSE 0) + Holds(cur, Planes, f) + Holds(pst, Planes, f)
               /\ (fb[f].refs = 0) = (fb[f] = FreeFb)
    <3>1. fb[f].refs = User(f) + Shows(f) /\ (fb[f].refs = 0 => fb[f] = FreeFb)
      BY <2>1 DEF CountInv, FbCounts, FbFree
    <3>2. Holds(cur, Planes, f) \in Nat /\ Holds(pst, Planes, f) \in Nat
      BY HoldsPlanes
    <3>3. (fb[f].refs = 0) = (fb[f] = FreeFb)
      BY <3>1, FreeFields
    <3> QED
      BY <3>1, <3>2, <3>3 DEF User, Shows
  <2>2. ASSUME CountInv, NEW b \in Bos
        PROVE  bo[b].refs = (IF bo[b].handle THEN 1 ELSE 0) + Cardinality({f \in Fbs : fb[f].bo = b})
    BY <2>2 DEF CountInv, BoCounts, Handle, FbsOf
  <2> QED
    BY <2>1, <2>2 DEF RefsExact
<1> QED
  BY <1>1, CountAlways, PTL

-----------------------------------------------------------------------------
(* What a plane shows is referenced, so its buffer stays                   *)

\* Every framebuffer on screen or in the commit is referenced.
HeldInv ==
  \A p \in Planes : /\ cur[p] \in Fbs => fb[cur[p]].refs > 0
                    /\ pst[p] \in Fbs => fb[pst[p]].refs > 0

\* ... which the counts say.
LEMMA CountHeld == CountInv => HeldInv
<1>1. SUFFICES ASSUME CountInv, NEW p \in Planes
               PROVE  /\ cur[p] \in Fbs => fb[cur[p]].refs > 0
                      /\ pst[p] \in Fbs => fb[pst[p]].refs > 0
  BY DEF HeldInv
<1>2. Planes \in SUBSET Planes
  OBVIOUS
<1>3. ASSUME NEW f \in Fbs, cur[p] = f \/ pst[p] = f
      PROVE  fb[f].refs > 0
  <2>1. fb[f].refs = User(f) + Shows(f) /\ User(f) \in 0 .. 1
    BY <1>1, Fields DEF CountInv, FbCounts
  <2>2. Holds(cur, Planes, f) \in Nat /\ Holds(pst, Planes, f) \in Nat
    BY HoldsPlanes
  <2>3. Holds(cur, Planes, f) > 0 \/ Holds(pst, Planes, f) > 0
    BY <1>2, <1>3, HoldsSome
  <2> QED
    BY <2>1, <2>2, <2>3 DEF Shows
<1> QED
  BY <1>3

\* The same after a step.
LEMMA CountHeldNext == CountInv' => HeldInv'
BY CountHeld, PTL

\* A framebuffer in use before and after a step keeps its buffer.
SameBo == \A f \in Fbs : fb[f].refs > 0 /\ fb'[f].refs > 0 => fb'[f].bo = fb[f].bo

\* A commit changes no framebuffer but its count.
LEMMA CommitBo ==
  ASSUME CountInv, NEW c, NEW st, NEW m, NEW g, Commit(c, st, m, g)
  PROVE  \A f \in Fbs : fb'[f].bo = fb[f].bo
<1>1. PICK outside \in SUBSET Carried(st, m) :
        fb' = [f \in Fbs |-> [fb[f] EXCEPT !.refs = @ + Taken(Built(st, m, outside))[f]]]
  BY ZenonT(20) DEF Commit, Built
<1>2. ASSUME NEW f \in Fbs
      PROVE  fb'[f].bo = fb[f].bo
  <2> DEFINE n == Holds(Built(st, m, outside), Planes, f)
  <2>1. fb'[f] = MoreRefs(fb[f], n)
    BY <1>1, ZenonT(20) DEF MoreRefs, Taken
  <2>2. n \in Nat /\ fb[f] \in FbRec
    BY HoldsPlanes, Fields DEF CountInv
  <2> HIDE DEF n
  <2> QED
    BY <2>1, <2>2, MoreRefsFields
<1> QED
  BY <1>2

\* Dropping references changes no framebuffer in use but its count and user.
LEMMA ReleaseBo ==
  ASSUME CountInv, NEW drop, NEW f \in Fbs, NEW k,
         fb'[f] = ReleaseFbs(drop)[f] \/ fb'[f] = UserOut(ReleaseFbs(drop)[f], k),
         fb'[f].refs > 0
  PROVE  fb'[f].bo = fb[f].bo
<1> DEFINE r == ReleaseFbs(drop)[f]
           n == fb[f].refs - drop[f]
<1>1. fb[f] \in FbRec
  BY Fields DEF CountInv
<1>2. CASE fb[f].refs <= drop[f]
  <2>1. r = FreeFb
    BY <1>2 DEF ReleaseFbs
  <2>2. fb'[f].refs = 0
    BY <2>1 DEF UserOut, FreeFb
  <2> QED
    BY <2>2
<1>3. CASE ~ (fb[f].refs <= drop[f])
  <2>1. r = [fb[f] EXCEPT !.refs = n]
    BY <1>3 DEF ReleaseFbs
  <2> HIDE DEF n
  <2>2. r.bo = fb[f].bo /\ UserOut(r, k).bo = fb[f].bo
    BY <1>1, <2>1 DEF FbRec, UserOut
  <2> QED
    BY <2>2
<1> QED
  BY <1>2, <1>3

\* Every step keeps the buffers of the framebuffers in use.
LEMMA BoStable ==
  ASSUME CountInv, [Next]_vars
  PROVE  SameBo
<1>1. CASE fb' = fb
  BY <1>1 DEF SameBo
<1>2. ASSUME NEW c \in Clients, CommitSome(c)
      PROVE  SameBo
  <2>1. PICK st \in States, m \in Modes \cup {Keep}, g \in SUBSET Planes : Commit(c, st, m, g)
    BY <1>2 DEF CommitSome
  <2>2. \A f \in Fbs : fb'[f].bo = fb[f].bo
    BY <2>1, CommitBo
  <2> QED
    BY <2>2 DEF SameBo
<1>3. ASSUME NEW c \in Clients, NEW f \in Fbs, NEW b \in Bos, AddFb(c, f, b)
      PROVE  SameBo
  <2>1. fb[f].refs = 0
    BY <1>3, FreeFields DEF AddFb
  <2>2. \A g \in Fbs : g # f => fb'[g] = fb[g]
    BY <1>3 DEF AddFb, CountInv, Tables
  <2> QED
    BY <2>1, <2>2 DEF SameBo
<1>4. CASE Complete
  <2>1. ASSUME NEW f \in Fbs
        PROVE  fb'[f] = ReleaseFbs(Outgoing)[f]
    BY <1>4 DEF Complete, Release
  <2> QED
    BY <2>1, ReleaseBo DEF SameBo
<1>5. ASSUME NEW c \in Clients, NEW f \in Fbs, RmFb(c, f)
      PROVE  SameBo
  <2> DEFINE drop == [g \in Fbs |-> IF g = f THEN Cardinality({p \in Planes : cur[p] = f}) + 1 ELSE 0]
  <2>1. ASSUME NEW g \in Fbs
        PROVE  fb'[g] = UserOut(ReleaseFbs(drop)[g], g # f)
    BY <1>5 DEF RmFb, UserOut
  <2> HIDE DEF drop
  <2> QED
    BY <2>1, ReleaseBo DEF SameBo
<1>6. ASSUME NEW c \in Clients, Close(c)
      PROVE  SameBo
  <2>1. PICK drop : fb' = [f \in Fbs |-> [ReleaseFbs(drop)[f] EXCEPT !.user = @ /\ fb[f].owner # c]]
    BY <1>6, ZenonT(20) DEF Close
  <2>2. ASSUME NEW f \in Fbs
        PROVE  fb'[f] = UserOut(ReleaseFbs(drop)[f], fb[f].owner # c)
    BY <2>1 DEF UserOut
  <2> QED
    BY <2>2, ReleaseBo DEF SameBo
<1>7. ASSUME NEW c \in Clients, NEW b \in Bos, CreateDumb(c, b) \/ DestroyDumb(c, b) \/ Open(c)
      PROVE  fb' = fb
  BY <1>7 DEF CreateDumb, DestroyDumb, Open
<1>8. ASSUME NEW c \in Clients, Open(c)
      PROVE  fb' = fb
  BY <1>8 DEF Open
<1>9. CASE Thread \/ FenceSignals \/ Display
  <2>1. Complete \/ fb' = fb
    BY <1>9 DEF Thread, ThreadSees, OnVblank, GatePoll, FenceSignals, Display, GuardBegins, FirmwareLatches,
                VblankComes, tables
  <2> QED
    BY <1>1, <1>4, <2>1
<1>10. CASE UNCHANGED vars
  BY <1>1, <1>10 DEF vars, tables
<1> QED
  BY <1>1, <1>2, <1>3, <1>5, <1>6, <1>7, <1>8, <1>9, <1>10 DEF Next, Request

-----------------------------------------------------------------------------
(* When the vblank thread keeps up                                         *)

\* A vblank is acted on before the next latch, so the thread is at most one
\* behind, and an armed commit has one or two vblanks to go.
TimeInv ==
  /\ phase \in {"early", "guard", "late"}
  /\ lag \in {0, 1} /\ got \in {0, lag}
  /\ phase = "late" => lag = 0
  /\ pend = "armed" => due \in {1, 2}

\* Arming sets one of the two targets.
LEMMA TargetValues ==
  ASSUME NEW l
  PROVE  Target(l) \in {1, 2} /\ (Target(l) = 1 => l = 0 /\ phase = "early")
BY DEF Target

\* Prompt steps keep the timing.
LEMMA TimeNext ==
  ASSUME Prompt = TRUE, TimeInv, [Next]_vars
  PROVE  TimeInv'
<1>1. CASE UNCHANGED <<phase, lag, got>> /\ (pend' = "armed" => due' \in {1, 2})
  BY <1>1 DEF TimeInv
<1>2. CASE UNCHANGED vars
  BY <1>1, <1>2 DEF vars, display, clock, crtc, TimeInv
<1>3. ASSUME NEW c \in Clients, CommitSome(c)
      PROVE  TimeInv'
  <2>1. PICK st \in States, m \in Modes \cup {Keep}, g \in SUBSET Planes : Commit(c, st, m, g)
    BY <1>3 DEF CommitSome
  <2>2. PICK s : TryApply(s, ModeAfter(st, m), g, lag)
    BY <2>1 DEF Commit
  <2>3. UNCHANGED <<lag, got>>
    BY <2>1 DEF Commit, clock
  <2>4. UNCHANGED phase /\ (pend' = "armed" => due' = Target(lag))
    BY <2>2 DEF TryApply, ApplyUngated, display
  <2> QED
    BY <1>1, <2>3, <2>4, TargetValues
<1>4. ASSUME NEW c \in Clients, Close(c)
      PROVE  TimeInv'
  <2>1. UNCHANGED <<phase, lag, got>>
    BY <1>4 DEF Close, TakenOff, clock
  <2>2. pend' = "none" \/ UNCHANGED <<pend, due>>
    BY <1>4 DEF Close, Settle
  <2> QED
    BY <1>1, <2>1, <2>2 DEF TimeInv
<1>5. ASSUME NEW c \in Clients, NEW f \in Fbs, RmFb(c, f)
      PROVE  TimeInv'
  <2>1. UNCHANGED <<phase, lag, got, pend, due>>
    BY <1>5 DEF RmFb, TakenOff, clock
  <2> QED
    BY <1>1, <2>1 DEF TimeInv
<1>6. ASSUME NEW c \in Clients, NEW b \in Bos, NEW f \in Fbs,
             Open(c) \/ CreateDumb(c, b) \/ DestroyDumb(c, b) \/ AddFb(c, f, b)
      PROVE  TimeInv'
  <2>1. UNCHANGED <<phase, lag, got, pend, due>>
    BY <1>6 DEF Open, CreateDumb, DestroyDumb, AddFb, display, clock, crtc
  <2> QED
    BY <1>1, <2>1 DEF TimeInv
<1>7. CASE ThreadSees
  BY <1>7 DEF ThreadSees, TimeInv, crtc, display
<1>8. CASE OnVblank
  <2>1. got = 1 /\ lag = 1 /\ lag' = 0 /\ got' = 0
    BY <1>8 DEF OnVblank, TimeInv
  <2>2. UNCHANGED phase
    BY <1>8 DEF OnVblank, Complete, TryApply, ApplyUngated, display
  <2>3. pend' = "armed" => due' \in {1, 2}
    <3>1. CASE Complete
      BY <3>1 DEF Complete, Settle
    <3>2. CASE pend = "armed" /\ ~ Reached(got) /\ pend' = pend /\ due' = IF due > got THEN due - got ELSE 0
      BY <2>1, <3>2 DEF TimeInv, Reached
    <3>3. CASE TryApply(pst, mode, gate, lag')
      <4>1. pend' = "armed" => due' = Target(lag')
        BY <3>3 DEF TryApply, ApplyUngated
      <4> QED
        BY <4>1, TargetValues
    <3>4. CASE pend = "none" /\ pend' = pend
      BY <3>4
    <3> QED
      BY <1>8, <3>1, <3>2, <3>3, <3>4 DEF OnVblank, crtc
  <2> QED
    BY <2>1, <2>2, <2>3 DEF TimeInv
<1>9. CASE GatePoll
  <2>1. UNCHANGED <<phase, lag, got>> /\ due' = Target(lag)
    BY <1>9 DEF GatePoll, ApplyUngated, clock
  <2> QED
    BY <1>1, <2>1, TargetValues
<1>10. CASE FenceSignals
  BY <1>10 DEF FenceSignals, TimeInv, display, clock
<1>11. CASE Display
  BY <1>11 DEF Display, GuardBegins, FirmwareLatches, VblankComes, TimeInv, crtc, clock
<1>12. ASSUME NEW c \in Clients, Open(c)
       PROVE  TimeInv'
  <2>1. UNCHANGED <<phase, lag, got, pend, due>>
    BY <1>12 DEF Open, display, clock, crtc
  <2> QED
    BY <1>1, <2>1 DEF TimeInv
<1>13. ASSUME NEW c \in Clients, NEW b \in Bos, CreateDumb(c, b) \/ DestroyDumb(c, b)
       PROVE  TimeInv'
  <2>1. UNCHANGED <<phase, lag, got, pend, due>>
    BY <1>13 DEF CreateDumb, DestroyDumb, display, clock, crtc
  <2> QED
    BY <1>1, <2>1 DEF TimeInv
<1> QED
  BY <1>2, <1>3, <1>4, <1>5, <1>6, <1>7, <1>8, <1>9, <1>10, <1>11, <1>12, <1>13 DEF Next, Request, Thread

-----------------------------------------------------------------------------
(* What the display reads                                                  *)

\* The buffer of a framebuffer, and what a plane shows and will show.
BoOf(f) == IF f = None THEN None ELSE fb[f].bo
Cur(p) == BoOf(cur[p])
Pst(p) == BoOf(pst[p])
Settled(p) == pend # "armed" \/ pst[p] = Keep
ToGo == due - lag

\* What firmware, latch and display hold of a plane.  The new picture of an
\* armed commit is latched one vblank before its target and read from it on.
Pic(p) ==
  /\ cut[p] = "no" /\ Settled(p) => fw[p].bo = Cur(p) /\ latched[p].bo = Cur(p) /\ scan[p].bo = Cur(p)
  /\ cut[p] # "cut" /\ ~ Settled(p) =>
       /\ fw[p].bo = Pst(p)
       /\ ToGo = 1 /\ phase = "late" => latched[p].bo = Pst(p)
       /\ ToGo <= 0 => latched[p].bo = Pst(p) /\ scan[p].bo = Pst(p)
  /\ cut[p] = "no" /\ ~ Settled(p) => latched[p].bo \in {Cur(p), Pst(p)} /\ scan[p].bo \in {Cur(p), Pst(p)}

PicInv == \A p \in Planes : Pic(p)

\* The image of a framebuffer is its buffer, in the mode asked for.
LEMMA ImageFields ==
  ASSUME NEW f, NEW m
  PROVE  Image(f, m).bo = BoOf(f) /\ (f # None => Image(f, m).mode = m)
<1>1. CASE f = None
  BY <1>1 DEF Image, BoOf, Off
<1>2. CASE f # None
  BY <1>2 DEF Image, BoOf
<1> QED
  BY <1>1, <1>2

\* What is referenced before and after the step keeps its buffer.
LEMMA BoOfSame ==
  ASSUME CountInv, SameBo, NEW f \in Fbs \cup {None}, f \in Fbs => fb[f].refs > 0 /\ fb'[f].refs > 0
  PROVE  BoOf(f)' = BoOf(f)
<1>1. CASE f = None
  BY <1>1 DEF BoOf
<1>2. CASE f # None
  BY <1>2 DEF BoOf, SameBo
<1> QED
  BY <1>1, <1>2

\* A plane left alone is as before.
LEMMA PicKeep ==
  ASSUME CountInv, CountInv', SameBo, NEW p \in Planes, Pic(p),
         cut'[p] # "cut" =>
           /\ cut'[p] = cut[p] /\ fw'[p] = fw[p] /\ latched'[p] = latched[p] /\ scan'[p] = scan[p]
           /\ cur'[p] = cur[p] /\ (Settled(p)' <=> Settled(p))
           /\ ~ Settled(p) => pst'[p] = pst[p] /\ ToGo' = ToGo /\ (phase' = "late" => phase = "late")
  PROVE  Pic(p)'
<1>1. CASE cut'[p] = "cut"
  BY <1>1, ZenonT(20) DEF Pic
<1>2. CASE cut'[p] # "cut"
  <2>1. HeldInv /\ HeldInv'
    BY CountHeld, CountHeldNext, ZenonT(20)
  <2>2. cur[p] \in Fbs \cup {None} /\ cur'[p] = cur[p]
    BY <1>2 DEF CountInv, Tables
  <2>3. cur[p] \in Fbs => fb[cur[p]].refs > 0 /\ fb'[cur[p]].refs > 0
    BY <2>1, <2>2, ZenonT(20) DEF HeldInv
  <2>4. Cur(p)' = Cur(p)
    <3>1. \A f : f = cur[p] => BoOf(f)' = BoOf(f)
      BY <2>2, <2>3, BoOfSame
    <3> QED
      BY <2>2, <3>1, ZenonT(20) DEF Cur, BoOf
  <2>5. CASE Settled(p)
    BY <1>2, <2>4, <2>5, ZenonT(20) DEF Pic
  <2>6. CASE ~ Settled(p)
    <3>1. pst[p] \in Fbs \cup {None} /\ pst'[p] = pst[p]
      BY <1>2, <2>6, ZenonT(20) DEF CountInv, Tables, Settled
    <3>2. pst[p] \in Fbs => fb[pst[p]].refs > 0 /\ fb'[pst[p]].refs > 0
      BY <2>1, <3>1, ZenonT(20) DEF HeldInv
    <3>3. \A f : f = pst[p] => BoOf(f)' = BoOf(f)
      BY <3>1, <3>2, BoOfSame, ZenonT(20)
    <3>4. Pst(p)' = Pst(p)
      BY <3>1, <3>3 DEF Pst, BoOf
    <3> QED
      BY <1>2, <2>4, <2>6, <3>4, ZenonT(20) DEF Pic
  <2> QED
    BY <2>5, <2>6, ZenonT(20)
<1> QED
  BY <1>1, <1>2, ZenonT(20)

\* Arming: firmware is told the new picture, latch and display still have the
\* old one, and there is at least one latch before the target.
LEMMA PicApply ==
  ASSUME CountInv, CountInv', SameBo, TimeInv', NEW s, NEW m, pend # "armed", pst' = s, cur' = cur,
         \A f \in Fbs : fb'[f].bo = fb[f].bo, ApplyUngated(s, m, lag'),
         NEW p \in Planes, Pic(p)
  PROVE  Pic(p)'
<1>1. /\ pend' = "armed" /\ due' = Target(lag') /\ UNCHANGED <<latched, scan, phase>>
  BY DEF ApplyUngated
<1>2. PICK failed \in Failures :
        /\ fw' = [q \in Planes |-> IF s[q] = Keep \/ q \in failed THEN fw[q] ELSE Image(s[q], m)]
        /\ cut' = [q \in Planes |-> IF s[q] = Keep THEN cut[q]
                                    ELSE IF q \in failed THEN "cut"
                                    ELSE IF cut[q] = "no" THEN "no" ELSE "healing"]
  BY DEF ApplyUngated
<1>3. Settled(p)
  BY DEF Settled
<1>4. CASE s[p] = Keep
  <2>1. cut'[p] = cut[p] /\ fw'[p] = fw[p]
    BY <1>2, <1>4
  <2>2. Settled(p)'
    BY <1>4, ZenonT(20) DEF Settled
  <2> QED
    BY <1>1, <1>3, <2>1, <2>2, PicKeep, ZenonT(20)
<1>5. CASE s[p] # Keep /\ p \in failed
  <2>1. cut'[p] = "cut"
    BY <1>2, <1>5
  <2> QED
    BY <2>1, ZenonT(20) DEF Pic
<1>6. CASE s[p] # Keep /\ p \notin failed
  <2>1. fw'[p] = Image(s[p], m) /\ (cut'[p] = "no" => cut[p] = "no")
    BY <1>2, <1>6, ZenonT(20)
  <2>2. ~ Settled(p)'
    BY <1>1, <1>6 DEF Settled
  <2>3. fw'[p].bo = Pst(p)'
    <3>1. fw'[p].bo = BoOf(s[p])
      BY <2>1, ImageFields
    <3>2. s[p] \in Fbs \cup {None}
      BY <1>6 DEF CountInv, Tables
    <3> QED
      BY <3>1, <3>2, ZenonT(20) DEF BoOf, Pst
  <2>4. Cur(p)' = Cur(p)
    <3>1. cur[p] \in Fbs \cup {None}
      BY ZenonT(20) DEF CountInv, Tables
    <3> QED
      BY <3>1 DEF BoOf, Cur
  <2>5. lag' \in {0, 1} /\ (phase' = "late" => lag' = 0)
    BY DEF TimeInv
  <2>6. Target(lag') \in {1, 2} /\ (Target(lag') = 1 => lag' = 0 /\ phase' = "early")
    BY <1>1, TargetValues
  <2>7. ToGo' = due' - lag'
    BY DEF ToGo
  <2>8. ~ (ToGo' <= 0) /\ ~ (ToGo' = 1 /\ phase' = "late")
    <3>1. CASE Target(lag') = 1
      BY <1>1, <2>6, <2>7, <3>1
    <3>2. CASE Target(lag') = 2
      <4>1. due' = 2
        BY <1>1, <3>2
      <4>2. CASE lag' = 0
        BY <2>7, <4>1, <4>2
      <4>3. CASE lag' = 1
        BY <2>5, <2>7, <4>1, <4>3
      <4> QED
        BY <2>5, <4>2, <4>3
    <3> QED
      BY <2>6, <3>1, <3>2, ZenonT(20)
  <2>9. cut'[p] = "no" => latched'[p].bo = Cur(p)' /\ scan'[p].bo = Cur(p)'
    BY <1>1, <1>3, <2>1, <2>4, ZenonT(20) DEF Pic
  <2> QED
    BY <2>2, <2>3, <2>8, <2>9, ZenonT(20) DEF Pic
<1> QED
  BY <1>4, <1>5, <1>6

\* At the target vblank the display reads the new picture.
LEMMA TargetOnScreen ==
  ASSUME TimeInv, got > 0, pend = "armed", Reached(got), NEW p \in pmask, Pic(p), cut[p] # "cut"
  PROVE  fw[p].bo = Pst(p) /\ latched[p].bo = Pst(p) /\ scan[p].bo = Pst(p)
<1>1. got = 1 /\ lag = 1 /\ due = 1
  BY DEF TimeInv, Reached
<1>2. ToGo <= 0
  BY <1>1 DEF ToGo
<1>3. ~ Settled(p)
  BY ZenonT(20) DEF Settled, pmask
<1> QED
  BY <1>2, <1>3 DEF Pic

\* complete()
LEMMA PicComplete ==
  ASSUME CountInv, CountInv', SameBo, TimeInv, got > 0, pend = "armed", Reached(got), Complete,
         NEW p \in Planes, Pic(p)
  PROVE  Pic(p)'
<1>1. /\ cur' = Shown(pst) /\ pend' = "none" /\ UNCHANGED <<fw, latched, scan, phase>>
      /\ cut' = [q \in Planes |-> IF q \in pmask /\ cut[q] = "healing" THEN "no" ELSE cut[q]]
  BY DEF Complete, Settle, display
<1>2. Settled(p)'
  BY <1>1 DEF Settled
<1>3. HeldInv /\ HeldInv'
  BY CountHeld, CountHeldNext
<1>4. CASE p \in pmask
  <2>1. CASE cut[p] = "cut"
    <3>1. cut'[p] = "cut"
      BY <1>1, <2>1
    <3> QED
      BY <3>1, ZenonT(20) DEF Pic
  <2>2. CASE cut[p] # "cut"
    <3>1. fw[p].bo = Pst(p) /\ latched[p].bo = Pst(p) /\ scan[p].bo = Pst(p)
      BY <1>4, <2>2, TargetOnScreen, ZenonT(20)
    <3>2. cur'[p] = pst[p] /\ pst[p] \in Fbs \cup {None}
      BY <1>1, <1>4, ZenonT(20) DEF Shown, pmask, CountInv, Tables
    <3>3. pst[p] \in Fbs => fb[pst[p]].refs > 0 /\ fb'[pst[p]].refs > 0
      BY <1>3, <3>2, ZenonT(20) DEF HeldInv
    <3>4. \A f : f = pst[p] => BoOf(f)' = BoOf(f)
      BY <3>2, <3>3, BoOfSame, ZenonT(20)
    <3>5. Cur(p)' = Pst(p)
      BY <3>2, <3>4, ZenonT(20) DEF Cur, Pst, BoOf
    <3> QED
      BY <1>1, <1>2, <3>1, <3>5, ZenonT(20) DEF Pic
  <2> QED
    BY <2>1, <2>2
<1>5. CASE p \notin pmask
  <2>1. cur'[p] = cur[p] /\ cut'[p] = cut[p] /\ Settled(p)
    BY <1>1, <1>5 DEF Shown, pmask, Settled
  <2> QED
    BY <1>1, <1>2, <2>1, PicKeep, ZenonT(20)
<1> QED
  BY <1>4, <1>5

\* The firmware takes over the plane state.
LEMMA PicLatch ==
  ASSUME CountInv, CountInv', SameBo, Prompt = TRUE, TimeInv, FirmwareLatches, NEW p \in Planes, Pic(p)
  PROVE  Pic(p)'
<1>1. /\ latched' = fw /\ lag = 0 /\ UNCHANGED <<fb, cur, pst, pend, fw, scan, due, lag, cut>>
  BY ZenonT(20) DEF FirmwareLatches, tables, crtc, clock
<1>2. Cur(p)' = Cur(p) /\ Pst(p)' = Pst(p) /\ (Settled(p)' <=> Settled(p))
  BY <1>1 DEF Cur, Pst, BoOf, Settled
<1>3. CASE Settled(p)
  BY <1>1, <1>2, <1>3, ZenonT(20) DEF Pic
<1>4. CASE ~ Settled(p)
  <2>1. due \in {1, 2}
    BY <1>4 DEF Settled, TimeInv
  <2>2. ~ (ToGo' <= 0)
    BY <1>1, <2>1 DEF ToGo
  <2> QED
    BY <1>1, <1>2, <1>4, <2>2, ZenonT(20) DEF Pic
<1> QED
  BY <1>3, <1>4

\* The display takes over what was latched.
LEMMA PicVblank ==
  ASSUME TimeInv, VblankComes, NEW p \in Planes, Pic(p)
  PROVE  Pic(p)'
<1>1. /\ scan' = latched /\ phase = "late" /\ phase' = "early" /\ lag = 0 /\ lag' = 1
      /\ UNCHANGED <<fb, cur, pst, pend, fw, latched, due, cut>>
  BY DEF VblankComes, tables, crtc, TimeInv
<1>2. Cur(p)' = Cur(p) /\ Pst(p)' = Pst(p) /\ (Settled(p)' <=> Settled(p))
  BY <1>1 DEF Cur, Pst, BoOf, Settled
<1>3. CASE Settled(p)
  BY <1>1, <1>2, <1>3, ZenonT(20) DEF Pic
<1>4. CASE ~ Settled(p)
  <2>1. due \in {1, 2}
    BY <1>4 DEF Settled, TimeInv
  <2>2. ToGo' <= 0 => ToGo = 1
    BY <1>1, <2>1 DEF ToGo
  <2> QED
    BY <1>1, <1>2, <1>4, <2>2, ZenonT(20) DEF Pic
<1> QED
  BY <1>3, <1>4

\* Outside a commit the firmware is told only of planes it marks as cut.
LEMMA OffKeeps ==
  ASSUME NEW S, NEW left, NEW back, NEW failed, TakenOff(S, left, back, failed), NEW p \in Planes,
         p \notin Disturbed(S, left, back)
  PROVE  /\ p \notin S /\ fw'[p] = fw[p] /\ UNCHANGED <<latched, scan, phase>>
         /\ back => left[p] = None /\ p \notin pmask /\ mode' = "native"
         /\ ~ back => mode' = mode
<1>1. p \notin S /\ (back => left[p] = None /\ p \notin pmask)
  BY DEF Disturbed
<1>2. fw'[p] = fw[p]
  BY <1>1 DEF TakenOff
<1> QED
  BY <1>1, <1>2 DEF TakenOff

\* RMFB leaves the planes it does not cut alone.
LEMMA RmFbKeeps ==
  ASSUME NEW c \in Clients, NEW f \in Fbs, RmFb(c, f), NEW p \in Planes, cut'[p] # "cut"
  PROVE  /\ cut'[p] = cut[p] /\ fw'[p] = fw[p] /\ cur'[p] = cur[p]
         /\ UNCHANGED <<latched, scan, phase, pend, pst, due, lag>>
         /\ mode' = mode \/ (cur'[p] = None /\ p \notin pmask)
<1> DEFINE S == {q \in Planes : cur[q] = f}
           left == Without(cur, S)
           back == BackToNative(left, pst)
<1>1. PICK failed \in Failures : TakenOff(S, left, back, failed)
  BY ZenonT(20) DEF RmFb
<1>2. /\ cur' = left /\ UNCHANGED <<pend, pst, due, lag>>
      /\ cut' = [q \in Planes |-> IF q \in Disturbed(S, left, back) THEN "cut" ELSE cut[q]]
  BY DEF RmFb, clock
<1>3. p \notin S => left[p] = cur[p]
  BY DEF Without
<1> HIDE DEF left, back, S
<1>4. p \notin Disturbed(S, left, back) /\ cut'[p] = cut[p]
  BY <1>2
<1>5. /\ p \notin S /\ fw'[p] = fw[p] /\ UNCHANGED <<latched, scan, phase>>
      /\ back => left[p] = None /\ p \notin pmask /\ mode' = "native"
      /\ ~ back => mode' = mode
  BY <1>1, <1>4, OffKeeps
<1> QED
  BY <1>2, <1>3, <1>4, <1>5

\* client_close too; a commit of the client ends.
LEMMA CloseKeeps ==
  ASSUME Tables, NEW c \in Clients, Close(c), NEW p \in Planes, cut'[p] # "cut"
  PROVE  /\ cut'[p] = cut[p] /\ fw'[p] = fw[p] /\ cur'[p] = cur[p]
         /\ UNCHANGED <<latched, scan, phase, lag>>
         /\ \/ UNCHANGED <<pend, pst, due>>
            \/ pend' = "none" /\ Settled(p)
         /\ mode' = mode \/ (cur'[p] = None /\ p \notin pmask)
<1> DEFINE settled == Mine(c) /\ pend = "armed"
           now == Now(c)
           S == PlanesOf(now, c)
           left == Without(now, S)
           back == \/ BackToNative(left, IF Mine(c) THEN NoCommit ELSE pst)
                   \/ mode # "native" /\ setter = c
<1>1. PICK failed \in Failures : TakenOff(S, left, back, failed)
  BY ZenonT(20) DEF Close
<1>2. /\ cur' = left /\ UNCHANGED lag
      /\ cut' = [q \in Planes |-> IF q \in Disturbed(S, left, back) \/ (settled /\ q \in pmask)
                                  THEN "cut" ELSE cut[q]]
  BY DEF Close, clock
<1>3. p \notin S => left[p] = now[p]
  BY DEF Without
<1>4. settled \/ now = cur
  BY DEF Now
<1>5. settled => now = Shown(pst)
  BY DEF Now
<1>6. Mine(c) => pend' = "none"
  BY DEF Close, Settle
<1>7. ~ Mine(c) => UNCHANGED <<pend, pst, due>>
  BY DEF Close
<1>8. settled <=> Mine(c) /\ pend = "armed"
  OBVIOUS
<1> HIDE DEF left, back, S, now, settled
<1>9. p \notin Disturbed(S, left, back) /\ cut'[p] = cut[p] /\ ~ (settled /\ p \in pmask)
  BY <1>2, ZenonT(20)
<1>10. /\ p \notin S /\ fw'[p] = fw[p] /\ UNCHANGED <<latched, scan, phase>>
       /\ back => left[p] = None /\ p \notin pmask /\ mode' = "native"
       /\ ~ back => mode' = mode
  BY <1>1, <1>9, OffKeeps
<1>11. now[p] = cur[p]
  BY <1>4, <1>5, <1>9 DEF Shown, pmask
<1>12. Mine(c) => Settled(p)
  BY <1>8, <1>9 DEF Settled, pmask
<1> QED
  BY <1>2, <1>3, <1>6, <1>7, <1>9, <1>10, <1>11, <1>12, ZenonT(20)

\* Every prompt step keeps the pictures.
LEMMA PicNext ==
  ASSUME Prompt = TRUE, CountInv, TimeInv, PicInv, [Next]_vars
  PROVE  PicInv'
<1>1. CountInv' /\ TimeInv' /\ SameBo
  BY CountNext, TimeNext, BoStable
<1>2. SUFFICES ASSUME NEW p \in Planes
               PROVE  Pic(p)'
  BY DEF PicInv
<1>3. Pic(p)
  BY ZenonT(20) DEF PicInv
<1>4. CASE /\ UNCHANGED <<cut, fw, latched, scan, cur, pend, pst>>
           /\ pend = "armed" => ToGo' = ToGo
           /\ phase' = "late" => phase = "late"
  <2>1. Settled(p)' <=> Settled(p)
    BY <1>4 DEF Settled
  <2>2. ~ Settled(p) => ToGo' = ToGo
    BY <1>4 DEF Settled
  <2> QED
    BY <1>1, <1>3, <1>4, <2>1, <2>2, PicKeep
<1>5. CASE UNCHANGED <<crtc, display, cut, lag>>
  BY <1>4, <1>5 DEF crtc, display, ToGo
<1>6. ASSUME NEW c \in Clients, CommitSome(c)
      PROVE  Pic(p)'
  <2>1. PICK st \in States, m \in Modes \cup {Keep}, g \in SUBSET Planes : Commit(c, st, m, g)
    BY <1>6 DEF CommitSome
  <2>2. \A f \in Fbs : fb'[f].bo = fb[f].bo
    BY <2>1, CommitBo, ZenonT(20)
  <2>3. PICK outside \in SUBSET Carried(st, m) :
          pst' = Built(st, m, outside) /\ TryApply(Built(st, m, outside), ModeAfter(st, m), g, lag)
    BY <2>1 DEF Commit, Built
  <2>4. pend = "none" /\ cur' = cur /\ lag' = lag
    BY <2>1 DEF Commit, clock
  <2>5. CASE ApplyUngated(Built(st, m, outside), ModeAfter(st, m), lag')
    BY <1>1, <1>3, <2>2, <2>3, <2>4, <2>5, PicApply, ZenonT(20)
  <2>6. CASE pend' = "fence" /\ UNCHANGED <<display, cut>>
    <3>1. Settled(p) /\ Settled(p)'
      BY <2>4, <2>6, ZenonT(20) DEF Settled
    <3> QED
      BY <1>1, <1>3, <2>4, <2>6, <3>1, PicKeep, ZenonT(20) DEF display
  <2> QED
    BY <2>3, <2>4, <2>5, <2>6, ZenonT(20) DEF TryApply
<1>7. ASSUME NEW c \in Clients, Close(c)
      PROVE  Pic(p)'
  <2>1. Tables
    BY ZenonT(20) DEF CountInv
  <2>2. cut'[p] # "cut" =>
          /\ cut'[p] = cut[p] /\ fw'[p] = fw[p] /\ cur'[p] = cur[p]
          /\ UNCHANGED <<latched, scan, phase, lag>>
          /\ \/ UNCHANGED <<pend, pst, due>>
             \/ pend' = "none" /\ Settled(p)
    BY <1>7, <2>1, CloseKeeps
  <2>3. UNCHANGED <<pend, pst>> => (Settled(p)' <=> Settled(p))
    BY DEF Settled
  <2>4. pend' = "none" => Settled(p)'
    BY DEF Settled
  <2>5. UNCHANGED <<due, lag>> => ToGo' = ToGo
    BY ZenonT(20) DEF ToGo
  <2> QED
    BY <1>1, <1>3, <2>2, <2>3, <2>4, <2>5, PicKeep
<1>8. ASSUME NEW c \in Clients, NEW f \in Fbs, RmFb(c, f)
      PROVE  Pic(p)'
  <2>1. cut'[p] # "cut" =>
          /\ cut'[p] = cut[p] /\ fw'[p] = fw[p] /\ cur'[p] = cur[p]
          /\ UNCHANGED <<latched, scan, phase, pend, pst, due, lag>>
    BY <1>8, RmFbKeeps, ZenonT(20)
  <2>2. UNCHANGED <<pend, pst>> => (Settled(p)' <=> Settled(p))
    BY DEF Settled
  <2>3. UNCHANGED <<due, lag>> => ToGo' = ToGo
    BY DEF ToGo
  <2> QED
    BY <1>1, <1>3, <2>1, <2>2, <2>3, PicKeep
<1>9. CASE OnVblank
  <2>1. CASE pend = "armed" /\ Reached(got) /\ Complete
    <3>1. got > 0
      BY <1>9 DEF OnVblank
    <3> QED
      BY <1>1, <1>3, <2>1, <3>1, PicComplete
  <2>2. CASE /\ pend = "armed" /\ ~ Reached(got)
             /\ due' = IF due > got THEN due - got ELSE 0
             /\ UNCHANGED <<tables, cur, pend, pst, pclient, gate, mode, setter, display, cut>>
    <3>1. got = 1 /\ lag = 1 /\ lag' = 0 /\ due \in {1, 2}
      BY <1>9, <2>2 DEF OnVblank, TimeInv
    <3>2. due = 2 /\ due' = 1
      BY <2>2, <3>1 DEF Reached
    <3>3. ToGo' = ToGo
      BY <3>1, <3>2 DEF ToGo
    <3> QED
      BY <1>4, <2>2, <3>3 DEF display
  <2>3. CASE /\ pend = "fence" /\ TryApply(pst, mode, gate, lag')
             /\ UNCHANGED <<tables, cur, pst, pclient, gate, mode, setter>>
    <3>1. CASE ApplyUngated(pst, mode, lag')
      BY <1>1, <1>3, <2>3, <3>1, PicApply DEF tables
    <3>2. CASE pend' = "fence" /\ UNCHANGED <<display, cut>>
      BY <1>4, <2>3, <3>2 DEF display
    <3> QED
      BY <2>3, <3>1, <3>2 DEF TryApply
  <2>4. CASE pend = "none" /\ UNCHANGED <<tables, crtc, display, cut>>
    BY <1>4, <2>4 DEF crtc, display
  <2> QED
    BY <1>9, <2>1, <2>2, <2>3, <2>4 DEF OnVblank
<1>10. CASE GatePoll
  BY <1>1, <1>3, <1>10, PicApply DEF GatePoll, tables, clock
<1>11. CASE FirmwareLatches
  BY <1>1, <1>3, <1>11, PicLatch
<1>12. CASE VblankComes
  BY <1>3, <1>12, PicVblank
<1>13. CASE GuardBegins
  BY <1>4, <1>13 DEF GuardBegins, crtc, clock, ToGo
<1>14. CASE FenceSignals
  BY <1>4, <1>14 DEF FenceSignals, display, clock, ToGo
<1>15. CASE ThreadSees
  BY <1>5, <1>15 DEF ThreadSees
<1>16. CASE UNCHANGED vars
  BY <1>5, <1>16 DEF vars, clock
<1>17. ASSUME NEW c \in Clients, Open(c)
       PROVE  Pic(p)'
  BY <1>5, <1>17 DEF Open, clock
<1>18. ASSUME NEW c \in Clients, NEW b \in Bos, CreateDumb(c, b) \/ DestroyDumb(c, b)
       PROVE  Pic(p)'
  BY <1>5, <1>18 DEF CreateDumb, DestroyDumb, clock
<1>19. ASSUME NEW c \in Clients, NEW b \in Bos, NEW f \in Fbs, AddFb(c, f, b)
       PROVE  Pic(p)'
  BY <1>5, <1>19 DEF AddFb, clock
<1> QED
  BY <1>6, <1>7, <1>8, <1>9, <1>10, <1>11, <1>12, <1>13, <1>14, <1>15, <1>16, <1>17, <1>18, <1>19
     DEF Next, Request, Thread, Display

\* Nothing is shown at the start.
LEMMA PicInit ==
  ASSUME Init
  PROVE  TimeInv /\ PicInv
<1>1. TimeInv
  BY ZenonT(20) DEF Init, TimeInv
<1>2. ASSUME NEW p \in Planes
      PROVE  Pic(p)
  <2>1. Settled(p) /\ Cur(p) = None
    BY DEF Init, Settled, Cur, BoOf
  <2>2. fw[p].bo = None /\ latched[p].bo = None /\ scan[p].bo = None
    BY DEF Init, Off
  <2> QED
    BY <2>1, <2>2 DEF Pic
<1> QED
  BY <1>1, <1>2 DEF PicInv

\* With a prompt vblank thread the pictures are right always.
LEMMA PicAlways ==
  ASSUME Prompt = TRUE
  PROVE  Spec => [](CountInv /\ TimeInv /\ PicInv)
<1> DEFINE I == CountInv /\ TimeInv /\ PicInv
<1>1. Init => I
  BY CountInit, PicInit
<1>2. I /\ [Next]_vars => I'
  BY CountNext, TimeNext, PicNext
<1> HIDE DEF I
<1>3. Spec => []I
  BY <1>1, <1>2, PTL DEF Spec
<1> QED
  BY <1>3 DEF I

(* If the vblank thread acts on every vblank before the firmware's next    *)
(* update point, the display reads only buffers on screen or of the armed  *)
(* commit (commit, kms_try_apply, complete), for every number of planes,   *)
(* framebuffers and clients, with failing SET_PLANE calls and in-fences.   *)
THEOREM ScansHeld ==
  ASSUME Prompt = TRUE
  PROVE  Spec => []ScannedIsHeld
<1>1. CountInv /\ TimeInv /\ PicInv => ScannedIsHeld
  <2>1. SUFFICES ASSUME CountInv, PicInv, NEW p \in Planes, cut[p] = "no"
                 PROVE  \/ scan[p].bo = Image(cur[p], "native").bo
                        \/ pend = "armed" /\ p \in pmask /\ scan[p].bo = Image(pst[p], "native").bo
    BY DEF ScannedIsHeld
  <2>2. Image(cur[p], "native").bo = Cur(p) /\ Image(pst[p], "native").bo = Pst(p)
    BY ImageFields, ZenonT(20) DEF Cur, Pst
  <2>3. CASE Settled(p)
    BY <2>1, <2>2, <2>3, ZenonT(20) DEF PicInv, Pic
  <2>4. CASE ~ Settled(p)
    <3>1. scan[p].bo \in {Cur(p), Pst(p)}
      BY <2>1, <2>4 DEF PicInv, Pic
    <3>2. pend = "armed" /\ p \in pmask
      BY <2>4 DEF Settled, pmask
    <3> QED
      BY <2>2, <3>1, <3>2, ZenonT(20)
  <2> QED
    BY <2>3, <2>4, ZenonT(20)
<1> QED
  BY <1>1, PicAlways, PTL

(* With a prompt vblank thread a client hears that its commit is complete  *)
(* only once the display reads it (the guard rule of kms_try_apply and the *)
(* test of kms_on_vblank), unless the plane was changed outside a commit.  *)
THEOREM CompletesOnScreen ==
  ASSUME Prompt = TRUE
  PROVE  Spec => CompletedOnScreen
<1> DEFINE Right == Completes => \A p \in pmask : cut[p] = "cut" \/ scan[p].bo = Image(pst[p], mode).bo
<1>1. CountInv /\ TimeInv /\ PicInv /\ [Next]_vars => [Right]_vars
  <2>1. SUFFICES ASSUME TimeInv, PicInv, Next, Completes
                 PROVE  \A p \in pmask : cut[p] = "cut" \/ scan[p].bo = Image(pst[p], mode).bo
    OBVIOUS
  <2>2. pend = "armed" /\ pend' = "none" /\ pclient \in open'
    BY <2>1 DEF Completes
  <2>3. got > 0 /\ Reached(got)
    <3>1. ASSUME Request
          PROVE  FALSE
      <4>1. ASSUME NEW d \in Clients, Close(d)
            PROVE  FALSE
        BY <2>2, <4>1 DEF Close, Mine
      <4>2. ASSUME NEW d \in Clients, CommitSome(d)
            PROVE  FALSE
        BY <2>2, <4>2 DEF CommitSome, Commit
      <4>3. ASSUME NEW d \in Clients, NEW f \in Fbs, RmFb(d, f)
            PROVE  FALSE
        BY <2>2, <4>3 DEF RmFb
      <4>4. ASSUME UNCHANGED crtc
            PROVE  FALSE
        BY <2>2, <4>4 DEF crtc
      <4> QED
        BY <3>1, <4>1, <4>2, <4>3, <4>4, ZenonT(20) DEF Request, Open, CreateDumb, DestroyDumb, AddFb
    <3>2. CASE OnVblank
      BY <2>2, <3>2, ZenonT(20) DEF OnVblank, TryApply, ApplyUngated, crtc
    <3>3. CASE ThreadSees \/ GatePoll \/ FenceSignals \/ Display
      BY <2>2, <3>3 DEF ThreadSees, GatePoll, FenceSignals, Display, GuardBegins, FirmwareLatches, VblankComes,
                        ApplyUngated, crtc
    <3> QED
      BY <2>1, <3>1, <3>2, <3>3 DEF Next, Thread
  <2>4. ASSUME NEW p \in pmask, cut[p] # "cut"
        PROVE  scan[p].bo = Image(pst[p], mode).bo
    <3>1. Pic(p)
      BY <2>1, <2>4, ZenonT(20) DEF PicInv, pmask
    <3>2. scan[p].bo = Pst(p)
      BY <2>1, <2>2, <2>3, <2>4, <3>1, TargetOnScreen
    <3> QED
      BY <3>2, ImageFields DEF Pst
  <2> QED
    BY <2>4
<1>2. Spec => [][Next]_vars
  BY PTL DEF Spec
<1> QED
  BY <1>1, <1>2, PicAlways, PTL DEF CompletedOnScreen

-----------------------------------------------------------------------------
(* The mode the planes are mapped by                                       *)

\* The firmware maps what a plane shows, or is about to show, by the mode.
Mapped(p) ==
  /\ cut[p] = "no" /\ Settled(p) /\ cur[p] # None => fw[p].mode = mode
  /\ cut[p] # "cut" /\ ~ Settled(p) /\ pst[p] # None => fw[p].mode = mode

\* Without in-fences every commit is armed at once.
ModeInv == pend # "fence" /\ \A p \in Planes : Mapped(p)

\* A plane left alone in an unchanged mode is as before.
LEMMA MapKeep ==
  ASSUME NEW p \in Planes, Mapped(p),
         cut'[p] # "cut" =>
           /\ cut'[p] = cut[p] /\ fw'[p] = fw[p] /\ cur'[p] = cur[p] /\ (Settled(p)' <=> Settled(p))
           /\ ~ Settled(p) => pst'[p] = pst[p]
           /\ mode' = mode \/ (cur'[p] = None /\ Settled(p))
  PROVE  Mapped(p)'
BY ZenonT(20) DEF Mapped

\* A commit that leaves a shown plane alone leaves the mode alone.
LEMMA CommitKeeps ==
  ASSUME NEW st, NEW m, NEW outside \in SUBSET Carried(st, m), NEW p \in Planes,
         Built(st, m, outside)[p] = Keep, cur[p] \in Fbs \cup {None}
  PROVE  ModeAfter(st, m) = mode \/ cur[p] = None
<1>1. Built(st, m, outside)[p] = IF p \in outside THEN None
                                 ELSE IF p \in Carried(st, m) THEN cur[p] ELSE st[p]
  BY DEF Built
<1>2. p \notin Carried(st, m) /\ st[p] = Keep
  <2>1. Keep \notin Fbs \cup {None}
    BY KmsAssumption
  <2> QED
    BY <1>1, <2>1, ZenonT(20)
<1> QED
  BY <1>2, ZenonT(20) DEF Carried

\* Arming in the new mode.
LEMMA MapCommit ==
  ASSUME CountInv, NEW c, NEW st \in States, NEW m, Commit(c, st, m, {}), NEW p \in Planes, Mapped(p)
  PROVE  pend' = "armed" /\ Mapped(p)'
<1>1. PICK outside \in SUBSET Carried(st, m) :
        pst' = Built(st, m, outside) /\ TryApply(Built(st, m, outside), ModeAfter(st, m), {}, lag)
  BY DEF Commit, Built
<1>2. pend = "none" /\ cur' = cur /\ mode' = ModeAfter(st, m)
  BY DEF Commit
<1> DEFINE s == Built(st, m, outside)
           n == ModeAfter(st, m)
<1>3. ApplyUngated(s, n, lag)
  BY <1>1 DEF TryApply
<1>4. PICK failed \in Failures :
        /\ fw' = [q \in Planes |-> IF s[q] = Keep \/ q \in failed THEN fw[q] ELSE Image(s[q], n)]
        /\ cut' = [q \in Planes |-> IF s[q] = Keep THEN cut[q]
                                    ELSE IF q \in failed THEN "cut"
                                    ELSE IF cut[q] = "no" THEN "no" ELSE "healing"]
  BY <1>3, ZenonT(20) DEF ApplyUngated
<1>5. pend' = "armed" /\ pst' = s /\ Settled(p)
  BY <1>1, <1>2, <1>3, ZenonT(20) DEF ApplyUngated, Settled
<1>6. CASE s[p] = Keep
  <2>1. cur[p] \in Fbs \cup {None}
    BY ZenonT(20) DEF CountInv, Tables
  <2>2. n = mode \/ cur[p] = None
    BY <1>6, <2>1, CommitKeeps, ZenonT(20)
  <2> HIDE DEF s, n
  <2>3. cut'[p] = cut[p] /\ fw'[p] = fw[p]
    BY <1>4, <1>6, ZenonT(20)
  <2>4. Settled(p)'
    BY <1>5, <1>6 DEF Settled
  <2>5. mode' = n
    BY <1>2 DEF n
  <2>6. Mapped(p)'
    BY <1>2, <1>5, <2>2, <2>3, <2>4, <2>5, MapKeep, ZenonT(20)
  <2> QED
    BY <1>5, <2>6
<1>7. CASE s[p] # Keep
  <2> HIDE DEF s, n
  <2>1. ~ Settled(p)'
    BY <1>5, <1>7, ZenonT(20) DEF Settled
  <2>2. cut'[p] = "cut" \/ fw'[p] = Image(s[p], n)
    BY <1>4, <1>7, ZenonT(20)
  <2>3. s[p] # None => Image(s[p], n).mode = n
    BY ImageFields
  <2>4. mode' = n /\ pst'[p] = s[p]
    BY <1>2, <1>5 DEF n
  <2>5. Mapped(p)'
    BY <2>1, <2>2, <2>3, <2>4, ZenonT(20) DEF Mapped
  <2> QED
    BY <1>5, <2>5
<1> QED
  BY <1>6, <1>7

\* Every step keeps the mapping.
LEMMA ModeNext ==
  ASSUME Gated = FALSE, CountInv, ModeInv, [Next]_vars
  PROVE  ModeInv'
<1>1. pend # "fence" /\ \A p \in Planes : Mapped(p)
  BY ZenonT(20) DEF ModeInv
<1>2. CASE UNCHANGED <<crtc, fw, cut>>
  BY <1>1, <1>2 DEF crtc, ModeInv, Mapped, Settled
<1>3. ASSUME NEW c \in Clients, CommitSome(c)
      PROVE  ModeInv'
  <2>1. PICK st \in States, m \in Modes \cup {Keep} : Commit(c, st, m, {})
    BY <1>3 DEF CommitSome
  <2>2. \A p \in Planes : pend' = "armed" /\ Mapped(p)'
    BY <1>1, <2>1, MapCommit
  <2>3. Planes # {}
    BY KmsAssumption
  <2> QED
    BY <2>2, <2>3 DEF ModeInv
<1>4. ASSUME NEW c \in Clients, Close(c)
      PROVE  ModeInv'
  <2>1. pend' # "fence"
    BY <1>1, <1>4 DEF Close, Settle
  <2>2. ASSUME NEW p \in Planes
        PROVE  Mapped(p)'
    <3>1. Tables
      BY DEF CountInv
    <3>2. cut'[p] # "cut" =>
            /\ cut'[p] = cut[p] /\ fw'[p] = fw[p] /\ cur'[p] = cur[p]
            /\ \/ UNCHANGED <<pend, pst, due>>
               \/ pend' = "none" /\ Settled(p)
            /\ mode' = mode \/ (cur'[p] = None /\ p \notin pmask)
      BY <1>4, <3>1, CloseKeeps, ZenonT(20)
    <3>3. p \notin pmask => Settled(p)
      BY DEF Settled, pmask
    <3>4. UNCHANGED <<pend, pst>> => (Settled(p)' <=> Settled(p))
      BY DEF Settled
    <3>5. pend' = "none" => Settled(p)'
      BY DEF Settled
    <3> QED
      BY <1>1, <3>2, <3>3, <3>4, <3>5, MapKeep, ZenonT(20)
  <2> QED
    BY <2>1, <2>2 DEF ModeInv
<1>5. ASSUME NEW c \in Clients, NEW f \in Fbs, RmFb(c, f)
      PROVE  ModeInv'
  <2>1. pend' # "fence"
    BY <1>1, <1>5, ZenonT(20) DEF RmFb
  <2>2. ASSUME NEW p \in Planes
        PROVE  Mapped(p)'
    <3>1. cut'[p] # "cut" =>
            /\ cut'[p] = cut[p] /\ fw'[p] = fw[p] /\ cur'[p] = cur[p]
            /\ UNCHANGED <<pend, pst>>
            /\ mode' = mode \/ (cur'[p] = None /\ p \notin pmask)
      BY <1>5, RmFbKeeps
    <3>2. p \notin pmask => Settled(p)
      BY DEF Settled, pmask
    <3>3. UNCHANGED <<pend, pst>> => (Settled(p)' <=> Settled(p))
      BY DEF Settled
    <3> QED
      BY <1>1, <3>1, <3>2, <3>3, MapKeep, ZenonT(20)
  <2> QED
    BY <2>1, <2>2 DEF ModeInv
<1>6. CASE OnVblank
  <2>1. CASE pend = "armed" /\ Complete
    <3>1. /\ cur' = Shown(pst) /\ pend' = "none" /\ UNCHANGED <<fw, mode>>
          /\ cut' = [q \in Planes |-> IF q \in pmask /\ cut[q] = "healing" THEN "no" ELSE cut[q]]
      BY <2>1 DEF Complete, Settle, display
    <3>2. ASSUME NEW p \in Planes
          PROVE  Mapped(p)'
      <4>1. Settled(p)'
        BY <3>1 DEF Settled
      <4>2. CASE p \in pmask
        <5>1. ~ Settled(p) /\ cur'[p] = pst[p] /\ (cut'[p] = "no" => cut[p] # "cut")
          BY <2>1, <3>1, <4>2 DEF Settled, pmask, Shown
        <5> QED
          BY <1>1, <3>1, <4>1, <5>1, ZenonT(20) DEF Mapped
      <4>3. CASE p \notin pmask
        <5>1. Settled(p) /\ cur'[p] = cur[p] /\ cut'[p] = cut[p]
          BY <3>1, <4>3, ZenonT(20) DEF Settled, pmask, Shown
        <5> QED
          BY <1>1, <3>1, <4>1, <5>1, ZenonT(20) DEF Mapped
      <4> QED
        BY <4>2, <4>3
    <3> QED
      BY <3>1, <3>2 DEF ModeInv
  <2>2. CASE UNCHANGED <<cur, pend, pst, mode, fw, cut>>
    BY <1>1, <2>2, ZenonT(20) DEF ModeInv, Mapped, Settled
  <2> QED
    BY <1>1, <1>6, <2>1, <2>2 DEF OnVblank, crtc, display
<1>7. CASE GatePoll \/ FenceSignals
  BY <1>1, <1>7, ZenonT(20) DEF GatePoll, FenceSignals
<1>8. CASE ThreadSees \/ Display \/ UNCHANGED vars
  BY <1>2, <1>8 DEF ThreadSees, Display, GuardBegins, FirmwareLatches, VblankComes, vars, display
<1>9. ASSUME NEW c \in Clients, Open(c)
      PROVE  ModeInv'
  BY <1>2, <1>9, ZenonT(20) DEF Open, display
<1>10. ASSUME NEW c \in Clients, NEW b \in Bos, CreateDumb(c, b) \/ DestroyDumb(c, b)
       PROVE  ModeInv'
  BY <1>2, <1>10 DEF CreateDumb, DestroyDumb, display
<1>11. ASSUME NEW c \in Clients, NEW b \in Bos, NEW f \in Fbs, AddFb(c, f, b)
       PROVE  ModeInv'
  BY <1>2, <1>11 DEF AddFb, display
<1> QED
  BY <1>3, <1>4, <1>5, <1>6, <1>7, <1>8, <1>9, <1>10, <1>11 DEF Next, Request, Thread

(* Without in-fences, whenever no commit is pending the firmware maps every*)
(* shown plane by the current mode: a commit that changes the mode carries *)
(* the planes it does not touch, and taking the mode off maps them again   *)
(* (commit, planes_off, umode_native), however late the vblank thread is.  *)
THEOREM PlanesMapped ==
  ASSUME Gated = FALSE
  PROVE  Spec => []MappedByMode
<1> DEFINE I == CountInv /\ ModeInv
<1>1. Init => I
  <2>1. Init => ModeInv
    BY DEF Init, ModeInv, Mapped, Settled
  <2> QED
    BY <2>1, CountInit
<1>2. I /\ [Next]_vars => I'
  BY CountNext, ModeNext, ZenonT(20)
<1>3. I => MappedByMode
  BY DEF ModeInv, Mapped, MappedByMode, Settled
<1> HIDE DEF I
<1> QED
  BY <1>1, <1>2, <1>3, PTL DEF Spec

=============================================================================
