------------------------------- MODULE Handoff -------------------------------
(***************************************************************************)
(* What a Manager promises for one direction of a call, whatever threads   *)
(* carry it out: candidates are taken as they come and wait behind a gate  *)
(* until a session description of their direction has passed; then they    *)
(* leave one by one, in the order they came, among whatever else is passed *)
(* on.  The promise ends when the threads race on a container, or when the *)
(* program does (`broken').                                                *)
(***************************************************************************)
EXTENDS Naturals, Sequences, TLAPS

CONSTANT Told       \* what else is passed on: descriptions, modes, frames

VARIABLES taken,    \* how many candidates have come; the k-th is named k
          waiting,  \* those not yet passed on
          passed,   \* what was passed on
          broken    \* nothing is promised any more

vars == <<taken, waiting, passed, broken>>

Candidate(k) == [kind |-> "candidate", val |-> k]
IsDescription(m) == m.kind \in {"offer", "answer", "sdp"}
IsCandidate(m) == m.kind = "candidate"

Init ==
  /\ taken = 0
  /\ waiting = <<>>
  /\ passed = <<>>
  /\ broken = FALSE

Take ==
  /\ taken' = taken + 1
  /\ waiting' = Append(waiting, taken + 1)
  /\ UNCHANGED <<passed, broken>>

\* Anything but a candidate, a description among others.
Tell ==
  /\ Len(passed') = Len(passed) + 1
  /\ LET m == passed'[Len(passed) + 1]
     IN m \in Told /\ ~IsCandidate(m) /\ passed' = Append(passed, m)
  /\ UNCHANGED <<taken, waiting, broken>>

Deliver ==
  /\ \E i \in DOMAIN passed : IsDescription(passed[i])
  /\ waiting # <<>>
  /\ passed' = Append(passed, Candidate(Head(waiting)))
  /\ waiting' = Tail(waiting)
  /\ UNCHANGED <<taken, broken>>

Break == broken'

Next == Take \/ Tell \/ Deliver \/ Break

Spec == Init /\ [][Next]_vars

-----------------------------------------------------------------------------
(* What follows from the promise. *)

\* How many candidates have been passed on.
Gone == taken - Len(waiting)

\* Those that wait are the last ones that came, in their order; those before
\* them were passed on, each once, in their order, none ahead of a description.
InOrder ==
  /\ waiting = [i \in 1 .. Len(waiting) |-> Gone + i]
  /\ \A k \in 1 .. Gone : \E i \in DOMAIN passed : passed[i] = Candidate(k)
  /\ \A i \in DOMAIN passed : IsCandidate(passed[i]) =>
       /\ passed[i].val \in 1 .. Gone
       /\ \E j \in 1 .. i - 1 : IsDescription(passed[j])
  /\ \A i, j \in DOMAIN passed :
       i < j /\ IsCandidate(passed[i]) /\ IsCandidate(passed[j])
         => passed[i].val < passed[j].val

HandoffTypeOK ==
  /\ taken \in Nat
  /\ waiting \in Seq(Nat) /\ Len(waiting) <= taken
  /\ passed \in Seq(Told \cup [kind : {"candidate"}, val : Nat])

HandoffInv == ~broken => HandoffTypeOK /\ InOrder

-----------------------------------------------------------------------------

\* Passing one more thing on keeps what was passed.
LEMMA OneMore ==
  ASSUME NEW M, NEW p \in Seq(M), NEW m \in M, NEW q, q = Append(p, m)
  PROVE  /\ q \in Seq(M)
         /\ Len(p) \in Nat
         /\ DOMAIN p = 1 .. Len(p)
         /\ DOMAIN q = 1 .. Len(p) + 1
         /\ \A i \in 1 .. Len(p) : q[i] = p[i]
         /\ q[Len(p) + 1] = m
OBVIOUS

\* Whoever keeps the promise of the hand-off passes every candidate on at most
\* once, in the order they came, behind a description, and none is left out.
THEOREM InOrderHolds == Spec => []HandoffInv
<1> DEFINE M == Told \cup [kind : {"candidate"}, val : Nat]
<1>1. Init => HandoffInv
  BY DEF Init, HandoffInv, HandoffTypeOK, InOrder, Gone
<1>2. HandoffInv /\ [Next]_vars => HandoffInv'
  <2> SUFFICES ASSUME HandoffInv, [Next]_vars, ~broken' PROVE HandoffInv'
    BY DEF HandoffInv
  <2>1. CASE Take
    <3>1. HandoffTypeOK /\ InOrder
      BY <2>1 DEF Take, HandoffInv
    <3> DEFINE w == waiting
    <3>2. /\ taken \in Nat /\ waiting \in Seq(Nat) /\ Len(waiting) \in 0 .. taken
          /\ taken' = taken + 1 /\ waiting' = Append(waiting, taken + 1)
          /\ passed' = passed
      BY <2>1, <3>1 DEF Take, HandoffTypeOK
    <3>3. /\ waiting' \in Seq(Nat) /\ Len(waiting') = Len(waiting) + 1
          /\ \A i \in 1 .. Len(waiting) : waiting'[i] = waiting[i]
          /\ waiting'[Len(waiting) + 1] = taken + 1
      BY <3>2
    <3>4. HandoffTypeOK' /\ Gone' = Gone
      BY <3>1, <3>2, <3>3 DEF HandoffTypeOK, Gone
    <3>5. waiting' = [i \in 1 .. Len(waiting') |-> Gone + i]
      <4>1. \A i \in 1 .. Len(waiting) : waiting[i] = Gone + i
        BY <3>1 DEF InOrder
      <4>2. waiting'[Len(waiting) + 1] = Gone + Len(waiting) + 1
        BY <3>2, <3>3 DEF Gone
      <4>3. \A i \in 1 .. Len(waiting') : waiting'[i] = Gone + i
        BY <3>2, <3>3, <4>1, <4>2 DEF Gone
      <4> QED
        BY <3>3, <4>3
    <3> QED
      BY <3>1, <3>2, <3>4, <3>5 DEF InOrder, HandoffInv
  <2>2. ASSUME NEW m \in M, HandoffTypeOK, InOrder, passed' = Append(passed, m),
               UNCHANGED <<taken, waiting>>, ~IsCandidate(m)
        PROVE  HandoffInv'
    <3>1. /\ passed' \in Seq(M)
          /\ Len(passed) \in Nat
          /\ DOMAIN passed = 1 .. Len(passed)
          /\ DOMAIN passed' = 1 .. Len(passed) + 1
          /\ \A i \in 1 .. Len(passed) : passed'[i] = passed[i]
          /\ passed'[Len(passed) + 1] = m
      BY <2>2, OneMore DEF HandoffTypeOK
    <3>2. HandoffTypeOK' /\ Gone' = Gone
      BY <2>2, <3>1 DEF HandoffTypeOK, Gone
    <3>3. \A i \in DOMAIN passed' : IsCandidate(passed'[i]) =>
            i \in DOMAIN passed /\ passed'[i] = passed[i]
      BY <2>2, <3>1
    <3>4. \A i \in DOMAIN passed : \A j \in 1 .. i - 1 :
            IsDescription(passed[j]) => IsDescription(passed'[j])
      BY <3>1
    <3>5. (\A k \in 1 .. Gone : \E i \in DOMAIN passed : passed[i] = Candidate(k))
            => \A k \in 1 .. Gone : \E i \in DOMAIN passed' : passed'[i] = Candidate(k)
      BY <3>1
    <3> QED
      BY <2>2, <3>1, <3>2, <3>3, <3>4, <3>5 DEF InOrder, HandoffInv
  <2>3. CASE Tell
    BY <2>2, <2>3 DEF Tell, HandoffInv
  <2>4. CASE Deliver
    <3>1. HandoffTypeOK /\ InOrder
      BY <2>4 DEF Deliver, HandoffInv
    <3>2. /\ taken \in Nat /\ waiting \in Seq(Nat) /\ Len(waiting) \in 1 .. taken
          /\ taken' = taken /\ waiting' = Tail(waiting) /\ Head(waiting) = waiting[1]
          /\ waiting' \in Seq(Nat) /\ Len(waiting') = Len(waiting) - 1
          /\ \A i \in 1 .. Len(waiting') : waiting'[i] = waiting[i + 1]
      BY <2>4, <3>1 DEF Deliver, HandoffTypeOK
    <3>3. \A i \in 1 .. Len(waiting) : waiting[i] = Gone + i
      BY <3>1 DEF InOrder
    <3>4. /\ Gone \in Nat /\ Gone' = Gone + 1
          /\ Head(waiting) = Gone + 1
          /\ \A i \in 1 .. Len(waiting') : waiting'[i] = Gone' + i
      BY <3>2, <3>3 DEF Gone
    <3> DEFINE m == Candidate(Gone + 1)
    <3>5. m \in M /\ IsCandidate(m) /\ m.val = Gone + 1
      BY <3>4 DEF Candidate, IsCandidate
    <3>6. passed' = Append(passed, m)
      BY <2>4, <3>4 DEF Deliver
    <3> HIDE DEF m
    <3>7. /\ passed' \in Seq(M)
          /\ Len(passed) \in Nat
          /\ DOMAIN passed = 1 .. Len(passed)
          /\ DOMAIN passed' = 1 .. Len(passed) + 1
          /\ \A i \in 1 .. Len(passed) : passed'[i] = passed[i]
          /\ passed'[Len(passed) + 1] = m
      BY <3>1, <3>5, <3>6, OneMore DEF HandoffTypeOK
    <3>8. HandoffTypeOK'
      BY <3>2, <3>7 DEF HandoffTypeOK
    <3>9. waiting' = [i \in 1 .. Len(waiting') |-> Gone' + i]
      <4>1. waiting' \in Seq(Nat)
        BY <3>2
      <4>2. \A i \in 1 .. Len(waiting') : waiting'[i] = Gone' + i
        BY <3>4
      <4> QED
        BY <4>1, <4>2
    <3>10. ASSUME NEW k \in 1 .. Gone'
           PROVE  \E i \in DOMAIN passed' : passed'[i] = Candidate(k)
      <4>1. CASE k = Gone + 1
        BY <3>7, <4>1 DEF m
      <4>2. CASE k # Gone + 1
        <5>1. PICK i \in DOMAIN passed : passed[i] = Candidate(k)
          BY <3>1, <3>4, <4>2 DEF InOrder
        <5> QED
          BY <3>7, <5>1
      <4> QED
        BY <4>1, <4>2
    <3>11. ASSUME NEW i \in DOMAIN passed', IsCandidate(passed'[i])
           PROVE  /\ passed'[i].val \in 1 .. Gone'
                  /\ \E j \in 1 .. i - 1 : IsDescription(passed'[j])
      <4>1. CASE i = Len(passed) + 1
        <5>1. PICK j \in DOMAIN passed : IsDescription(passed[j])
          BY <2>4 DEF Deliver
        <5> QED
          BY <3>4, <3>5, <3>7, <4>1, <5>1
      <4>2. CASE i \in 1 .. Len(passed)
        <5>1. /\ passed[i].val \in 1 .. Gone
              /\ \E j \in 1 .. i - 1 : IsDescription(passed[j])
          BY <3>1, <3>7, <3>11, <4>2 DEF InOrder
        <5> QED
          BY <3>4, <3>7, <4>2, <5>1
      <4> QED
        BY <3>7, <4>1, <4>2
    <3>12. ASSUME NEW i \in DOMAIN passed', NEW j \in DOMAIN passed', i < j,
                  IsCandidate(passed'[i]), IsCandidate(passed'[j])
           PROVE  passed'[i].val < passed'[j].val
      <4>1. i \in 1 .. Len(passed) /\ passed'[i] = passed[i]
        BY <3>7, <3>12
      <4>2. CASE j = Len(passed) + 1
        <5>1. passed[i].val \in 1 .. Gone
          BY <3>1, <3>7, <3>12, <4>1 DEF InOrder
        <5> QED
          BY <3>4, <3>5, <3>7, <4>1, <4>2, <5>1
      <4>3. CASE j \in 1 .. Len(passed)
        BY <3>1, <3>7, <3>12, <4>1, <4>3 DEF InOrder
      <4> QED
        BY <3>7, <4>2, <4>3
    <3> QED
      BY <3>8, <3>9, <3>10, <3>11, <3>12 DEF InOrder, HandoffInv
  <2>5. CASE UNCHANGED vars
    BY <2>5 DEF vars, HandoffInv, HandoffTypeOK, InOrder, Gone
  <2> QED
    BY <2>1, <2>3, <2>4, <2>5 DEF Next, Break
<1> QED
  BY <1>1, <1>2, PTL DEF Spec
=============================================================================
