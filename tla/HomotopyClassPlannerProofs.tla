--------------------- MODULE HomotopyClassPlannerProofs ---------------------
(***************************************************************************)
(* Proofs about HomotopyClassPlanner, for every set of signatures, every   *)
(* similarity of signatures and every limit.                               *)
(***************************************************************************)
EXTENDS HomotopyClassPlanner, FiniteSetTheorems, SequenceTheorems, WellFoundedInduction, TLAPS

-----------------------------------------------------------------------------
(* Sequences and minima.                                                   *)

\* What erasing one element of a container leaves.
LEMMA RemoveAtProperties ==
  ASSUME NEW S, NEW s \in Seq(S), NEW i \in 1..Len(s)
  PROVE  /\ RemoveAt(s, i) \in Seq(S)
         /\ Len(RemoveAt(s, i)) = Len(s) - 1
         /\ \A j \in 1..(Len(s) - 1) :
              RemoveAt(s, i)[j] = IF j < i THEN s[j] ELSE s[j + 1]
<1>. DEFINE l == SubSeq(s, 1, i - 1)  r == SubSeq(s, i + 1, Len(s))
<1>0. Len(s) \in Nat /\ \A j \in 1..Len(s) : s[j] \in S
  BY LenProperties, ElementOfSeq
<1>1. /\ l \in Seq(S) /\ Len(l) = i - 1
      /\ \A j \in 1..(i - 1) : l[j] = s[j]
  <2>1. \A j \in 1..(i - 1) : s[j] \in S
    BY <1>0
  <2>. QED  BY <2>1, <1>0, SubSeqProperties, i - 1 \in Int
<1>2. /\ r \in Seq(S) /\ Len(r) = Len(s) - i
      /\ \A j \in 1..(Len(s) - i) : r[j] = s[i + j]
  <2>1. \A j \in (i + 1)..Len(s) : s[j] \in S
    BY <1>0
  <2>2. /\ r \in Seq(S)
        /\ Len(r) = IF i + 1 <= Len(s) THEN Len(s) - (i + 1) + 1 ELSE 0
        /\ \A j \in 1..(Len(s) - (i + 1) + 1) : r[j] = s[(i + 1) + j - 1]
    BY <2>1, <1>0, SubSeqProperties, i + 1 \in Int, Len(s) \in Int
  <2>. QED  BY <2>2, <1>0
<1>3. /\ l \o r \in Seq(S) /\ Len(l \o r) = Len(l) + Len(r)
      /\ \A j \in 1..(Len(l) + Len(r)) :
           (l \o r)[j] = IF j <= Len(l) THEN l[j] ELSE r[j - Len(l)]
  BY <1>1, <1>2, ConcatProperties
<1>4. RemoveAt(s, i) = l \o r
  BY DEF RemoveAt
<1>. HIDE DEF l, r
<1>5. ASSUME NEW j \in 1..(Len(s) - 1)
      PROVE  (l \o r)[j] = IF j < i THEN s[j] ELSE s[j + 1]
  <2>1. CASE j < i
    BY <2>1, <1>0, <1>1, <1>2, <1>3
  <2>2. CASE ~(j < i)
    <3>1. j - (i - 1) \in 1..(Len(s) - i) /\ i + (j - (i - 1)) = j + 1
      BY <2>2, <1>0
    <3>2. (l \o r)[j] = r[j - (i - 1)]
      BY <2>2, <1>0, <1>1, <1>2, <1>3
    <3>. QED  BY <2>2, <3>1, <3>2, <1>2
  <2>. QED  BY <2>1, <2>2
<1>. QED  BY <1>0, <1>1, <1>2, <1>3, <1>4, <1>5

\* A function on 1..n is a sequence.
LEMMA FunctionIsSeq ==
  ASSUME NEW S, NEW n \in Nat, NEW f \in [1..n -> S]
  PROVE  f \in Seq(S) /\ Len(f) = n
BY SeqDef

\* A set of naturals has a least element.
LEMMA LeastNatural ==
  ASSUME NEW S \in SUBSET Nat, S # {}
  PROVE  \E m \in S : \A n \in S : m <= n
<1>1. PICK m \in S : \A n \in S : ~(<<n, m>> \in OpToRel(<, Nat))
  BY NatLessThanWellFounded, WFMin
<1>2. ASSUME NEW n \in S  PROVE m <= n
  <2>1. ~(n < m)  
    BY <1>1 DEF OpToRel
  <2>. QED  BY <2>1
<1>. QED  BY <1>2

\* The product of naturals is natural.
LEMMA ProductNatural == \A m, n \in Nat : m * n \in Nat
OBVIOUS

-----------------------------------------------------------------------------
(* The inductive invariant.                                                *)

\* The iterator of a loop over tebs_ is at an element or at the end.
LoopIterator ==
  pc \in {"reanalyze", "detours", "drop"} => it \in 1..(Len(tebs) + 1)

\* renewAndAnalyzeOldTebs() in its loop.  A best TEB that is there is in
\* front, where the loop does not erase it.
BestInFront == InContainer(best) => it >= 2 /\ tebs[1].id = best

\* The class of each TEB before the iterator has been added, in order,
\* unless the best TEB has no valid class.
ClassesSoFar ==
  /\ Len(classes) = it - 1
  /\ \A j \in 1..(it - 1) : classes[j].sig = tebs[j].sig

BestUnclassified ==
  /\ Len(classes) = it - 2
  /\ best_class \notin ValidSigs /\ best_class # None

ReanalyzedSoFar == pc = "reanalyze" => BestInFront /\ (ClassesSoFar \/ BestUnclassified)

IInv ==
  /\ TypeOK
  /\ AtMostMaxClasses
  /\ NoTebTwice
  /\ LoopIterator
  /\ ReanalyzedSoFar
  /\ ContainersInStep
  /\ ClassesMatchTebs
  /\ SelectionIsACandidate
  /\ CheckedTebIsCommanded

\* A new planner, with empty containers, satisfies the invariant.
LEMMA InitIInv == Init => IInv
<1>. SUFFICES ASSUME Init PROVE IInv
  OBVIOUS
<1>1. Len(tebs) = 0 /\ Len(classes) = 0 /\ DOMAIN tebs = {} /\ DOMAIN classes = {}
  BY EmptySeq DEF Init
<1>2. TypeOK
  BY ConstantsAssumption DEF Init, TypeOK, Phases, ConstantsAssumption
<1>3. AtMostMaxClasses /\ NoTebTwice /\ ContainersInStep /\ ClassesMatchTebs
  BY <1>1, ConstantsAssumption
  DEF Init, AtMostMaxClasses, NoTebTwice, ContainersInStep, ClassesMatchTebs, ConstantsAssumption
<1>4. LoopIterator /\ ReanalyzedSoFar /\ SelectionIsACandidate /\ CheckedTebIsCommanded
  BY DEF Init, LoopIterator, ReanalyzedSoFar, SelectionIsACandidate, CheckedTebIsCommanded
<1>. QED  BY <1>2, <1>3, <1>4 DEF IInv

-----------------------------------------------------------------------------
(* The containers.                                                         *)

\* The containers are sequences of TEBs and of class entries.
LEMMA Containers ==
  ASSUME TypeOK
  PROVE  /\ Len(tebs) \in Nat /\ DOMAIN tebs = 1..Len(tebs)
         /\ Len(classes) \in Nat /\ DOMAIN classes = 1..Len(classes)
         /\ \A i \in 1..Len(tebs) : tebs[i] \in Teb /\ tebs[i].id \in Tebs
         /\ \A i \in 1..Len(classes) : classes[i] \in EqRels
<1>1. tebs \in Seq(Teb) /\ classes \in Seq(EqRels)
  BY DEF TypeOK
<1>2. /\ Len(tebs) \in Nat /\ DOMAIN tebs = 1..Len(tebs)
      /\ Len(classes) \in Nat /\ DOMAIN classes = 1..Len(classes)
  BY <1>1, LenProperties
<1>3. \A i \in 1..Len(tebs) : tebs[i] \in Teb
  BY <1>1, ElementOfSeq
<1>4. \A i \in 1..Len(classes) : classes[i] \in EqRels
  BY <1>1, ElementOfSeq
<1>5. \A teb \in Teb : teb.id \in Tebs
  BY DEF Teb
<1>. QED  BY <1>2, <1>3, <1>4, <1>5

\* Erasing a TEB keeps the others, each once.
LEMMA EraseTeb ==
  ASSUME TypeOK, AtMostMaxClasses, NoTebTwice, NEW i \in 1..Len(tebs),
         tebs' = RemoveAt(tebs, i)
  PROVE  /\ tebs' \in Seq(Teb) /\ Len(tebs') = Len(tebs) - 1
         /\ DOMAIN tebs' = 1..(Len(tebs) - 1)
         /\ \A j \in 1..(Len(tebs) - 1) : tebs'[j] = IF j < i THEN tebs[j] ELSE tebs[j + 1]
         /\ AtMostMaxClasses' /\ NoTebTwice'
         /\ Ids' \subseteq Ids
         /\ Ids \ {tebs[i].id} \subseteq Ids'
<1>1. /\ tebs' \in Seq(Teb) /\ Len(tebs') = Len(tebs) - 1
      /\ \A j \in 1..(Len(tebs) - 1) : tebs'[j] = IF j < i THEN tebs[j] ELSE tebs[j + 1]
  BY RemoveAtProperties DEF TypeOK
<1>2. Len(tebs) \in Nat /\ DOMAIN tebs = 1..Len(tebs) /\ DOMAIN tebs' = 1..(Len(tebs) - 1)
  BY <1>1, Containers, LenProperties
<1>3. AtMostMaxClasses'
  BY <1>1, <1>2, ConstantsAssumption DEF AtMostMaxClasses, ConstantsAssumption
<1>4. NoTebTwice'
  <2>1. SUFFICES ASSUME NEW j \in 1..(Len(tebs) - 1), NEW k \in 1..(Len(tebs) - 1),
                        tebs'[j].id = tebs'[k].id
                 PROVE  j = k
    BY <1>2 DEF NoTebTwice
  <2>. DEFINE from(l) == IF l < i THEN l ELSE l + 1
  <2>2. /\ tebs'[j].id = tebs[from(j)].id /\ tebs'[k].id = tebs[from(k)].id
        /\ from(j) \in DOMAIN tebs /\ from(k) \in DOMAIN tebs
    BY <1>1, <1>2
  <2>3. from(j) = from(k)
    BY <2>1, <2>2 DEF NoTebTwice
  <2>. QED  BY <2>3
<1>5. Ids' \subseteq Ids
  BY <1>1, <1>2 DEF Ids
<1>6. ASSUME NEW j \in 1..Len(tebs), j # i  PROVE tebs[j].id \in Ids'
  <2>1. CASE j < i
    <3>1. j \in 1..(Len(tebs) - 1) /\ tebs'[j] = tebs[j]
      BY <2>1, <1>1, <1>2
    <3>. QED  BY <3>1, <1>2 DEF Ids
  <2>2. CASE j > i
    <3>1. j - 1 \in 1..(Len(tebs) - 1) /\ tebs'[j - 1] = tebs[j]
      BY <2>2, <1>1, <1>2
    <3>. QED  BY <3>1, <1>2 DEF Ids
  <2>. QED  BY <2>1, <2>2, <1>6
<1>7. Ids \ {tebs[i].id} \subseteq Ids'
  BY <1>6, <1>2 DEF Ids
<1>. QED  BY <1>1, <1>2, <1>3, <1>4, <1>5, <1>7

\* Erasing at the same place of both containers keeps them in step.
LEMMA EraseBothKeepsStep ==
  ASSUME IInv, Reanalyzed, NEW i \in 1..Len(tebs), i \in 1..Len(classes), EraseBoth(i),
         UNCHANGED best_class
  PROVE  /\ classes' \in Seq(EqRels)
         /\ ContainersInStep' /\ ClassesMatchTebs'
<1>1. /\ classes' \in Seq(EqRels) /\ Len(classes') = Len(classes) - 1
      /\ \A j \in 1..(Len(classes) - 1) :
           classes'[j] = IF j < i THEN classes[j] ELSE classes[j + 1]
  BY RemoveAtProperties DEF EraseBoth, IInv, TypeOK
<1>2. /\ Len(tebs') = Len(tebs) - 1 /\ DOMAIN tebs' = 1..(Len(tebs) - 1)
      /\ \A j \in 1..(Len(tebs) - 1) : tebs'[j] = IF j < i THEN tebs[j] ELSE tebs[j + 1]
  BY EraseTeb DEF EraseBoth, IInv
<1>3. Len(tebs) \in Nat /\ Len(classes) \in Nat /\ DOMAIN tebs = 1..Len(tebs)
  BY Containers DEF IInv
<1>4. ContainersInStep'
  BY <1>1, <1>2, <1>3 DEF IInv, ContainersInStep
<1>5. ClassesMatchTebs'
  <2>1. SUFFICES ASSUME Len(classes') = Len(tebs'), NEW j \in 1..(Len(tebs) - 1)
                 PROVE  classes'[j].sig = tebs'[j].sig
    BY <1>2 DEF ClassesMatchTebs
  <2>2. j \in 1..Len(tebs) /\ j + 1 \in 1..Len(tebs) /\ Len(classes) = Len(tebs)
    <3>1. Len(classes') = Len(classes) - 1 /\ Len(tebs') = Len(tebs) - 1
      BY <1>1, <1>2
    <3>. QED  BY <3>1, <2>1, <1>3
  <2>3. \A k \in 1..Len(tebs) : classes[k].sig = tebs[k].sig
    BY <2>2, <1>3 DEF IInv, ClassesMatchTebs
  <2>. QED  BY <2>2, <2>3, <1>1, <1>2
<1>. QED  BY <1>1, <1>4, <1>5

\* A new candidate is another TEB than those of the container.
LEMMA PushTebKeepsStep ==
  ASSUME IInv, Reanalyzed, Len(tebs) < MaxClasses, NEW t \in LowestFree, NEW s \in Sigs,
         NEW lock \in BOOLEAN, PushTeb(t, s, lock), UNCHANGED best_class
  PROVE  /\ t \in Tebs /\ tebs' \in Seq(Teb) /\ classes' \in Seq(EqRels)
         /\ Len(tebs') = Len(tebs) + 1
         /\ AtMostMaxClasses' /\ NoTebTwice'
         /\ ContainersInStep' /\ ClassesMatchTebs'
<1>. DEFINE new == [id |-> t, sig |-> s, cost |-> NoCost, optimized |-> FALSE, guided |-> FALSE]
<1>0. t \in Tebs /\ t \notin Ids
  BY DEF LowestFree, FreeTebs
<1>1. new \in Teb /\ new.id = t /\ new.sig = s
  BY <1>0 DEF Teb
<1>. HIDE DEF new
<1>2. /\ tebs' = Append(tebs, new) /\ classes' = Append(classes, EqRel(s, lock))
      /\ EqRel(s, lock) \in EqRels /\ EqRel(s, lock).sig = s
  BY DEF PushTeb, new, EqRel, EqRels
<1>3. /\ Len(tebs) \in Nat /\ Len(classes) \in Nat
      /\ DOMAIN tebs = 1..Len(tebs)
  BY Containers DEF IInv
<1>4. /\ tebs' \in Seq(Teb) /\ Len(tebs') = Len(tebs) + 1 /\ DOMAIN tebs' = 1..(Len(tebs) + 1)
      /\ \A j \in 1..Len(tebs) : tebs'[j] = tebs[j]
      /\ tebs'[Len(tebs) + 1] = new
  BY <1>1, <1>2, AppendProperties, LenProperties DEF IInv, TypeOK
<1>5. /\ classes' \in Seq(EqRels) /\ Len(classes') = Len(classes) + 1
      /\ \A j \in 1..Len(classes) : classes'[j] = classes[j]
      /\ classes'[Len(classes) + 1].sig = s
  BY <1>2, AppendProperties DEF IInv, TypeOK
<1>6. AtMostMaxClasses'
  BY <1>3, <1>4, ConstantsAssumption DEF AtMostMaxClasses, ConstantsAssumption
<1>7. NoTebTwice'
  <2>1. \A j \in 1..Len(tebs) : tebs'[j].id # t
    BY <1>0, <1>3, <1>4 DEF Ids
  <2>2. \A j, k \in 1..Len(tebs) : tebs'[j].id = tebs'[k].id => j = k
    BY <1>3, <1>4 DEF IInv, NoTebTwice
  <2>3. \A j \in DOMAIN tebs' : j \in 1..Len(tebs) \/ j = Len(tebs) + 1
    BY <1>3, <1>4
  <2>4. tebs'[Len(tebs) + 1].id = t
    BY <1>1, <1>4
  <2>. QED  BY <2>1, <2>2, <2>3, <2>4 DEF NoTebTwice
<1>8. ContainersInStep'
  <2>1. Len(tebs') = Len(tebs) + 1 /\ Len(classes') = Len(classes) + 1
    BY <1>4, <1>5
  <2>2. /\ Len(classes) \in {Len(tebs) - 1, Len(tebs)}
        /\ Len(classes) # Len(tebs) => best_class \notin ValidSigs /\ best_class # None
    BY DEF IInv, ContainersInStep
  <2>3. CASE Len(classes) = Len(tebs)
    BY <2>1, <2>3 DEF ContainersInStep
  <2>4. CASE Len(classes) = Len(tebs) - 1
    <3>1. Len(classes') = Len(tebs') - 1
      BY <2>1, <2>4, <1>3
    <3>2. best_class' \notin ValidSigs /\ best_class' # None
      BY <2>2, <2>4, <1>3
    <3>. QED  BY <3>1, <3>2 DEF ContainersInStep
  <2>. QED  BY <2>2, <2>3, <2>4
<1>9. ClassesMatchTebs'
  <2>1. SUFFICES ASSUME Len(classes') = Len(tebs'), NEW j \in 1..(Len(tebs) + 1)
                 PROVE  classes'[j].sig = tebs'[j].sig
    BY <1>4 DEF ClassesMatchTebs
  <2>2. Len(classes) = Len(tebs)
    BY <2>1, <1>3, <1>4, <1>5
  <2>3. CASE j \in 1..Len(tebs)
    <3>1. classes[j].sig = tebs[j].sig
      BY <2>2, <2>3, <1>3 DEF IInv, ClassesMatchTebs
    <3>. QED  BY <3>1, <2>2, <2>3, <1>4, <1>5
  <2>4. CASE j = Len(tebs) + 1
    BY <2>2, <2>4, <1>1, <1>4, <1>5
  <2>. QED  BY <2>3, <2>4, <1>3
<1>. QED  BY <1>0, <1>4, <1>5, <1>6, <1>7, <1>8, <1>9

-----------------------------------------------------------------------------
(* One lemma per step of plan() over old trajectories.                     *)

\* plan(): moving or clearing the TEBs leaves containers in step and no
\* reference to what was cleared.
LEMMA UpdateAllTebsStep ==
  ASSUME IInv, NEW moved \in BOOLEAN, NEW s \in InitialSigs, UpdateAllTebs(moved, s)
  PROVE  IInv'
<1>1. /\ (tebs' = <<>> /\ classes' = <<>>) \/ UNCHANGED <<tebs, classes>>
      /\ pc' = "renew" /\ s \in Sigs \cup {None}
  BY ConstantsAssumption DEF UpdateAllTebs, ConstantsAssumption
<1>2. TypeOK'
  BY <1>1, EmptySeq DEF IInv, TypeOK, UpdateAllTebs, pointerVars, Phases
<1>3. AtMostMaxClasses' /\ NoTebTwice'
  BY <1>1, EmptySeq, ConstantsAssumption
  DEF IInv, AtMostMaxClasses, NoTebTwice, ConstantsAssumption
<1>. QED
  BY <1>1, <1>2, <1>3 DEF IInv, LoopIterator, ReanalyzedSoFar, ContainersInStep, Reanalyzed,
     ClassesMatchTebs, SelectionIsACandidate, CheckedTebIsCommanded

\* The best TEB and its class come first.
LEMMA RenewBestStep ==
  ASSUME IInv, NEW i \in DOMAIN tebs, NEW s \in Sigs, RenewBest(i, s)
  PROVE  IInv'
<1>. DEFINE swapped == [[tebs EXCEPT ![i] = tebs[1]] EXCEPT ![1] = [tebs[i] EXCEPT !.sig = s]]
<1>1. /\ Len(tebs) \in Nat /\ DOMAIN tebs = 1..Len(tebs)
      /\ i \in 1..Len(tebs) /\ 1 \in 1..Len(tebs)
      /\ \A j \in 1..Len(tebs) : tebs[j] \in Teb
  BY LenProperties DEF IInv, TypeOK
<1>2. [tebs[i] EXCEPT !.sig = s] \in Teb /\ [tebs[i] EXCEPT !.sig = s].id = tebs[i].id
      /\ [tebs[i] EXCEPT !.sig = s].sig = s
  BY <1>1 DEF Teb
<1>3. /\ swapped \in Seq(Teb) /\ Len(swapped) = Len(tebs) /\ DOMAIN swapped = 1..Len(tebs)
      /\ \A j \in 1..Len(tebs) : swapped[j] = IF j = 1 THEN [tebs[i] EXCEPT !.sig = s]
                                                ELSE IF j = i THEN tebs[1] ELSE tebs[j]
  BY <1>1, <1>2, ExceptSeq, LenProperties DEF IInv, TypeOK
<1>. HIDE DEF swapped
<1>4. /\ tebs' = swapped /\ pc' = "reanalyze" /\ it' = 2 /\ best_class' = s
      /\ UNCHANGED <<best, last_best, initial_teb, initial_class, initial_plan,
                     since_switch, infeasible, pending>>
  BY DEF RenewBest, swapped
<1>8. /\ classes' \in Seq(EqRels)
      /\ s \in ValidSigs => Len(classes') = 1 /\ classes'[1].sig = s
      /\ s \notin ValidSigs => Len(classes') = 0
  <2>1. CASE s \in ValidSigs
    BY <2>1 DEF RenewBest, EqRel, EqRels
  <2>2. CASE s \notin ValidSigs
    BY <2>2, EmptySeq DEF RenewBest
  <2>. QED  BY <2>1, <2>2
<1>5. TypeOK'
  <2>1. tebs' \in Seq(Teb) /\ it' \in 0..(MaxClasses + 1)
    BY <1>3, <1>4, ConstantsAssumption DEF ConstantsAssumption
  <2>. QED  BY <2>1, <1>4, <1>8 DEF IInv, TypeOK, Phases
<1>6. AtMostMaxClasses' /\ NoTebTwice' /\ LoopIterator'
  <2>1. AtMostMaxClasses' /\ LoopIterator'
    BY <1>1, <1>3, <1>4 DEF IInv, AtMostMaxClasses, LoopIterator
  <2>2. ASSUME NEW j \in 1..Len(tebs), NEW k \in 1..Len(tebs), swapped[j].id = swapped[k].id
        PROVE  j = k
    <3>. DEFINE from(l) == IF l = 1 THEN i ELSE IF l = i THEN 1 ELSE l
    <3>1. swapped[j].id = tebs[from(j)].id /\ swapped[k].id = tebs[from(k)].id
      BY <1>1, <1>2, <1>3
    <3>2. from(j) \in DOMAIN tebs /\ from(k) \in DOMAIN tebs
      BY <1>1
    <3>3. from(j) = from(k)
      BY <3>1, <3>2, <2>2 DEF IInv, NoTebTwice
    <3>. QED  BY <3>3
  <2>. QED  BY <2>1, <2>2, <1>3, <1>4 DEF NoTebTwice
<1>7. ReanalyzedSoFar'
  <2>1. s \in ValidSigs \/ (s \notin ValidSigs /\ s # None)
    BY ConstantsAssumption DEF ConstantsAssumption
  <2>2. tebs'[1].id = best' /\ tebs'[1].sig = s
    BY <1>1, <1>2, <1>3, <1>4 DEF RenewBest
  <2>. QED
    BY <2>1, <2>2, <1>4, <1>8
    DEF ReanalyzedSoFar, BestInFront, ClassesSoFar, BestUnclassified
<1>. QED
  BY <1>4, <1>5, <1>6, <1>7 DEF IInv, ContainersInStep, Reanalyzed,
     ClassesMatchTebs, SelectionIsACandidate, CheckedTebIsCommanded

\* renewAndAnalyzeOldTebs() without a best TEB: the scan starts over an empty
\* class container.
LEMMA RenewWithoutBestStep ==
  ASSUME IInv, RenewWithoutBest
  PROVE  IInv'
BY EmptySeq, LenProperties, ConstantsAssumption
DEF RenewWithoutBest, IInv, TypeOK, AtMostMaxClasses, NoTebTwice, LoopIterator, ReanalyzedSoFar,
    BestInFront, ClassesSoFar, ContainersInStep, Reanalyzed, ClassesMatchTebs,
        SelectionIsACandidate, CheckedTebIsCommanded,
    InContainer, Ids, pointerVars, Phases, ConstantsAssumption

\* One iteration of the loop of renewAndAnalyzeOldTebs().
LEMMA ReanalyzeTebStep ==
  ASSUME IInv, NEW s \in Sigs, ReanalyzeTeb(s)
  PROVE  IInv'
<1>1. /\ Len(tebs) \in Nat /\ DOMAIN tebs = 1..Len(tebs) /\ Len(classes) \in Nat
      /\ \A j \in 1..Len(tebs) : tebs[j] \in Teb
      /\ it \in 1..Len(tebs) /\ it \in Nat
  BY Containers DEF IInv, LoopIterator, ReanalyzeTeb
<1>2. /\ pc = "reanalyze" /\ pc' = "reanalyze"
      /\ UNCHANGED <<best, last_best, best_class, initial_teb, initial_class, initial_plan,
                     since_switch, infeasible, pending>>
  BY DEF ReanalyzeTeb, pointerVars
<1>3. BestInFront /\ (ClassesSoFar \/ BestUnclassified)
  BY <1>2 DEF IInv, ReanalyzedSoFar
<1>4. CASE /\ IsNewClass(s) /\ classes' = Append(classes, EqRel(s, FALSE))
           /\ tebs' = [tebs EXCEPT ![it].sig = s] /\ it' = it + 1
  <2>. DEFINE teb == [tebs[it] EXCEPT !.sig = s]
  <2>1. teb \in Teb /\ teb.id = tebs[it].id /\ teb.sig = s
    BY <1>1 DEF Teb
  <2>2. tebs' = [tebs EXCEPT ![it] = teb]
    BY <1>4
  <2>. HIDE DEF teb
  <2>3. /\ tebs' \in Seq(Teb) /\ Len(tebs') = Len(tebs) /\ DOMAIN tebs' = 1..Len(tebs)
        /\ \A j \in 1..Len(tebs) : tebs'[j] = IF j = it THEN teb ELSE tebs[j]
    BY <1>1, <2>1, <2>2, ExceptSeq, LenProperties DEF IInv, TypeOK
  <2>4. EqRel(s, FALSE) \in EqRels /\ EqRel(s, FALSE).sig = s
    BY DEF EqRel, EqRels
  <2>5. /\ classes' \in Seq(EqRels) /\ Len(classes') = Len(classes) + 1
        /\ \A j \in 1..Len(classes) : classes'[j] = classes[j]
        /\ classes'[Len(classes) + 1].sig = s
    <3>1. classes' = Append(classes, EqRel(s, FALSE)) /\ classes \in Seq(EqRels)
      BY <1>4 DEF IInv, TypeOK
    <3>2. /\ Append(classes, EqRel(s, FALSE)) \in Seq(EqRels)
          /\ Len(Append(classes, EqRel(s, FALSE))) = Len(classes) + 1
          /\ \A j \in 1..Len(classes) : Append(classes, EqRel(s, FALSE))[j] = classes[j]
          /\ Append(classes, EqRel(s, FALSE))[Len(classes) + 1] = EqRel(s, FALSE)
      BY <3>1, <2>4, AppendProperties
    <3>. QED  BY <3>1, <3>2, <2>4
  <2>6. \A j \in 1..Len(tebs) : tebs'[j].id = tebs[j].id
    BY <2>1, <2>3
  <2>7. Ids' = Ids
    BY <2>3, <2>6, <1>1 DEF Ids
  <2>8. TypeOK'
    <3>1. it' \in 0..(MaxClasses + 1)
      BY <1>1, <1>4, ConstantsAssumption DEF IInv, AtMostMaxClasses, ConstantsAssumption
    <3>. QED  BY <3>1, <1>2, <2>3, <2>5 DEF IInv, TypeOK
  <2>9. AtMostMaxClasses' /\ LoopIterator'
    BY <2>3, <1>1, <1>4 DEF IInv, AtMostMaxClasses, LoopIterator
  <2>10. NoTebTwice'
    BY <2>3, <2>6, <1>1 DEF IInv, NoTebTwice
  <2>11. BestInFront'
    BY <2>6, <2>7, <1>1, <1>2, <1>3, <1>4 DEF BestInFront, InContainer
  <2>12. ASSUME ClassesSoFar  PROVE ReanalyzedSoFar'
    <3>1. Len(classes) = it - 1 /\ Len(classes') = it' - 1
      BY <2>5, <2>12, <1>1, <1>4 DEF ClassesSoFar
    <3>2. ASSUME NEW j \in 1..(it' - 1)  PROVE classes'[j].sig = tebs'[j].sig
      <4>1. CASE j = it
        BY <4>1, <3>1, <2>1, <2>3, <2>5, <1>1
      <4>2. CASE j # it
        <5>1. j \in 1..(it - 1) /\ j \in 1..Len(tebs) /\ j \in 1..Len(classes)
          BY <4>2, <3>1, <3>2, <1>1, <1>4
        <5>. QED  BY <5>1, <4>2, <2>3, <2>5, <2>12 DEF ClassesSoFar
      <4>. QED  BY <4>1, <4>2
    <3>3. ClassesSoFar'
      BY <3>1, <3>2 DEF ClassesSoFar
    <3>. QED  BY <3>3, <2>11 DEF ReanalyzedSoFar
  <2>13. ASSUME BestUnclassified  PROVE ReanalyzedSoFar'
    <3>1. BestUnclassified'
      BY <2>5, <2>13, <1>1, <1>2, <1>4 DEF BestUnclassified
    <3>. QED  BY <3>1, <2>11 DEF ReanalyzedSoFar
  <2>14. ReanalyzedSoFar'
    BY <2>12, <2>13, <1>3
  <2>. QED
    BY <2>8, <2>9, <2>10, <2>14, <1>2 DEF IInv, ContainersInStep, Reanalyzed, ClassesMatchTebs,
       SelectionIsACandidate, CheckedTebIsCommanded
<1>5. CASE tebs' = RemoveAt(tebs, it) /\ UNCHANGED <<classes, it>>
  <2>1. /\ tebs' \in Seq(Teb) /\ Len(tebs') = Len(tebs) - 1
        /\ \A j \in 1..(Len(tebs) - 1) : tebs'[j] = IF j < it THEN tebs[j] ELSE tebs[j + 1]
        /\ AtMostMaxClasses' /\ NoTebTwice' /\ Ids' \subseteq Ids
    BY <1>1, <1>5, EraseTeb DEF IInv
  <2>2. TypeOK'
    BY <2>1, <1>2, <1>5 DEF IInv, TypeOK
  <2>3. LoopIterator'
    BY <2>1, <1>1, <1>5 DEF LoopIterator
  <2>4. \A j \in 1..(it - 1) : tebs'[j] = tebs[j]
    BY <2>1, <1>1
  <2>5. BestInFront'
    BY <2>1, <2>4, <1>1, <1>2, <1>3, <1>5 DEF BestInFront, InContainer
  <2>6. (ClassesSoFar \/ BestUnclassified)'
    BY <2>4, <1>2, <1>3, <1>5 DEF ClassesSoFar, BestUnclassified
  <2>7. ReanalyzedSoFar'
    BY <2>5, <2>6 DEF ReanalyzedSoFar
  <2>. QED
    BY <2>1, <2>2, <2>3, <2>7, <1>2 DEF IInv, ContainersInStep, Reanalyzed, ClassesMatchTebs,
       SelectionIsACandidate, CheckedTebIsCommanded
<1>. QED  BY <1>4, <1>5 DEF ReanalyzeTeb

\* The end of the reanalysis: every TEB left has got its entry.
LEMMA ReanalyzeDoneStep ==
  ASSUME IInv, ReanalyzeDone
  PROVE  IInv'
<1>1. Len(tebs) \in Nat /\ Len(classes) \in Nat /\ DOMAIN tebs = 1..Len(tebs)
  BY Containers DEF IInv
<1>2. /\ UNCHANGED <<tebs, classes, best, last_best, best_class, initial_teb, initial_class,
                     initial_plan, since_switch, infeasible, pending>>
      /\ pc = "reanalyze" /\ pc' \in {"drop", "detours"} /\ it' = 1 /\ it > Len(tebs)
  BY DEF ReanalyzeDone, pointerVars
<1>3. it = Len(tebs) + 1
  BY <1>1, <1>2 DEF IInv, LoopIterator
<1>4. ASSUME ClassesSoFar  PROVE ContainersInStep' /\ ClassesMatchTebs'
  <2>1. Len(classes) = Len(tebs) /\ \A j \in DOMAIN tebs : classes[j].sig = tebs[j].sig
    BY <1>1, <1>3, <1>4 DEF ClassesSoFar
  <2>. QED  BY <2>1, <1>2 DEF ContainersInStep, ClassesMatchTebs
<1>5. ASSUME BestUnclassified  PROVE ContainersInStep' /\ ClassesMatchTebs'
  <2>1. Len(classes) = Len(tebs) - 1 /\ Len(classes) # Len(tebs)
    <3>1. Len(classes) = it - 2
      BY <1>5 DEF BestUnclassified
    <3>. QED  BY <3>1, <1>1, <1>3
  <2>2. best_class' \notin ValidSigs /\ best_class' # None
    BY <1>2, <1>5 DEF BestUnclassified
  <2>. QED  BY <2>1, <2>2, <1>2 DEF ContainersInStep, ClassesMatchTebs
<1>6. TypeOK'
  BY <1>2, ConstantsAssumption DEF IInv, TypeOK, Phases, ConstantsAssumption
<1>7. AtMostMaxClasses' /\ NoTebTwice' /\ LoopIterator'
  BY <1>1, <1>2 DEF IInv, AtMostMaxClasses, NoTebTwice, LoopIterator
<1>8. ClassesSoFar \/ BestUnclassified
  BY <1>2 DEF IInv, ReanalyzedSoFar
<1>9. ContainersInStep' /\ ClassesMatchTebs'
  BY <1>4, <1>5, <1>8
<1>. QED
  BY <1>2, <1>6, <1>7, <1>9 DEF IInv, ReanalyzedSoFar, SelectionIsACandidate, CheckedTebIsCommanded

\* A step that leaves the containers as they are.
LEMMA QuietStep ==
  ASSUME IInv, Reanalyzed, UNCHANGED <<tebs, classes, best_class>>, pc' # "reanalyze",
         TypeOK', LoopIterator', SelectionIsACandidate', CheckedTebIsCommanded'
  PROVE  IInv'
<1>1. AtMostMaxClasses' /\ NoTebTwice'
  BY DEF IInv, AtMostMaxClasses, NoTebTwice
<1>2. ContainersInStep' /\ ClassesMatchTebs'
  BY DEF IInv, ContainersInStep, ClassesMatchTebs
<1>. QED  BY <1>1, <1>2 DEF IInv, ReanalyzedSoFar

\* deletePlansDetouringBackwards() keeps a plan: only the iterator moves.
LEMMA KeepPlanStep ==
  ASSUME IInv, KeepPlan
  PROVE  IInv'
<1>1. /\ UNCHANGED <<tebs, classes, best_class>> /\ Reanalyzed /\ pc = "detours" /\ pc' = "detours"
      /\ it <= Len(tebs) /\ it' = it + 1
  BY DEF KeepPlan, pointerVars, Reanalyzed
<1>2. LoopIterator' /\ it' \in 0..(MaxClasses + 1)
  BY <1>1, Containers, ConstantsAssumption
  DEF IInv, AtMostMaxClasses, LoopIterator, ConstantsAssumption
<1>3. TypeOK'
  BY <1>2 DEF KeepPlan, pointerVars, IInv, TypeOK
<1>. QED  BY <1>1, <1>2, <1>3, QuietStep DEF SelectionIsACandidate, CheckedTebIsCommanded

\* Erasing in the loops over a reanalyzed container.
LEMMA EraseBothStep ==
  ASSUME IInv, Reanalyzed, pc' # "reanalyze", EraseBoth(it), it \in 1..Len(tebs), it \in 1..Len(classes),
         UNCHANGED <<pointerVars, initial_plan, since_switch, infeasible, pending, it, pc>>,
         pc \in {"detours", "drop"}
  PROVE  IInv'
<1>1. /\ tebs' \in Seq(Teb) /\ Len(tebs') = Len(tebs) - 1 /\ AtMostMaxClasses' /\ NoTebTwice'
  BY EraseTeb DEF EraseBoth, IInv
<1>2. classes' \in Seq(EqRels) /\ ContainersInStep' /\ ClassesMatchTebs'
  BY EraseBothKeepsStep DEF pointerVars
<1>3. TypeOK'
  BY <1>1, <1>2 DEF IInv, TypeOK, pointerVars
<1>4. LoopIterator'
  BY <1>1, Containers DEF IInv, LoopIterator
<1>. QED
  BY <1>1, <1>2, <1>3, <1>4 DEF IInv, ReanalyzedSoFar, SelectionIsACandidate, CheckedTebIsCommanded

\* deletePlansDetouringBackwards() erases a plan and its class together.
LEMMA DeleteDetourStep ==
  ASSUME IInv, DeleteDetour
  PROVE  IInv'
<1>0. pc = "detours" /\ it <= Len(tebs)
  BY DEF DeleteDetour
<1>1. /\ pc = "detours" /\ Reanalyzed /\ it \in 1..Len(tebs)
      /\ UNCHANGED <<pointerVars, initial_plan, since_switch, infeasible, pending>>
  <2>1. it \in 1..Len(tebs)
    BY <1>0, Containers DEF IInv, LoopIterator
  <2>. QED  BY <1>0, <2>1 DEF DeleteDetour, Reanalyzed
<1>2. CASE Len(classes) = Len(tebs) /\ EraseBoth(it) /\ UNCHANGED <<it, pc>>
  BY <1>1, <1>2, EraseBothStep
<1>3. CASE it' = 1 /\ pc' = "drop" /\ UNCHANGED <<tebs, classes>>
  <2>1. TypeOK' /\ LoopIterator'
    BY <1>1, <1>3, Containers, ConstantsAssumption
    DEF IInv, TypeOK, pointerVars, LoopIterator, Phases, ConstantsAssumption
  <2>. QED
    BY <1>1, <1>3, <2>1, QuietStep DEF pointerVars, SelectionIsACandidate, CheckedTebIsCommanded
<1>. QED  BY <1>2, <1>3 DEF DeleteDetour

\* The end of the detour pass starts the dropping pass at the front.
LEMMA DetoursDoneStep ==
  ASSUME IInv, DetoursDone
  PROVE  IInv'
<1>1. /\ pc = "detours" /\ Reanalyzed /\ it' = 1 /\ pc' = "drop" /\ UNCHANGED <<tebs, classes, best_class>>
  BY DEF DetoursDone, Reanalyzed, pointerVars
<1>2. TypeOK'
  BY <1>1, ConstantsAssumption
  DEF DetoursDone, IInv, TypeOK, pointerVars, Phases, ConstantsAssumption
<1>3. LoopIterator'
  BY <1>1, Containers DEF IInv, LoopIterator
<1>. QED  BY <1>1, <1>2, <1>3, QuietStep DEF SelectionIsACandidate, CheckedTebIsCommanded

\* randomlyDropTebs() erases a TEB and its class together.
LEMMA RandomlyDropTebStep ==
  ASSUME IInv, RandomlyDropTeb
  PROVE  IInv'
<1>1. /\ pc = "drop" /\ pc' = "drop" /\ Reanalyzed /\ it \in 1..Len(tebs) /\ it \in 1..Len(classes)
      /\ UNCHANGED <<pointerVars, initial_plan, since_switch, infeasible, pending>>
  BY Containers DEF RandomlyDropTeb, DropInRange, Reanalyzed, IInv, LoopIterator
<1>2. CASE EraseBoth(it) /\ UNCHANGED it
  BY <1>1, <1>2, EraseBothStep
<1>3. CASE it' = it + 1 /\ UNCHANGED <<tebs, classes>>
  <2>1. LoopIterator' /\ it' \in 0..(MaxClasses + 1)
    BY <1>1, <1>3, Containers, ConstantsAssumption
    DEF IInv, AtMostMaxClasses, LoopIterator, ConstantsAssumption
  <2>2. TypeOK'
    BY <1>1, <1>3, <2>1 DEF IInv, TypeOK, pointerVars
  <2>. QED
    BY <1>1, <1>3, <2>1, <2>2, QuietStep
    DEF pointerVars, SelectionIsACandidate, CheckedTebIsCommanded
<1>. QED  BY <1>2, <1>3 DEF RandomlyDropTeb

\* The end of the dropping pass leaves the containers alone.
LEMMA RandomlyDropDoneStep ==
  ASSUME IInv, RandomlyDropDone
  PROVE  IInv'
<1>1. /\ pc = "drop" /\ Reanalyzed /\ pc' = "inject" /\ UNCHANGED <<tebs, classes, best_class>>
  BY DEF RandomlyDropDone, Reanalyzed, pointerVars
<1>2. TypeOK'
  BY <1>1, ConstantsAssumption
  DEF RandomlyDropDone, IInv, TypeOK, pointerVars, Phases, ConstantsAssumption
<1>. QED  BY <1>1, <1>2, QuietStep DEF LoopIterator, SelectionIsACandidate, CheckedTebIsCommanded

-----------------------------------------------------------------------------
(* Steps of plan() over new trajectories.                                  *)

\* addAndInitNewTeb(initial_plan): a TEB is appended only with a new class,
\* and only below the limit.
LEMMA InjectInitialPlanStep ==
  ASSUME IInv, InjectInitialPlan
  PROVE  IInv'
<1>1. /\ pc = "inject" /\ Reanalyzed /\ pc' = "explore" /\ initial_plan \in Sigs
      /\ UNCHANGED <<best, last_best, best_class, initial_plan, since_switch, infeasible, pending, it>>
  BY DEF InjectInitialPlan, Reanalyzed, IInv, TypeOK
<1>2. initial_class' \in Sigs \cup {None}
  BY <1>1 DEF InjectInitialPlan, IInv, TypeOK
<1>3. CASE initial_teb' = None /\ UNCHANGED <<tebs, classes>>
  <2>1. TypeOK'
    BY <1>1, <1>2, <1>3 DEF IInv, TypeOK, Phases
  <2>. QED
    BY <1>1, <1>3, <2>1, QuietStep DEF LoopIterator, SelectionIsACandidate, CheckedTebIsCommanded
<1>4. CASE /\ Len(tebs) < MaxClasses
           /\ \E t \in LowestFree : PushTeb(t, initial_plan, TRUE) /\ initial_teb' = t
  <2>1. PICK t \in LowestFree : PushTeb(t, initial_plan, TRUE) /\ initial_teb' = t
    BY <1>4
  <2>2. /\ t \in Tebs /\ tebs' \in Seq(Teb) /\ classes' \in Seq(EqRels)
        /\ AtMostMaxClasses' /\ NoTebTwice' /\ ContainersInStep' /\ ClassesMatchTebs'
    BY <1>1, <1>4, <2>1, PushTebKeepsStep
  <2>3. TypeOK'
    BY <1>1, <1>2, <2>1, <2>2 DEF IInv, TypeOK, Phases
  <2>. QED
    BY <1>1, <2>2, <2>3 DEF IInv, LoopIterator, ReanalyzedSoFar, SelectionIsACandidate,
       CheckedTebIsCommanded
<1>. QED  BY <1>3, <1>4 DEF InjectInitialPlan

\* getInitialPlanTEB() only touches the locks.
LEMMA Relocked ==
  ASSUME IInv
  PROVE  /\ RelockedClasses \in Seq(EqRels) /\ Len(RelockedClasses) = Len(classes)
         /\ DOMAIN RelockedClasses = DOMAIN classes
         /\ \A i \in DOMAIN classes : RelockedClasses[i].sig = classes[i].sig
<1>1. Len(classes) \in Nat /\ DOMAIN classes = 1..Len(classes)
      /\ \A i \in 1..Len(classes) : classes[i].sig \in Sigs
  BY Containers DEF IInv, EqRels
<1>2. RelockedClasses \in [1..Len(classes) -> EqRels]
  BY <1>1 DEF RelockedClasses, EqRel, EqRels
<1>. QED  BY <1>1, <1>2, FunctionIsSeq DEF RelockedClasses, EqRel

\* A step that at most touches the locks keeps the containers in step.
LEMMA RelockKeepsStep ==
  ASSUME IInv, Reanalyzed, UNCHANGED <<tebs, best_class>>, classes' \in {classes, RelockedClasses}
  PROVE  /\ classes' \in Seq(EqRels)
         /\ AtMostMaxClasses' /\ NoTebTwice' /\ ContainersInStep' /\ ClassesMatchTebs'
<1>1. /\ Len(classes') = Len(classes) /\ DOMAIN classes' = DOMAIN classes
      /\ classes' \in Seq(EqRels) /\ \A i \in DOMAIN classes : classes'[i].sig = classes[i].sig
  BY Relocked DEF IInv, TypeOK
<1>2. DOMAIN tebs = 1..Len(tebs) /\ DOMAIN classes = 1..Len(classes)
  BY Containers DEF IInv
<1>3. AtMostMaxClasses' /\ NoTebTwice'
  BY DEF IInv, AtMostMaxClasses, NoTebTwice
<1>4. ContainersInStep'
  BY <1>1 DEF IInv, ContainersInStep
<1>5. ClassesMatchTebs'
  BY <1>1, <1>2 DEF IInv, ClassesMatchTebs
<1>. QED  BY <1>1, <1>3, <1>4, <1>5

\* A matched TEB is one of the container.
LEMMA MatchedTebType ==
  ASSUME IInv
  PROVE  MatchedTeb \in Tebs \cup {None}
<1>1. /\ DOMAIN tebs = 1..Len(tebs) /\ DOMAIN classes = 1..Len(classes)
      /\ \A i \in 1..Len(tebs) : tebs[i].id \in Tebs
  BY Containers DEF IInv
<1>2. CASE InitialPlanMatches = {}
  BY <1>2 DEF MatchedTeb
<1>3. CASE InitialPlanMatches # {}
  <2>1. InitialPlanMatches \subseteq DOMAIN classes /\ Len(classes) = Len(tebs)
    BY <1>3 DEF InitialPlanMatches
  <2>2. InitialPlanMatches \in SUBSET Nat
    BY <2>1, <1>1
  <2>3. FirstMatch \in InitialPlanMatches
    BY <2>2, <1>3, LeastNatural DEF FirstMatch
  <2>. QED  BY <1>1, <1>3, <2>1, <2>3 DEF MatchedTeb
<1>. QED  BY <1>2, <1>3

\* getInitialPlanTEB(): locking classes touches no signature.
LEMMA FindInitialPlanTebStep ==
  ASSUME IInv, FindInitialPlanTeb
  PROVE  IInv'
<1>1. /\ pc = "inject" /\ Reanalyzed /\ pc' = "explore" /\ classes' = RelockedClasses
      /\ initial_teb' = MatchedTeb
      /\ UNCHANGED <<tebs, best, last_best, best_class, initial_class, initial_plan,
                     since_switch, infeasible, pending, it>>
  BY DEF FindInitialPlanTeb, Reanalyzed
<1>2. classes' \in Seq(EqRels) /\ AtMostMaxClasses' /\ NoTebTwice' /\ ContainersInStep' /\ ClassesMatchTebs'
  BY <1>1, RelockKeepsStep
<1>3. TypeOK'
  BY <1>1, <1>2, MatchedTebType DEF IInv, TypeOK, Phases
<1>. QED
  BY <1>1, <1>2, <1>3
  DEF IInv, LoopIterator, ReanalyzedSoFar, SelectionIsACandidate, CheckedTebIsCommanded

\* addAndInitNewTeb(): a path of the graph search adds a TEB with its class,
\* below the limit.
LEMMA ExploreCandidateStep ==
  ASSUME IInv, NEW s \in Sigs, ExploreCandidate(s)
  PROVE  IInv'
<1>1. /\ pc = "explore" /\ Reanalyzed /\ Len(tebs) < MaxClasses
      /\ UNCHANGED <<pointerVars, initial_plan, since_switch, infeasible, pending, it, pc>>
  BY DEF ExploreCandidate, Reanalyzed
<1>2. PICK t \in LowestFree : PushTeb(t, s, FALSE)
  BY DEF ExploreCandidate
<1>3. /\ tebs' \in Seq(Teb) /\ classes' \in Seq(EqRels)
      /\ AtMostMaxClasses' /\ NoTebTwice' /\ ContainersInStep' /\ ClassesMatchTebs'
  BY <1>1, <1>2, PushTebKeepsStep DEF pointerVars
<1>4. TypeOK'
  BY <1>1, <1>3 DEF IInv, TypeOK, pointerVars
<1>. QED
  BY <1>1, <1>3, <1>4
  DEF IInv, LoopIterator, ReanalyzedSoFar, SelectionIsACandidate, CheckedTebIsCommanded

\* The end of the exploration leaves the containers alone.
LEMMA ExploreDoneStep ==
  ASSUME IInv, ExploreDone
  PROVE  IInv'
<1>1. /\ pc = "explore" /\ Reanalyzed /\ pc' = "via" /\ UNCHANGED <<tebs, classes, best_class>>
  BY DEF ExploreDone, Reanalyzed, pointerVars
<1>2. TypeOK'
  BY <1>1 DEF ExploreDone, IInv, TypeOK, pointerVars, Phases
<1>. QED  BY <1>1, <1>2, QuietStep DEF LoopIterator, SelectionIsACandidate, CheckedTebIsCommanded

\* A step that changes attributes of the TEBs, but no address and no class.
LEMMA SameTebs ==
  ASSUME IInv, Reanalyzed, tebs' \in Seq(Teb), Len(tebs') = Len(tebs),
         \A i \in 1..Len(tebs) : tebs'[i].id = tebs[i].id /\ tebs'[i].sig = tebs[i].sig,
         UNCHANGED <<classes, best_class>>
  PROVE  /\ AtMostMaxClasses' /\ NoTebTwice' /\ ContainersInStep' /\ ClassesMatchTebs'
<1>1. DOMAIN tebs = 1..Len(tebs) /\ DOMAIN tebs' = 1..Len(tebs)
  BY Containers, LenProperties DEF IInv
<1>2. AtMostMaxClasses'
  BY DEF IInv, AtMostMaxClasses
<1>3. NoTebTwice'
  BY <1>1 DEF IInv, NoTebTwice
<1>4. ContainersInStep'
  BY DEF IInv, ContainersInStep
<1>5. ClassesMatchTebs'
  BY <1>1 DEF IInv, ClassesMatchTebs
<1>. QED  BY <1>2, <1>3, <1>4, <1>5

\* updateReferenceTrajectoryViaPoints() marks TEBs without moving them.
LEMMA ViaPointsStep ==
  ASSUME IInv, NEW none \in BOOLEAN, UpdateReferenceTrajectoryViaPoints(none)
  PROVE  IInv'
<1>. DEFINE guide(i) == ViaPointsAllCandidates \/ <<initial_class, classes[i].sig>> \in Similar
            guided == [i \in DOMAIN tebs |-> [tebs[i] EXCEPT !.guided = guide(i)]]
<1>1. /\ pc = "via" /\ Reanalyzed /\ pc' = "optimize" /\ pending' = Ids
      /\ UNCHANGED <<classes, pointerVars, initial_plan, since_switch, infeasible, it>>
      /\ tebs' = tebs \/ tebs' = guided
  BY DEF UpdateReferenceTrajectoryViaPoints, Reanalyzed
<1>2. /\ Len(tebs) \in Nat /\ DOMAIN tebs = 1..Len(tebs)
      /\ \A i \in 1..Len(tebs) : tebs[i] \in Teb /\ tebs[i].id \in Tebs
  BY Containers DEF IInv
<1>3. \A i \in 1..Len(tebs) : guide(i) \in BOOLEAN
  BY ConstantsAssumption DEF ConstantsAssumption
<1>4. ASSUME NEW i \in 1..Len(tebs)
      PROVE  /\ [tebs[i] EXCEPT !.guided = guide(i)] \in Teb
             /\ [tebs[i] EXCEPT !.guided = guide(i)].id = tebs[i].id
             /\ [tebs[i] EXCEPT !.guided = guide(i)].sig = tebs[i].sig
  <2>. HIDE DEF guide
  <2>. QED  BY <1>2, <1>3 DEF Teb
<1>5. /\ guided \in Seq(Teb) /\ Len(guided) = Len(tebs)
      /\ \A i \in 1..Len(tebs) : guided[i].id = tebs[i].id /\ guided[i].sig = tebs[i].sig
  <2>. HIDE DEF guide
  <2>1. guided \in [1..Len(tebs) -> Teb]
    BY <1>2, <1>4
  <2>. QED  BY <2>1, <1>2, <1>4, FunctionIsSeq
<1>. HIDE DEF guided
<1>6. /\ tebs' \in Seq(Teb) /\ Len(tebs') = Len(tebs)
      /\ \A i \in 1..Len(tebs) : tebs'[i].id = tebs[i].id /\ tebs'[i].sig = tebs[i].sig
  BY <1>1, <1>5 DEF IInv, TypeOK
<1>7. AtMostMaxClasses' /\ NoTebTwice' /\ ContainersInStep' /\ ClassesMatchTebs'
  BY <1>1, <1>6, SameTebs DEF pointerVars
<1>8. Ids \subseteq Tebs
  BY <1>2 DEF Ids
<1>9. TypeOK'
  BY <1>1, <1>6, <1>8 DEF IInv, TypeOK, pointerVars, Phases
<1>. QED
  BY <1>1, <1>7, <1>9
  DEF IInv, LoopIterator, ReanalyzedSoFar, SelectionIsACandidate, CheckedTebIsCommanded

-----------------------------------------------------------------------------
(* Optimization and selection.                                             *)

\* optimizeAllTEBs(): the result of one TEB changes no TEB's place.
LEMMA OptimizeTebStep ==
  ASSUME IInv, NEW i \in DOMAIN tebs, NEW c \in Costs \cup {NoCost}, NEW success \in BOOLEAN,
         OptimizeTeb(i, c, success)
  PROVE  IInv'
<1>. DEFINE teb == [[tebs[i] EXCEPT !.optimized = success]
                      EXCEPT !.cost = IF success THEN c ELSE tebs[i].cost]
<1>1. /\ pc = "optimize" /\ Reanalyzed /\ pc' = "optimize" /\ pending' \subseteq pending
      /\ UNCHANGED <<classes, pointerVars, initial_plan, since_switch, infeasible, it, pc>>
  BY DEF OptimizeTeb, Reanalyzed
<1>2. /\ DOMAIN tebs = 1..Len(tebs) /\ \A j \in 1..Len(tebs) : tebs[j] \in Teb
  BY Containers DEF IInv
<1>3. teb \in Teb /\ teb.id = tebs[i].id /\ teb.sig = tebs[i].sig
  BY <1>2 DEF Teb
<1>4. tebs' = [tebs EXCEPT ![i] = teb]
  BY <1>2 DEF OptimizeTeb, Teb
<1>. HIDE DEF teb
<1>5. /\ tebs' \in Seq(Teb) /\ Len(tebs') = Len(tebs)
      /\ \A j \in 1..Len(tebs) : tebs'[j] = IF j = i THEN teb ELSE tebs[j]
  BY <1>2, <1>3, <1>4, ExceptSeq DEF IInv, TypeOK
<1>6. \A j \in 1..Len(tebs) : tebs'[j].id = tebs[j].id /\ tebs'[j].sig = tebs[j].sig
  BY <1>3, <1>5
<1>7. AtMostMaxClasses' /\ NoTebTwice' /\ ContainersInStep' /\ ClassesMatchTebs'
  BY <1>1, <1>5, <1>6, SameTebs DEF pointerVars
<1>8. TypeOK'
  BY <1>1, <1>5 DEF IInv, TypeOK, pointerVars
<1>. QED
  BY <1>1, <1>7, <1>8
  DEF IInv, LoopIterator, ReanalyzedSoFar, SelectionIsACandidate, CheckedTebIsCommanded

\* The end of the optimization leaves the containers alone.
LEMMA JoinAllStep ==
  ASSUME IInv, JoinAll
  PROVE  IInv'
<1>1. /\ pc = "optimize" /\ Reanalyzed /\ pc' = "select" /\ UNCHANGED <<tebs, classes, best_class>>
  BY DEF JoinAll, Reanalyzed, pointerVars
<1>2. TypeOK'
  BY <1>1 DEF JoinAll, IInv, TypeOK, pointerVars, Phases
<1>. QED  BY <1>1, <1>2, QuietStep DEF LoopIterator, SelectionIsACandidate, CheckedTebIsCommanded

\* The costs compared are natural numbers.
LEMMA RankType ==
  ASSUME TypeOK, NEW i \in Candidates
  PROVE  i \in DOMAIN tebs /\ Rank(tebs[i]) \in Nat
<1>1. i \in DOMAIN tebs /\ tebs[i].cost \in Nat
  BY ConstantsAssumption DEF Candidates, ConstantsAssumption
<1>2. Weight.last \in Nat /\ Weight.initial \in Nat /\ Weight.plain \in Nat
  BY ConstantsAssumption DEF ConstantsAssumption
<1>3. (IF tebs[i].id = best THEN Weight.last
       ELSE IF tebs[i].id = InitialPlanTeb THEN Weight.initial ELSE Weight.plain) \in Nat
  BY <1>2
<1>. QED  BY <1>1, <1>3, ProductNatural DEF Rank

\* When there is a candidate, the cheapest is the first of least rank.
LEMMA CheapestIsCheapest ==
  ASSUME TypeOK, Candidates # {}
  PROVE  \E i \in Candidates :
           /\ Cheapest = tebs[i].id
           /\ \A j \in Candidates : Rank(tebs[i]) <= Rank(tebs[j])
           /\ \A j \in Candidates : j < i => Rank(tebs[i]) < Rank(tebs[j])
<1>. DEFINE Ranks == {Rank(tebs[i]) : i \in Candidates}
            P(i) == /\ \A j \in Candidates : Rank(tebs[i]) <= Rank(tebs[j])
                    /\ \A j \in Candidates : j < i => Rank(tebs[i]) < Rank(tebs[j])
<1>1. Candidates \in SUBSET Nat /\ \A i \in Candidates : Rank(tebs[i]) \in Nat
  BY RankType, Containers DEF Candidates
<1>2. PICK m \in Ranks : \A n \in Ranks : m <= n
  <2>1. Ranks \in SUBSET Nat /\ Ranks # {}
    BY <1>1
  <2>. HIDE DEF Ranks
  <2>. QED  BY <2>1, LeastNatural
<1>. DEFINE Least == {i \in Candidates : Rank(tebs[i]) = m}
<1>3. PICK k \in Least : \A n \in Least : k <= n
  <2>1. Least \in SUBSET Nat /\ Least # {}
    BY <1>1, <1>2
  <2>. HIDE DEF Least
  <2>. QED  BY <2>1, LeastNatural
<1>4. k \in Candidates /\ P(k)
  <2>1. \A j \in Candidates : Rank(tebs[k]) <= Rank(tebs[j])
    BY <1>2, <1>3
  <2>2. ASSUME NEW j \in Candidates, j < k  PROVE Rank(tebs[k]) < Rank(tebs[j])
    <3>1. ~(k <= j)
      BY <2>2, <1>1, <1>3
    <3>2. Rank(tebs[j]) # m /\ m <= Rank(tebs[j]) /\ Rank(tebs[k]) = m
      BY <3>1, <1>2, <1>3
    <3>. QED  BY <3>2, <1>1, <1>3
  <2>. QED  BY <2>1, <2>2, <1>3
<1>5. Cheapest = tebs[CHOOSE i \in Candidates : P(i)].id
  BY DEF Cheapest
<1>. HIDE DEF P
<1>6. (CHOOSE i \in Candidates : P(i)) \in Candidates /\ P(CHOOSE i \in Candidates : P(i))
  BY <1>4
<1>. QED  BY <1>5, <1>6 DEF P

\* What selectBestTeb() may do to the pointers and the locks.
LEMMA SelectBestTebTypes ==
  ASSUME IInv, SelectBestTeb, UNCHANGED tebs
  PROVE  /\ best' \in Tebs \cup {None} /\ last_best' \in Tebs \cup {None}
         /\ initial_teb' \in Tebs \cup {None}
         /\ since_switch' \in 0..(BlockingPeriod + 1)
         /\ classes' \in {classes, RelockedClasses}
         /\ IF best' = None THEN Candidates = {} ELSE best' \in Ids
<1>1. best \in Tebs \cup {None} /\ initial_teb \in Tebs \cup {None} /\ None \notin Tebs
      /\ since_switch \in 0..(BlockingPeriod + 1) /\ BlockingPeriod \in Nat
  BY ConstantsAssumption DEF IInv, TypeOK, ConstantsAssumption
<1>2. Ids \subseteq Tebs
  BY Containers DEF IInv, Ids
<1>3. IF Cheapest = None THEN Candidates = {} ELSE Cheapest \in Ids
  <2>1. CASE Candidates = {}
    BY <2>1 DEF Cheapest
  <2>2. CASE Candidates # {}
    <3>1. PICK i \in Candidates : Cheapest = tebs[i].id
      BY <2>2, CheapestIsCheapest DEF IInv
    <3>2. tebs[i].id \in Ids
      BY DEF Candidates, Ids
    <3>. QED  BY <3>1, <3>2, <1>1, <1>2
  <2>. QED  BY <2>1, <2>2
<1>4. IF best' = None THEN Candidates = {} ELSE best' \in Ids
  <2>1. CASE WantsSwitch /\ since_switch <= BlockingPeriod
    BY <2>1, <1>1, <1>2 DEF SelectBestTeb, WantsSwitch, InContainer
  <2>2. CASE ~(WantsSwitch /\ since_switch <= BlockingPeriod)
    BY <2>2, <1>3 DEF SelectBestTeb
  <2>. QED  BY <2>1, <2>2
<1>5. last_best' \in Tebs \cup {None} /\ initial_teb' \in Tebs \cup {None}
      /\ classes' \in {classes, RelockedClasses}
  BY <1>1 DEF SelectBestTeb
<1>6. since_switch' \in 0..(BlockingPeriod + 1)
  BY <1>1 DEF SelectBestTeb
<1>. QED  BY <1>2, <1>4, <1>5, <1>6

\* plan() ends with the selection of the best TEB.
LEMMA FinishPlanStep ==
  ASSUME IInv, FinishPlan
  PROVE  IInv'
<1>1. /\ pc = "select" /\ Reanalyzed /\ pc' = "planned" /\ initial_plan' = None /\ SelectBestTeb
      /\ UNCHANGED <<tebs, best_class, initial_class, infeasible, pending, it>>
  BY DEF FinishPlan, Reanalyzed
<1>2. /\ classes' \in Seq(EqRels)
      /\ AtMostMaxClasses' /\ NoTebTwice' /\ ContainersInStep' /\ ClassesMatchTebs'
  BY <1>1, SelectBestTebTypes, RelockKeepsStep
<1>3. TypeOK'
  BY <1>1, <1>2, SelectBestTebTypes DEF IInv, TypeOK, Phases
<1>4. SelectionIsACandidate'
  BY <1>1, SelectBestTebTypes DEF SelectionIsACandidate, InContainer, Ids, Candidates
<1>. QED
  BY <1>1, <1>2, <1>3, <1>4 DEF IInv, LoopIterator, ReanalyzedSoFar, CheckedTebIsCommanded

-----------------------------------------------------------------------------
(* Steps of the caller.                                                    *)

\* isTrajectoryFeasible() starts without a change of the planner.
LEMMA StartFeasibilityCheckStep ==
  ASSUME IInv, NEW bad \in SUBSET Ids, StartFeasibilityCheck(bad)
  PROVE  IInv'
<1>1. /\ pc = "planned" /\ Reanalyzed /\ pc' = "checking" /\ UNCHANGED <<tebs, classes, best_class>>
  BY DEF StartFeasibilityCheck, Reanalyzed, pointerVars
<1>2. Ids \subseteq Tebs
  BY Containers DEF IInv, Ids
<1>3. TypeOK'
  BY <1>1, <1>2 DEF StartFeasibilityCheck, IInv, TypeOK, pointerVars, Phases
<1>. QED  BY <1>1, <1>3, QuietStep DEF LoopIterator, SelectionIsACandidate, CheckedTebIsCommanded

\* findBestTeb(): the TEB to check next is a candidate.
LEMMA FindBestTebStep ==
  ASSUME IInv, FindBestTeb
  PROVE  IInv'
<1>1. /\ pc = "checking" /\ Reanalyzed /\ pc' \in {"rejected", "checking"} /\ SelectBestTeb
      /\ UNCHANGED <<tebs, best_class, initial_class, initial_plan, infeasible, pending, it>>
  BY DEF FindBestTeb, Reanalyzed
<1>2. /\ classes' \in Seq(EqRels)
      /\ AtMostMaxClasses' /\ NoTebTwice' /\ ContainersInStep' /\ ClassesMatchTebs'
  BY <1>1, SelectBestTebTypes, RelockKeepsStep
<1>3. TypeOK'
  BY <1>1, <1>2, SelectBestTebTypes DEF IInv, TypeOK, Phases
<1>. QED
  BY <1>1, <1>2, <1>3
  DEF IInv, LoopIterator, ReanalyzedSoFar, SelectionIsACandidate, CheckedTebIsCommanded

\* A feasible best TEB is the one the command will be taken from.
LEMMA BestIsFeasibleStep ==
  ASSUME IInv, BestIsFeasible
  PROVE  IInv'
<1>1. /\ pc = "checking" /\ Reanalyzed /\ pc' = "accepted" /\ InContainer(best) /\ best \notin infeasible
      /\ UNCHANGED <<tebs, classes, pointerVars, initial_plan, since_switch, infeasible, pending, it>>
  BY DEF BestIsFeasible, Reanalyzed
<1>2. TypeOK'
  BY <1>1 DEF IInv, TypeOK, pointerVars, Phases
<1>3. BestTeb = best
  <2>1. PICK i \in DOMAIN tebs : tebs[i].id = best
    BY <1>1 DEF InContainer, Ids
  <2>2. DOMAIN tebs = 1..Len(tebs) /\ (Len(tebs) = 1 => i = 1) /\ tebs # <<>>
    BY <2>1, Containers, EmptySeq DEF IInv
  <2>. QED  BY <2>1, <2>2 DEF BestTeb
<1>4. CheckedTebIsCommanded'
  BY <1>1, <1>3 DEF CheckedTebIsCommanded, BestTeb, InContainer, Ids, pointerVars
<1>. QED  BY <1>1, <1>2, <1>4, QuietStep DEF pointerVars, LoopIterator, SelectionIsACandidate

\* removeTeb(): TEB and class go together, or both stay.
LEMMA BestIsInfeasibleStep ==
  ASSUME IInv, BestIsInfeasible
  PROVE  IInv'
<1>1. /\ pc = "checking" /\ Reanalyzed /\ pc' \in {"rejected", "checking"}
      /\ UNCHANGED <<pointerVars, initial_plan, since_switch, infeasible, pending, it>>
  BY DEF BestIsInfeasible, Reanalyzed
<1>2. PICK i \in DOMAIN tebs :
        IF Len(classes) = Len(tebs) THEN EraseBoth(i) ELSE UNCHANGED <<tebs, classes>>
  BY DEF BestIsInfeasible
<1>3. CASE Len(classes) = Len(tebs) /\ EraseBoth(i)
  <2>1. i \in 1..Len(tebs) /\ i \in 1..Len(classes)
    BY <1>2, <1>3, Containers DEF IInv
  <2>2. tebs' \in Seq(Teb) /\ AtMostMaxClasses' /\ NoTebTwice'
    BY <2>1, <1>3, EraseTeb DEF EraseBoth, IInv
  <2>3. classes' \in Seq(EqRels) /\ ContainersInStep' /\ ClassesMatchTebs'
    BY <2>1, <1>1, <1>3, EraseBothKeepsStep DEF pointerVars
  <2>4. TypeOK'
    BY <2>2, <2>3, <1>1 DEF IInv, TypeOK, pointerVars, Phases
  <2>. QED
    BY <2>2, <2>3, <2>4, <1>1 DEF IInv, LoopIterator, ReanalyzedSoFar, SelectionIsACandidate,
       CheckedTebIsCommanded
<1>4. CASE UNCHANGED <<tebs, classes>>
  <2>1. TypeOK'
    BY <1>1, <1>4 DEF IInv, TypeOK, pointerVars, Phases
  <2>. QED
    BY <2>1, <1>1, <1>4, QuietStep
    DEF pointerVars, LoopIterator, SelectionIsACandidate, CheckedTebIsCommanded
<1>. QED  BY <1>2, <1>3, <1>4

\* Without a TEB the check is over and nothing changes.
LEMMA NothingFeasibleStep ==
  ASSUME IInv, NothingFeasible
  PROVE  IInv'
<1>1. /\ pc = "checking" /\ Reanalyzed /\ pc' = "rejected" /\ UNCHANGED <<tebs, classes, best_class>>
  BY DEF NothingFeasible, Reanalyzed, pointerVars
<1>2. TypeOK'
  BY <1>1 DEF NothingFeasible, IInv, TypeOK, pointerVars, Phases
<1>. QED  BY <1>1, <1>2, QuietStep DEF LoopIterator, SelectionIsACandidate, CheckedTebIsCommanded

\* getVelocityCommand() leaves the planner alone.
LEMMA GetVelocityCommandStep ==
  ASSUME IInv, GetVelocityCommand
  PROVE  IInv'
<1>1. /\ Reanalyzed /\ pc' = "idle" /\ UNCHANGED <<tebs, classes, best_class>>
  BY DEF GetVelocityCommand, Reanalyzed, pointerVars
<1>2. TypeOK'
  BY <1>1 DEF GetVelocityCommand, IInv, TypeOK, pointerVars, Phases
<1>. QED  BY <1>1, <1>2, QuietStep DEF LoopIterator, SelectionIsACandidate, CheckedTebIsCommanded

\* clearPlanner() empties both containers.
LEMMA ClearPlannerStep ==
  ASSUME IInv, ClearPlanner
  PROVE  IInv'
<1>1. /\ tebs' = <<>> /\ classes' = <<>> /\ pc' = "idle" /\ initial_plan' = None /\ infeasible' = {}
      /\ UNCHANGED <<pointerVars, since_switch, pending, it>>
  BY DEF ClearPlanner
<1>2. tebs' \in Seq(Teb) /\ classes' \in Seq(EqRels) /\ Len(tebs') = 0 /\ Len(classes') = 0
      /\ DOMAIN tebs' = {}
  BY <1>1, EmptySeq
<1>3. TypeOK'
  BY <1>1, <1>2 DEF IInv, TypeOK, pointerVars, Phases
<1>4. AtMostMaxClasses' /\ NoTebTwice' /\ ContainersInStep' /\ ClassesMatchTebs'
  BY <1>2, ConstantsAssumption
  DEF AtMostMaxClasses, NoTebTwice, ContainersInStep, ClassesMatchTebs, ConstantsAssumption
<1>. QED
  BY <1>1, <1>3, <1>4
  DEF IInv, LoopIterator, ReanalyzedSoFar, SelectionIsACandidate, CheckedTebIsCommanded

\* The time since the last switch is not part of the invariant.
LEMMA TickStep ==
  ASSUME IInv, Tick
  PROVE  IInv'
<1>1. /\ pc = "idle" /\ Reanalyzed /\ pc' = "idle" /\ UNCHANGED <<tebs, classes, best_class>>
  BY DEF Tick, Reanalyzed, pointerVars
<1>2. TypeOK'
  BY <1>1, ConstantsAssumption DEF Tick, IInv, TypeOK, pointerVars, ConstantsAssumption
<1>. QED  BY <1>1, <1>2, QuietStep DEF LoopIterator, SelectionIsACandidate, CheckedTebIsCommanded

\* Nor does a stuttering step disturb it.
LEMMA StutterStep ==
  ASSUME IInv, UNCHANGED vars
  PROVE  IInv'
BY DEF vars, pointerVars, IInv, TypeOK, AtMostMaxClasses, NoTebTwice, LoopIterator, ReanalyzedSoFar,
   BestInFront, ClassesSoFar, BestUnclassified, ContainersInStep, Reanalyzed, ClassesMatchTebs,
   SelectionIsACandidate, CheckedTebIsCommanded, BestTeb, InContainer, Ids, Candidates

-----------------------------------------------------------------------------
(* The theorems.                                                           *)

\* Every step preserves the invariant.
LEMMA NextIInv ==
  ASSUME IInv, [Next]_vars
  PROVE  IInv'
<1>1. CASE ReanalyzeOldTebs
  BY <1>1, RenewBestStep, RenewWithoutBestStep, ReanalyzeTebStep, ReanalyzeDoneStep, KeepPlanStep,
     DeleteDetourStep, DetoursDoneStep DEF ReanalyzeOldTebs
<1>2. CASE ExploreNewTebs
  BY <1>2, RandomlyDropTebStep, RandomlyDropDoneStep, InjectInitialPlanStep, FindInitialPlanTebStep,
     ExploreCandidateStep, ExploreDoneStep, ViaPointsStep DEF ExploreNewTebs
<1>3. CASE OptimizeAndSelect
  BY <1>3, OptimizeTebStep, JoinAllStep, FinishPlanStep DEF OptimizeAndSelect
<1>4. CASE IsTrajectoryFeasible
  BY <1>4, FindBestTebStep, BestIsFeasibleStep, BestIsInfeasibleStep, NothingFeasibleStep
  DEF IsTrajectoryFeasible
<1>5. CASE Caller
  BY <1>5, UpdateAllTebsStep, StartFeasibilityCheckStep, GetVelocityCommandStep, ClearPlannerStep,
     TickStep DEF Caller
<1>6. CASE UNCHANGED vars
  BY <1>6, StutterStep
<1>. QED  BY <1>1, <1>2, <1>3, <1>4, <1>5, <1>6 DEF Next

\* The invariant of the planner, whatever the signatures and the limits.
THEOREM InductiveInvariant == Spec => []IInv
BY InitIInv, NextIInv, PTL DEF Spec

\* Every variable keeps its type; in particular the loops stay in bounds.
THEOREM TypeCorrect == Spec => []TypeOK
<1>1. IInv => TypeOK
  BY DEF IInv
<1>. QED  BY <1>1, InductiveInvariant, PTL

\* The container never holds more TEBs than max_number_classes.
THEOREM NeverTooManyClasses == Spec => []AtMostMaxClasses
<1>1. IInv => AtMostMaxClasses
  BY DEF IInv
<1>. QED  BY <1>1, InductiveInvariant, PTL

\* The parallel containers differ in size by at most the class of a best TEB
\* whose signature is invalid.
THEOREM ContainersStayInStep == Spec => []ContainersInStep
<1>1. IInv => ContainersInStep
  BY DEF IInv
<1>. QED  BY <1>1, InductiveInvariant, PTL

\* Containers of the same size are indexed in parallel.
THEOREM ClassesStayMatched == Spec => []ClassesMatchTebs
<1>1. IInv => ClassesMatchTebs
  BY DEF IInv
<1>. QED  BY <1>1, InductiveInvariant, PTL

\* plan() selects a TEB of the container, and selects one whenever there is a
\* candidate with a finite cost.
THEOREM SelectionFromContainer == Spec => []SelectionIsACandidate
<1>1. IInv => SelectionIsACandidate
  BY DEF IInv
<1>. QED  BY <1>1, InductiveInvariant, PTL

\* The trajectory commanded after a feasible check is the one checked.
THEOREM CommandIsChecked == Spec => []CheckedTebIsCommanded
<1>1. IInv => CheckedTebIsCommanded
  BY DEF IInv
<1>. QED  BY <1>1, InductiveInvariant, PTL

-----------------------------------------------------------------------------
(* The best TEB through one call of plan().                                *)

Exploring == pc \in {"detours", "drop", "inject", "explore", "via", "optimize", "select"}

\* Once put in front, the best TEB stays there until the selection: that makes
\* it win against an equal rank.
BestStaysInFront == Exploring /\ InContainer(best) => tebs[1].id = best

\* Erasing another TEB leaves the best one in front.
LEMMA EraseBehindBest ==
  ASSUME IInv, BestStaysInFront, Exploring, NEW i \in 1..Len(tebs), tebs[i].id # best,
         tebs' = RemoveAt(tebs, i), best' = best
  PROVE  /\ BestStaysInFront'
         /\ InContainer(best) => best \in Ids'
<1>1. /\ Len(tebs') = Len(tebs) - 1 /\ Ids' \subseteq Ids /\ Ids \ {tebs[i].id} \subseteq Ids'
      /\ \A j \in 1..(Len(tebs) - 1) : tebs'[j] = IF j < i THEN tebs[j] ELSE tebs[j + 1]
  BY EraseTeb DEF IInv
<1>2. Len(tebs) \in Nat
  BY Containers DEF IInv
<1>3. ASSUME InContainer(best)  PROVE tebs'[1].id = best
  <2>1. i # 1 /\ 1 \in 1..(Len(tebs) - 1) /\ 1 < i
    BY <1>2, <1>3 DEF BestStaysInFront
  <2>. QED  BY <2>1, <1>1, <1>3 DEF BestStaysInFront
<1>. QED  BY <1>1, <1>3 DEF BestStaysInFront, InContainer

\* Appending a TEB to a container leaves the best one in front.
LEMMA AppendBehindBest ==
  ASSUME IInv, BestStaysInFront, Exploring, NEW t \in LowestFree, NEW s \in Sigs, NEW lock \in BOOLEAN,
         PushTeb(t, s, lock), best' = best
  PROVE  /\ BestStaysInFront'
         /\ InContainer(best) => best \in Ids'
         /\ best \in Ids' => InContainer(best)
<1>. DEFINE new == [id |-> t, sig |-> s, cost |-> NoCost, optimized |-> FALSE, guided |-> FALSE]
<1>0. t \in Tebs /\ t # best /\ t \notin Ids
  BY DEF LowestFree, FreeTebs
<1>1. new \in Teb /\ new.id = t
  BY <1>0 DEF Teb
<1>. HIDE DEF new
<1>2. tebs' = Append(tebs, new) /\ tebs \in Seq(Teb) /\ Len(tebs) \in Nat /\ DOMAIN tebs = 1..Len(tebs)
  BY Containers DEF PushTeb, new, IInv, TypeOK
<1>3. /\ DOMAIN tebs' = 1..(Len(tebs) + 1)
      /\ \A j \in 1..Len(tebs) : tebs'[j] = tebs[j]
      /\ tebs'[Len(tebs) + 1] = new
  BY <1>1, <1>2, AppendProperties, LenProperties
<1>4. Ids \subseteq Ids' /\ Ids' \subseteq Ids \cup {t}
  <2>1. ASSUME NEW j \in DOMAIN tebs  PROVE tebs[j].id \in Ids'
    <3>1. j \in DOMAIN tebs' /\ tebs'[j] = tebs[j]
      BY <1>2, <1>3
    <3>. QED  BY <3>1 DEF Ids
  <2>2. ASSUME NEW j \in DOMAIN tebs'  PROVE tebs'[j].id \in Ids \cup {t}
    <3>1. CASE j = Len(tebs) + 1
      BY <3>1, <1>1, <1>3
    <3>2. CASE j \in 1..Len(tebs)
      BY <3>2, <1>2, <1>3 DEF Ids
    <3>. QED  BY <3>1, <3>2, <1>2, <1>3
  <2>. QED  BY <2>1, <2>2 DEF Ids
<1>5. ASSUME InContainer(best)  PROVE tebs'[1].id = best
  <2>1. 1 \in 1..Len(tebs)
    BY <1>2, <1>5 DEF InContainer, Ids
  <2>. QED  BY <2>1, <1>3, <1>5 DEF BestStaysInFront
<1>. QED  BY <1>0, <1>4, <1>5 DEF BestStaysInFront, InContainer

\* A step that changes no address keeps the best TEB where it is.
LEMMA SameAddresses ==
  ASSUME IInv, BestStaysInFront, Exploring, DOMAIN tebs' = DOMAIN tebs,
         \A i \in DOMAIN tebs : tebs'[i].id = tebs[i].id, best' = best
  PROVE  /\ BestStaysInFront'
         /\ InContainer(best) => best \in Ids'
<1>1. Ids' = Ids
  BY DEF Ids
<1>2. InContainer(best) => 1 \in DOMAIN tebs
  BY Containers DEF IInv, InContainer, Ids
<1>. QED  BY <1>1, <1>2 DEF BestStaysInFront, InContainer

\* What one step does to a best TEB that is in the container.
BestKept == InContainer(best) /\ pc # "idle" /\ pc # "checking" /\ pc' # "idle" => best \in Ids'

\* The steps before the best TEB is in front of a reanalyzed container.
LEMMA RenewAndReanalyzeKeepBest ==
  ASSUME IInv, BestStaysInFront,
         \/ \E i \in DOMAIN tebs, s \in Sigs : RenewBest(i, s)
         \/ RenewWithoutBest
         \/ \E s \in Sigs : ReanalyzeTeb(s)
         \/ ReanalyzeDone
  PROVE  BestStaysInFront' /\ BestKept
<1>0. /\ Len(tebs) \in Nat /\ DOMAIN tebs = 1..Len(tebs)
      /\ \A j \in 1..Len(tebs) : tebs[j] \in Teb
  BY Containers DEF IInv
<1>1. ASSUME NEW i \in DOMAIN tebs, NEW s \in Sigs, RenewBest(i, s)
      PROVE  BestStaysInFront' /\ BestKept
  <2>1. 1 \in DOMAIN tebs' /\ tebs'[1] = [tebs[i] EXCEPT !.sig = s] /\ pc' = "reanalyze"
    BY <1>0, <1>1 DEF RenewBest
  <2>2. tebs'[1].id = best
    BY <2>1, <1>0, <1>1 DEF RenewBest, Teb
  <2>. QED  BY <2>1, <2>2 DEF BestStaysInFront, BestKept, Exploring, Ids
<1>2. ASSUME RenewWithoutBest  PROVE BestStaysInFront' /\ BestKept
  BY <1>2 DEF RenewWithoutBest, BestStaysInFront, BestKept, Exploring
<1>3. ASSUME NEW s \in Sigs, ReanalyzeTeb(s)  PROVE BestStaysInFront' /\ BestKept
  <2>1. pc = "reanalyze" /\ pc' = "reanalyze" /\ it \in 1..Len(tebs) /\ best' = best
    BY <1>0, <1>3 DEF ReanalyzeTeb, pointerVars, IInv, LoopIterator
  <2>2. BestStaysInFront'
    BY <2>1 DEF BestStaysInFront, Exploring
  <2>3. CASE tebs' = [tebs EXCEPT ![it].sig = s]
    <3>1. \A j \in DOMAIN tebs : tebs'[j].id = tebs[j].id
      BY <2>1, <2>3, <1>0 DEF Teb
    <3>2. DOMAIN tebs' = DOMAIN tebs
      BY <2>3
    <3>. QED  BY <2>2, <3>1, <3>2 DEF BestKept, InContainer, Ids
  <2>4. CASE tebs' = RemoveAt(tebs, it)
    <3>1. ASSUME InContainer(best)  PROVE best \in Ids \ {tebs[it].id}
      <4>1. it >= 2 /\ tebs[1].id = best
        BY <2>1, <3>1 DEF IInv, ReanalyzedSoFar, BestInFront
      <4>2. tebs[it].id # best
        BY <4>1, <2>1, <1>0 DEF IInv, NoTebTwice
      <4>. QED  BY <4>2, <3>1 DEF InContainer
    <3>2. Ids \ {tebs[it].id} \subseteq Ids'
      BY <2>1, <2>4, EraseTeb DEF IInv
    <3>. QED  BY <2>2, <3>1, <3>2 DEF BestKept
  <2>. QED  BY <1>3, <2>3, <2>4 DEF ReanalyzeTeb
<1>4. ASSUME ReanalyzeDone  PROVE BestStaysInFront' /\ BestKept
  BY <1>4 DEF ReanalyzeDone, pointerVars, IInv, ReanalyzedSoFar, BestInFront, BestStaysInFront,
     BestKept, InContainer, Ids
<1>. QED  BY <1>1, <1>2, <1>3, <1>4

\* Detours and random drops never erase the best TEB, which stays in front.
LEMMA DetoursAndDropsKeepBest ==
  ASSUME IInv, BestStaysInFront,
         KeepPlan \/ DeleteDetour \/ DetoursDone \/ RandomlyDropTeb \/ RandomlyDropDone
  PROVE  BestStaysInFront' /\ BestKept
<1>1. best' = best /\ pc \in {"detours", "drop"} /\ Exploring
  BY
  DEF KeepPlan, DeleteDetour, DetoursDone, RandomlyDropTeb, RandomlyDropDone, pointerVars, Exploring
<1>2. CASE UNCHANGED tebs
  BY <1>1, <1>2, SameAddresses DEF BestKept
<1>3. CASE tebs[it].id # best /\ tebs' = RemoveAt(tebs, it) /\ it \in 1..Len(tebs)
  BY <1>1, <1>3, EraseBehindBest DEF BestKept
<1>4. CASE DeleteDetour
  <2>1. it \in 1..Len(tebs)
    <3>1. pc = "detours" /\ it <= Len(tebs)
      BY <1>4 DEF DeleteDetour
    <3>. QED  BY <3>1, Containers DEF IInv, LoopIterator
  <2>. QED  BY <2>1, <1>2, <1>3, <1>4 DEF DeleteDetour, EraseBoth
<1>5. CASE RandomlyDropTeb
  <2>1. it \in 1..Len(tebs)
    <3>1. pc = "drop" /\ it <= Len(tebs)
      BY <1>5 DEF RandomlyDropTeb, DropInRange
    <3>. QED  BY <3>1, Containers DEF IInv, LoopIterator
  <2>. QED  BY <2>1, <1>2, <1>3, <1>5 DEF RandomlyDropTeb, EraseBoth
<1>. QED
  BY <1>2, <1>4, <1>5 DEF KeepPlan, DetoursDone, RandomlyDropDone

\* New TEBs are appended behind the best one.
LEMMA NewTebsKeepBest ==
  ASSUME IInv, BestStaysInFront,
         \/ InjectInitialPlan \/ FindInitialPlanTeb
         \/ \E s \in Sigs : ExploreCandidate(s)
         \/ ExploreDone
         \/ \E none \in BOOLEAN : UpdateReferenceTrajectoryViaPoints(none)
  PROVE  BestStaysInFront' /\ BestKept
<1>1. best' = best /\ Exploring
  BY DEF InjectInitialPlan, FindInitialPlanTeb, ExploreCandidate, ExploreDone,
         UpdateReferenceTrajectoryViaPoints, pointerVars, Exploring
<1>2. CASE UNCHANGED tebs
  BY <1>1, <1>2, SameAddresses DEF BestKept
<1>3. CASE InjectInitialPlan
  <2>1. initial_plan \in Sigs
    BY <1>3 DEF InjectInitialPlan, IInv, TypeOK
  <2>2. UNCHANGED tebs \/ \E t \in LowestFree : PushTeb(t, initial_plan, TRUE)
    BY <1>3 DEF InjectInitialPlan
  <2>. QED  BY <2>1, <2>2, <1>1, <1>2, AppendBehindBest DEF BestKept
<1>4. CASE \E s \in Sigs : ExploreCandidate(s)
  <2>1. PICK s \in Sigs, t \in LowestFree : PushTeb(t, s, FALSE)
    BY <1>4 DEF ExploreCandidate
  <2>. QED  BY <2>1, <1>1, AppendBehindBest DEF BestKept
<1>5. CASE \E none \in BOOLEAN : UpdateReferenceTrajectoryViaPoints(none)
  <2>. DEFINE guide(i) == ViaPointsAllCandidates \/ <<initial_class, classes[i].sig>> \in Similar
  <2>1. UNCHANGED tebs \/ tebs' = [i \in DOMAIN tebs |-> [tebs[i] EXCEPT !.guided = guide(i)]]
    BY <1>5 DEF UpdateReferenceTrajectoryViaPoints
  <2>. HIDE DEF guide
  <2>2. \A i \in DOMAIN tebs : tebs[i] \in Teb
    BY Containers DEF IInv
  <2>3. CASE tebs' = [i \in DOMAIN tebs |-> [tebs[i] EXCEPT !.guided = guide(i)]]
    <3>1. DOMAIN tebs' = DOMAIN tebs /\ \A i \in DOMAIN tebs : tebs'[i].id = tebs[i].id
      BY <2>2, <2>3 DEF Teb
    <3>. QED  BY <3>1, <1>1, SameAddresses DEF BestKept
  <2>. QED  BY <2>1, <2>3, <1>2
<1>. QED
  BY <1>2, <1>3, <1>4, <1>5 DEF FindInitialPlanTeb, ExploreDone, pointerVars

\* Optimization and selection erase no TEB.
LEMMA OptimizeAndSelectKeepBest ==
  ASSUME IInv, BestStaysInFront, OptimizeAndSelect
  PROVE  BestStaysInFront' /\ BestKept
<1>1. ASSUME NEW i \in DOMAIN tebs, NEW c \in Costs \cup {NoCost}, NEW success \in BOOLEAN,
             OptimizeTeb(i, c, success)
      PROVE  BestStaysInFront' /\ BestKept
  <2>1. best' = best /\ Exploring /\ DOMAIN tebs' = DOMAIN tebs
    BY <1>1 DEF OptimizeTeb, pointerVars, Exploring
  <2>2. \A j \in DOMAIN tebs : tebs[j] \in Teb
    BY Containers DEF IInv
  <2>3. \A j \in DOMAIN tebs : tebs'[j].id = tebs[j].id
    BY <2>2, <1>1 DEF OptimizeTeb, Teb
  <2>. QED  BY <2>1, <2>3, SameAddresses DEF BestKept
<1>2. ASSUME JoinAll  PROVE BestStaysInFront' /\ BestKept
  BY <1>2, SameAddresses DEF JoinAll, pointerVars, BestKept, Exploring
<1>3. ASSUME FinishPlan  PROVE BestStaysInFront' /\ BestKept
  BY <1>3 DEF FinishPlan, BestStaysInFront, BestKept, Exploring, InContainer, Ids
<1>. QED  BY <1>1, <1>2, <1>3 DEF OptimizeAndSelect

\* What follows the selection is outside the claim.
LEMMA OthersKeepBest ==
  ASSUME IInv, BestStaysInFront, IsTrajectoryFeasible \/ Caller \/ UNCHANGED vars
  PROVE  BestStaysInFront' /\ BestKept
<1>1. CASE IsTrajectoryFeasible
  BY <1>1 DEF IsTrajectoryFeasible, FindBestTeb, BestIsFeasible, BestIsInfeasible, NothingFeasible,
              BestStaysInFront, BestKept, Exploring
<1>2. CASE Caller
  BY <1>2 DEF Caller, UpdateAllTebs, StartFeasibilityCheck, GetVelocityCommand, ClearPlanner, Tick,
              BestStaysInFront, BestKept, Exploring, InContainer, Ids
<1>3. CASE UNCHANGED vars
  BY <1>3 DEF vars, pointerVars, BestStaysInFront, BestKept, Exploring, InContainer, Ids
<1>. QED  BY <1>1, <1>2, <1>3

\* No step of the exploration loses the best TEB or moves it from the front.
LEMMA NextKeepsBest ==
  ASSUME IInv, BestStaysInFront, [Next]_vars
  PROVE  BestStaysInFront' /\ BestKept
BY RenewAndReanalyzeKeepBest, DetoursAndDropsKeepBest, NewTebsKeepBest, OptimizeAndSelectKeepBest,
   OthersKeepBest DEF Next, ReanalyzeOldTebs, ExploreNewTebs

\* A best TEB that is in the container when plan() begins to look at it is in
\* front of it until the selection.
THEOREM BestInFrontUntilSelection == Spec => []BestStaysInFront
<1>1. Init => BestStaysInFront
  BY DEF Init, BestStaysInFront, Exploring
<1>2. IInv /\ BestStaysInFront /\ [Next]_vars => BestStaysInFront'
  BY NextKeepsBest
<1>. QED  BY <1>1, <1>2, InductiveInvariant, PTL DEF Spec

\* Neither the duplicate check, the detour check, the random drops nor the
\* limit on the number of classes removes the best TEB.
THEOREM BestAlwaysSurvives == Spec => BestSurvivesExploration
<1>. DEFINE A == pc \notin {"idle", "checking"} /\ InContainer(best) /\ pc' # "idle"
                   => \E i \in DOMAIN tebs' : tebs'[i].id = best
<1>1. IInv /\ BestStaysInFront /\ [Next]_vars => [A]_vars
  BY NextKeepsBest DEF BestKept, Ids
<1>2. Spec => [][A]_vars
  BY <1>1, InductiveInvariant, BestInFrontUntilSelection, PTL DEF Spec
<1>. QED  BY <1>2 DEF BestSurvivesExploration

\* plan() leaves the last best TEB only after the blocking period, and only
\* for a TEB whose rank is less than that of the last best one with its
\* hysteresis.  That an equal rank does not suffice rests on the last best TEB
\* being in front of the container.
LEMMA SelectionIsEarned ==
  ASSUME IInv, BestStaysInFront, [Next]_vars, pc = "select", InContainer(best), best' # best
  PROVE  /\ since_switch > BlockingPeriod
         /\ since_switch' = 0
         /\ \A i, j \in Candidates :
              tebs[i].id = best /\ tebs[j].id = best' => Rank(tebs[j]) < Rank(tebs[i])
<1>1. FinishPlan
  BY
  DEF Next, vars, ReanalyzeOldTebs, ExploreNewTebs, OptimizeAndSelect, IsTrajectoryFeasible, Caller,
         RenewBest, RenewWithoutBest, ReanalyzeTeb, ReanalyzeDone, KeepPlan, DeleteDetour, DetoursDone,
         RandomlyDropTeb, RandomlyDropDone, InjectInitialPlan, FindInitialPlanTeb, ExploreCandidate,
         ExploreDone, UpdateReferenceTrajectoryViaPoints, OptimizeTeb, JoinAll, FindBestTeb,
         BestIsFeasible, BestIsInfeasible, NothingFeasible, UpdateAllTebs, StartFeasibilityCheck,
         GetVelocityCommand, ClearPlanner, Tick, pointerVars
<1>2. SelectBestTeb
  BY <1>1 DEF FinishPlan
<1>3. best' = Cheapest /\ WantsSwitch /\ ~(since_switch <= BlockingPeriod)
  BY <1>2 DEF SelectBestTeb, WantsSwitch
<1>4. since_switch > BlockingPeriod /\ since_switch' = 0
  <2>1. since_switch \in Int /\ BlockingPeriod \in Int
    BY ConstantsAssumption DEF IInv, TypeOK, ConstantsAssumption
  <2>. QED  BY <2>1, <1>2, <1>3 DEF SelectBestTeb
<1>5. ASSUME NEW i \in Candidates, NEW j \in Candidates, tebs[i].id = best, tebs[j].id = best'
      PROVE  Rank(tebs[j]) < Rank(tebs[i])
  <2>1. PICK k \in Candidates :
          /\ Cheapest = tebs[k].id
          /\ \A n \in Candidates : Rank(tebs[k]) <= Rank(tebs[n])
          /\ \A n \in Candidates : n < k => Rank(tebs[k]) < Rank(tebs[n])
    BY CheapestIsCheapest DEF IInv
  <2>2. i \in 1..Len(tebs) /\ j \in 1..Len(tebs) /\ k \in 1..Len(tebs) /\ 1 \in 1..Len(tebs)
        /\ DOMAIN tebs = 1..Len(tebs)
    BY Containers DEF IInv, Candidates
  <2>3. tebs[1].id = best
    BY DEF BestStaysInFront, Exploring
  <2>4. i = 1 /\ j = k
    BY <2>1, <2>2, <2>3, <1>3, <1>5 DEF IInv, NoTebTwice
  <2>5. k # 1
    BY <2>1, <2>3, <1>3
  <2>. QED  BY <2>1, <2>2, <2>4, <2>5
<1>. QED  BY <1>4, <1>5

\* selectBestTeb(), over every run of the planner: the last best TEB is left
\* only after the blocking period and for a TEB of a strictly lesser rank.
THEOREM SwitchIsAlwaysEarned == Spec => SwitchIsEarned
<1>. DEFINE A == pc = "select" /\ InContainer(best) /\ best' # best =>
                   /\ since_switch > BlockingPeriod
                   /\ since_switch' = 0
                   /\ \A i, j \in Candidates :
                        tebs[i].id = best /\ tebs[j].id = best' => Rank(tebs[j]) < Rank(tebs[i])
<1>1. IInv /\ BestStaysInFront /\ [Next]_vars => [A]_vars
  BY SelectionIsEarned
<1>2. Spec => [][A]_vars
  BY <1>1, InductiveInvariant, BestInFrontUntilSelection, PTL DEF Spec
<1>. QED  BY <1>2 DEF SwitchIsEarned

-----------------------------------------------------------------------------
(* The number of TEBs in the class of the best one.                        *)

\* From renewAndAnalyzeOldTebs() on, until the selection.
Scanning == pc = "reanalyze" \/ Exploring

\* The positions whose class is that of the best TEB.
SameClass == {i \in DOMAIN classes : <<best_class, classes[i].sig>> \in Similar}

ClassLimit == IF MaxPlansInCurrentClass = 0 THEN 1 ELSE MaxPlansInCurrentClass

\* The class of the best TEB, when it is valid, is the first one, and no more
\* TEBs than the limit are in it.  That it is there is what makes a candidate
\* similar to it a candidate of a known class; the class of a best TEB that is
\* not valid is not stored, and the argument, like the bound, fails.
BestClassFirst == 1 \in DOMAIN classes /\ classes[1].sig = best_class

BestClassBounded ==
  Scanning /\ InContainer(best) /\ best_class \in ValidSigs => BestClassFirst /\ Cardinality(SameClass) <= ClassLimit

\* The positions are finitely many.
LEMMA SameClassFinite ==
  ASSUME TypeOK
  PROVE  IsFiniteSet(SameClass) /\ Cardinality(SameClass) \in Nat
<1>1. DOMAIN classes = 1..Len(classes) /\ Len(classes) \in Nat
  BY Containers
<1>2. IsFiniteSet(1..Len(classes))
  BY <1>1, FS_Interval
<1>3. SameClass \in SUBSET (1..Len(classes))
  BY <1>1 DEF SameClass
<1>. QED  BY <1>2, <1>3, FS_Subset, FS_CardinalityType

\* The limit is at least one.
LEMMA ClassLimitType == ClassLimit \in Nat \ {0}
BY ConstantsAssumption DEF ClassLimit, ConstantsAssumption

\* A step that changes no signature changes no count.
LEMMA SameSigsKeepBound ==
  ASSUME TypeOK, BestClassBounded, Scanning, UNCHANGED <<best, best_class>>,
         InContainer(best)' => InContainer(best),
         DOMAIN classes' = DOMAIN classes,
         \A i \in DOMAIN classes : classes'[i].sig = classes[i].sig
  PROVE  BestClassBounded'
<1>1. SameClass' = SameClass
  BY DEF SameClass
<1>2. BestClassFirst => BestClassFirst'
  BY DEF BestClassFirst
<1>. QED  BY <1>1, <1>2 DEF BestClassBounded, ClassLimit

\* addEquivalenceClassIfNew(): the entry appended is either of another class,
\* or it is counted.
LEMMA AppendKeepsBound ==
  ASSUME TypeOK, BestClassBounded, Scanning, UNCHANGED <<best, best_class>>,
         InContainer(best)' => InContainer(best),
         NEW s \in Sigs, NEW lock \in BOOLEAN, IsNewClass(s),
         classes' = Append(classes, EqRel(s, lock))
  PROVE  BestClassBounded'
<1>. DEFINE n == Len(classes) + 1
<1>1. /\ DOMAIN classes = 1..Len(classes) /\ Len(classes) \in Nat
      /\ \A i \in 1..Len(classes) : classes[i].sig \in Sigs
  BY Containers DEF EqRels
<1>2. EqRel(s, lock) \in EqRels /\ EqRel(s, lock).sig = s
  BY DEF EqRel, EqRels
<1>3. /\ DOMAIN classes' = 1..n
      /\ \A i \in 1..Len(classes) : classes'[i] = classes[i]
      /\ classes'[n].sig = s
  BY <1>1, <1>2, AppendProperties, LenProperties DEF TypeOK
<1>. SUFFICES ASSUME InContainer(best), best_class \in ValidSigs
              PROVE  BestClassFirst' /\ Cardinality(SameClass') <= ClassLimit
  BY DEF BestClassBounded, ClassLimit
<1>4. BestClassFirst /\ Cardinality(SameClass) <= ClassLimit
  BY DEF BestClassBounded
<1>5. BestClassFirst'
  <2>1. 1 \in 1..Len(classes) => 1 \in 1..n
    BY <1>1
  <2>. QED  BY <2>1, <1>1, <1>3, <1>4 DEF BestClassFirst
<1>6. ASSUME NEW i \in DOMAIN classes'  PROVE i \in DOMAIN classes \/ i = n
  BY <1>1, <1>3, <1>6
<1>7. n \notin DOMAIN classes
  BY <1>1
<1>8. CASE <<best_class, s>> \notin Similar
  <2>1. SameClass' = SameClass
    <3>1. ASSUME NEW i \in SameClass'  PROVE i \in SameClass
      <4>1. i \in DOMAIN classes' /\ <<best_class, classes'[i].sig>> \in Similar
        BY DEF SameClass
      <4>2. i # n
        BY <4>1, <1>3, <1>8
      <4>3. i \in DOMAIN classes
        BY <4>1, <4>2, <1>6
      <4>. QED  BY <4>1, <4>3, <1>1, <1>3 DEF SameClass
    <3>2. ASSUME NEW i \in SameClass  PROVE i \in SameClass'
      <4>1. i \in 1..Len(classes) /\ <<best_class, classes[i].sig>> \in Similar
        BY <1>1 DEF SameClass
      <4>2. i \in 1..n
        BY <4>1, <1>1
      <4>. QED  BY <4>1, <4>2, <1>3 DEF SameClass
    <3>. QED  BY <3>1, <3>2
  <2>. QED  BY <2>1, <1>4, <1>5
<1>9. CASE <<best_class, s>> \in Similar
  <2>1. best_class \in Sigs
    BY ConstantsAssumption DEF ConstantsAssumption
  <2>2. <<s, best_class>> \in Similar
    BY <2>1, <1>9, ConstantsAssumption DEF ConstantsAssumption
  <2>3. HasEquivalenceClass(s)
    BY <2>1, <2>2, <1>4 DEF BestClassFirst, HasEquivalenceClass
  <2>4. NumTebsInBestTebClass < MaxPlansInCurrentClass
    BY <2>3 DEF IsNewClass
  <2>5. Cardinality(SameClass) < MaxPlansInCurrentClass
    <3>1. best_class # None
      BY <2>1, ConstantsAssumption DEF ConstantsAssumption
    <3>. QED  BY <2>4, <3>1 DEF NumTebsInBestTebClass, SameClass
  <2>6. SameClass' \in SUBSET (SameClass \cup {n})
    <3>1. SUFFICES ASSUME NEW i \in SameClass', i # n  PROVE i \in SameClass
      OBVIOUS
    <3>2. i \in DOMAIN classes' /\ <<best_class, classes'[i].sig>> \in Similar
      BY DEF SameClass
    <3>3. i \in DOMAIN classes
      BY <3>1, <3>2, <1>6
    <3>. QED  BY <3>2, <3>3, <1>1, <1>3 DEF SameClass
  <2>7. IsFiniteSet(SameClass) /\ Cardinality(SameClass) \in Nat
    BY SameClassFinite
  <2>8. n \notin SameClass
    BY <1>7 DEF SameClass
  <2>. HIDE DEF n
  <2>9. /\ IsFiniteSet(SameClass \cup {n})
        /\ Cardinality(SameClass \cup {n}) = Cardinality(SameClass) + 1
    BY <2>7, <2>8, FS_AddElement
  <2>10. /\ Cardinality(SameClass') <= Cardinality(SameClass) + 1
         /\ Cardinality(SameClass') \in Nat
    BY <2>6, <2>9, FS_Subset, FS_CardinalityType
  <2>11. MaxPlansInCurrentClass \in Nat
    BY ConstantsAssumption DEF ConstantsAssumption
  <2>12. Cardinality(SameClass') <= MaxPlansInCurrentClass
    BY <2>5, <2>7, <2>10, <2>11
  <2>13. MaxPlansInCurrentClass # 0
    BY <2>5, <2>7, <2>11
  <2>. QED  BY <2>12, <2>13, <1>5 DEF ClassLimit
<1>. QED  BY <1>8, <1>9

\* Erasing an entry other than the first never raises the count: what is
\* left maps one to one into what was there.
LEMMA EraseKeepsBound ==
  ASSUME TypeOK, BestClassBounded, Scanning, UNCHANGED <<best, best_class>>,
         InContainer(best)' => InContainer(best),
         NEW i \in DOMAIN classes, InContainer(best) => i # 1, classes' = RemoveAt(classes, i)
  PROVE  BestClassBounded'
<1>1. DOMAIN classes = 1..Len(classes) /\ Len(classes) \in Nat
  BY Containers
<1>2. /\ DOMAIN classes' = 1..(Len(classes) - 1)
      /\ \A j \in 1..(Len(classes) - 1) :
           classes'[j] = IF j < i THEN classes[j] ELSE classes[j + 1]
  <2>1. classes \in Seq(EqRels) /\ i \in 1..Len(classes)
    BY <1>1 DEF TypeOK
  <2>2. /\ classes' \in Seq(EqRels) /\ Len(classes') = Len(classes) - 1
        /\ \A j \in 1..(Len(classes) - 1) :
             classes'[j] = IF j < i THEN classes[j] ELSE classes[j + 1]
    BY <2>1, RemoveAtProperties
  <2>. QED  BY <2>2, LenProperties
<1>. SUFFICES ASSUME InContainer(best), best_class \in ValidSigs
              PROVE  BestClassFirst' /\ Cardinality(SameClass') <= ClassLimit
  BY DEF BestClassBounded, ClassLimit
<1>3. BestClassFirst /\ Cardinality(SameClass) <= ClassLimit /\ i # 1
  BY DEF BestClassBounded
<1>4. BestClassFirst'
  <2>1. 1 \in 1..(Len(classes) - 1) /\ 1 < i
    BY <1>1, <1>3
  <2>. QED  BY <2>1, <1>2, <1>3 DEF BestClassFirst
<1>. DEFINE from == [j \in SameClass' |-> IF j < i THEN j ELSE j + 1]
<1>5. SameClass' \subseteq Int
  BY <1>2 DEF SameClass
<1>6. ASSUME NEW j \in SameClass'  PROVE from[j] \in SameClass
  <2>1. j \in 1..(Len(classes) - 1) /\ <<best_class, classes'[j].sig>> \in Similar
    BY <1>2 DEF SameClass
  <2>2. CASE j < i
    <3>1. j \in 1..Len(classes) /\ classes'[j] = classes[j] /\ from[j] = j
      BY <2>1, <2>2, <1>1, <1>2
    <3>. QED  BY <3>1, <2>1, <1>1 DEF SameClass
  <2>3. CASE ~(j < i)
    <3>1. j + 1 \in 1..Len(classes) /\ classes'[j] = classes[j + 1] /\ from[j] = j + 1
      BY <2>1, <2>3, <1>1, <1>2
    <3>. QED  BY <3>1, <2>1, <1>1 DEF SameClass
  <2>. QED  BY <2>2, <2>3
<1>7. from \in [SameClass' -> SameClass]
  BY <1>6
<1>8. ASSUME NEW j \in SameClass', NEW k \in SameClass', from[j] = from[k]  PROVE j = k
  <2>1. j \in Int /\ k \in Int /\ i \in Int
    BY <1>1, <1>5
  <2>. QED  BY <2>1, <1>8
<1>9. from \in Injection(SameClass', SameClass)
  BY <1>7, <1>8 DEF Injection, IsInjective
<1>. HIDE DEF from
<1>10. IsFiniteSet(SameClass) /\ Cardinality(SameClass) \in Nat
  BY SameClassFinite
<1>11. IsFiniteSet(SameClass') /\ Cardinality(SameClass') <= Cardinality(SameClass)
  BY <1>9, <1>10, FS_Injection
<1>12. Cardinality(SameClass') \in Nat /\ ClassLimit \in Nat
  BY <1>11, FS_CardinalityType, ClassLimitType
<1>. QED  BY <1>3, <1>4, <1>10, <1>11, <1>12

\* The best TEB is not put back while the other TEBs are looked at.
LEMMA ScanningStartsBounded ==
  ASSUME TypeOK', BestClassBounded, NEW i \in DOMAIN tebs, NEW s \in Sigs, RenewBest(i, s)
  PROVE  BestClassBounded'
<1>1. best_class' = s
  BY DEF RenewBest
<1>2. CASE s \in ValidSigs
  <2>1. DOMAIN classes' \in SUBSET {1} /\ 1 \in DOMAIN classes' /\ classes'[1].sig = s
    <3>. DEFINE entry == EqRel(s, FALSE)
    <3>1. classes' = <<entry>> /\ entry.sig = s
      BY <1>2 DEF RenewBest, EqRel
    <3>. HIDE DEF entry
    <3>. QED  BY <3>1
  <2>2. SameClass' \in SUBSET {1}
    BY <2>1 DEF SameClass
  <2>3. IsFiniteSet({1}) /\ Cardinality({1}) = 1
    BY FS_Singleton
  <2>4. IsFiniteSet(SameClass') /\ Cardinality(SameClass') <= 1
    BY <2>2, <2>3, FS_Subset
  <2>5. Cardinality(SameClass') <= ClassLimit
    BY <2>4, FS_CardinalityType, ClassLimitType
  <2>. QED  BY <2>1, <2>5, <1>1 DEF BestClassBounded, BestClassFirst, ClassLimit
<1>3. CASE s \notin ValidSigs
  BY <1>1, <1>3 DEF BestClassBounded
<1>. QED  BY <1>2, <1>3

\* No step before the selection exceeds the limit.
LEMMA OldTebsKeepBound ==
  ASSUME IInv, TypeOK', BestStaysInFront, BestClassBounded, ReanalyzeOldTebs
  PROVE  BestClassBounded'
<1>0. /\ Len(tebs) \in Nat /\ DOMAIN tebs = 1..Len(tebs) /\ DOMAIN classes = 1..Len(classes)
      /\ \A j \in 1..Len(tebs) : tebs[j] \in Teb
  BY Containers DEF IInv
<1>1. ASSUME NEW i \in DOMAIN tebs, NEW s \in Sigs, RenewBest(i, s)
      PROVE  BestClassBounded'
  BY <1>1, ScanningStartsBounded
<1>2. CASE RenewWithoutBest
  BY <1>2 DEF RenewWithoutBest, pointerVars, BestClassBounded, InContainer, Ids
<1>3. ASSUME NEW s \in Sigs, ReanalyzeTeb(s)  PROVE BestClassBounded'
  <2>1. /\ Scanning /\ UNCHANGED <<best, best_class>> /\ it \in 1..Len(tebs)
    BY <1>0, <1>3 DEF ReanalyzeTeb, pointerVars, Scanning, IInv, LoopIterator
  <2>2. CASE /\ IsNewClass(s) /\ classes' = Append(classes, EqRel(s, FALSE))
             /\ tebs' = [tebs EXCEPT ![it].sig = s]
    <3>1. DOMAIN tebs' = DOMAIN tebs /\ \A j \in DOMAIN tebs : tebs'[j].id = tebs[j].id
      BY <2>1, <2>2, <1>0 DEF Teb
    <3>2. InContainer(best)' => InContainer(best)
      BY <3>1, <2>1 DEF InContainer, Ids
    <3>. QED  BY <3>2, <2>1, <2>2, AppendKeepsBound DEF IInv
  <2>3. CASE tebs' = RemoveAt(tebs, it) /\ UNCHANGED classes
    <3>1. InContainer(best)' => InContainer(best)
      BY <2>1, <2>3, EraseTeb DEF IInv, InContainer
    <3>. QED  BY <3>1, <2>1, <2>3, SameSigsKeepBound DEF IInv
  <2>. QED  BY <1>3, <2>2, <2>3 DEF ReanalyzeTeb
<1>4. CASE (ReanalyzeDone \/ KeepPlan \/ DetoursDone) \/ (DeleteDetour /\ UNCHANGED <<tebs, classes>>)
  <2>1. Scanning /\ UNCHANGED <<best, best_class, tebs, classes>>
    BY <1>4 DEF ReanalyzeDone, KeepPlan, DetoursDone, DeleteDetour, pointerVars, Scanning, Exploring
  <2>2. InContainer(best)' => InContainer(best)
    BY <2>1 DEF InContainer, Ids
  <2>. QED  BY <2>1, <2>2, SameSigsKeepBound DEF IInv
<1>5. CASE DeleteDetour /\ Len(classes) = Len(tebs) /\ EraseBoth(it)
  <2>1. /\ Scanning /\ Exploring /\ UNCHANGED <<best, best_class>> /\ tebs[it].id # best
        /\ it \in 1..Len(tebs)
    <3>1. pc = "detours" /\ it <= Len(tebs)
      BY <1>5 DEF DeleteDetour
    <3>2. it \in 1..Len(tebs)
      BY <3>1, <1>0 DEF IInv, LoopIterator
    <3>. QED  BY <3>1, <3>2, <1>5 DEF DeleteDetour, pointerVars, Scanning, Exploring
  <2>2. (InContainer(best)' => InContainer(best)) /\ (InContainer(best) => it # 1)
    BY <2>1, <1>5, EraseTeb DEF IInv, EraseBoth, InContainer, BestStaysInFront
  <2>. QED  BY <2>1, <2>2, <1>0, <1>5, EraseKeepsBound DEF IInv, EraseBoth
<1>. QED  BY <1>1, <1>2, <1>3, <1>4, <1>5 DEF ReanalyzeOldTebs, DeleteDetour

\* Neither does a dropped TEB, the initial plan or a candidate of the graph.
LEMMA NewTebsKeepBound ==
  ASSUME IInv, BestStaysInFront, BestClassBounded, ExploreNewTebs
  PROVE  BestClassBounded'
<1>0. /\ Len(tebs) \in Nat /\ DOMAIN tebs = 1..Len(tebs) /\ DOMAIN classes = 1..Len(classes)
  BY Containers DEF IInv
<1>1. Scanning /\ Exploring /\ UNCHANGED <<best, best_class>>
  BY DEF ExploreNewTebs, RandomlyDropTeb, RandomlyDropDone, InjectInitialPlan, FindInitialPlanTeb,
     ExploreCandidate, ExploreDone, UpdateReferenceTrajectoryViaPoints, pointerVars, Scanning, Exploring
<1>2. CASE UNCHANGED <<tebs, classes>>
  <2>1. InContainer(best)' => InContainer(best)
    BY <1>1, <1>2 DEF InContainer, Ids
  <2>. QED  BY <2>1, <1>1, <1>2, SameSigsKeepBound DEF IInv
<1>3. CASE RandomlyDropTeb /\ tebs[it].id # best /\ EraseBoth(it)
  <2>1. it \in 1..Len(tebs) /\ it \in 1..Len(classes)
    <3>1. pc = "drop" /\ it <= Len(tebs) /\ it <= Len(classes)
      BY <1>3 DEF RandomlyDropTeb, DropInRange
    <3>. QED  BY <3>1, Containers DEF IInv, LoopIterator
  <2>2. (InContainer(best)' => InContainer(best)) /\ (InContainer(best) => it # 1)
    BY <2>1, <1>1, <1>3, EraseTeb DEF IInv, EraseBoth, InContainer, BestStaysInFront
  <2>. QED  BY <2>1, <2>2, <1>0, <1>1, <1>3, EraseKeepsBound DEF IInv, EraseBoth
<1>4. ASSUME NEW s \in Sigs, IsNewClass(s), NEW t \in LowestFree, NEW lock \in BOOLEAN,
             PushTeb(t, s, lock)
      PROVE  BestClassBounded'
  <2>1. InContainer(best)' => InContainer(best)
    BY <1>1, <1>4, AppendBehindBest DEF InContainer
  <2>. QED  BY <2>1, <1>1, <1>4, AppendKeepsBound DEF IInv, PushTeb
<1>5. CASE InjectInitialPlan
  <2>1. initial_plan \in Sigs
    BY <1>5 DEF InjectInitialPlan, IInv, TypeOK
  <2>2. \/ UNCHANGED <<tebs, classes>>
        \/ IsNewClass(initial_plan) /\ \E t \in LowestFree : PushTeb(t, initial_plan, TRUE)
    BY <1>5 DEF InjectInitialPlan
  <2>. QED  BY <2>1, <2>2, <1>2, <1>4
<1>6. ASSUME NEW s \in Sigs, ExploreCandidate(s)  PROVE BestClassBounded'
  <2>1. IsNewClass(s) /\ \E t \in LowestFree : PushTeb(t, s, FALSE)
    BY <1>6 DEF ExploreCandidate
  <2>. QED  BY <2>1, <1>4
<1>7. CASE FindInitialPlanTeb
  <2>1. classes' = RelockedClasses /\ UNCHANGED tebs
    BY <1>7 DEF FindInitialPlanTeb
  <2>2. InContainer(best)' => InContainer(best)
    BY <2>1, <1>1 DEF InContainer, Ids
  <2>3. /\ DOMAIN classes' = DOMAIN classes
        /\ \A i \in DOMAIN classes : classes'[i].sig = classes[i].sig
    BY <2>1, Relocked
  <2>. QED  BY <2>2, <2>3, <1>1, SameSigsKeepBound DEF IInv
<1>8. ASSUME NEW none \in BOOLEAN, UpdateReferenceTrajectoryViaPoints(none)  PROVE BestClassBounded'
  <2>. DEFINE guide(i) == ViaPointsAllCandidates \/ <<initial_class, classes[i].sig>> \in Similar
  <2>1. /\ UNCHANGED classes
        /\ UNCHANGED tebs \/ tebs' = [i \in DOMAIN tebs |-> [tebs[i] EXCEPT !.guided = guide(i)]]
    BY <1>8 DEF UpdateReferenceTrajectoryViaPoints
  <2>. HIDE DEF guide
  <2>2. \A i \in DOMAIN tebs : tebs[i] \in Teb
    BY Containers DEF IInv
  <2>3. DOMAIN tebs' = DOMAIN tebs /\ \A i \in DOMAIN tebs : tebs'[i].id = tebs[i].id
    BY <2>1, <2>2 DEF Teb
  <2>4. InContainer(best)' => InContainer(best)
    BY <2>3, <1>1 DEF InContainer, Ids
  <2>. QED  BY <2>1, <2>4, <1>1, SameSigsKeepBound DEF IInv
<1>. QED
  BY <1>2, <1>3, <1>5, <1>6, <1>7, <1>8
  DEF ExploreNewTebs, RandomlyDropTeb, RandomlyDropDone, ExploreDone, pointerVars

\* The optimizer changes no class, and what follows the selection is outside
\* the claim.
LEMMA OthersKeepBound ==
  ASSUME IInv, BestStaysInFront, BestClassBounded,
         OptimizeAndSelect \/ IsTrajectoryFeasible \/ Caller \/ UNCHANGED vars
  PROVE  BestClassBounded'
<1>1. ASSUME NEW i \in DOMAIN tebs, NEW c \in Costs \cup {NoCost}, NEW success \in BOOLEAN,
             OptimizeTeb(i, c, success)
      PROVE  BestClassBounded'
  <2>1. Scanning /\ UNCHANGED <<best, best_class, classes>> /\ DOMAIN tebs' = DOMAIN tebs
    BY <1>1 DEF OptimizeTeb, pointerVars, Scanning, Exploring
  <2>2. \A j \in DOMAIN tebs : tebs[j] \in Teb
    BY Containers DEF IInv
  <2>3. \A j \in DOMAIN tebs : tebs'[j].id = tebs[j].id
    BY <2>2, <1>1 DEF OptimizeTeb, Teb
  <2>4. InContainer(best)' => InContainer(best)
    BY <2>1, <2>3 DEF InContainer, Ids
  <2>. QED  BY <2>1, <2>4, SameSigsKeepBound DEF IInv
<1>2. CASE JoinAll
  <2>1. Scanning /\ UNCHANGED <<best, best_class, tebs, classes>>
    BY <1>2 DEF JoinAll, pointerVars, Scanning, Exploring
  <2>2. InContainer(best)' => InContainer(best)
    BY <2>1 DEF InContainer, Ids
  <2>. QED  BY <2>1, <2>2, SameSigsKeepBound DEF IInv
<1>3. CASE FinishPlan
  BY <1>3 DEF FinishPlan, BestClassBounded, Scanning, Exploring
<1>4. CASE IsTrajectoryFeasible
  BY <1>4 DEF IsTrajectoryFeasible, FindBestTeb, BestIsFeasible, BestIsInfeasible, NothingFeasible,
              BestClassBounded, Scanning, Exploring
<1>5. CASE Caller
  BY <1>5 DEF Caller, UpdateAllTebs, StartFeasibilityCheck, GetVelocityCommand, ClearPlanner, Tick,
              BestClassBounded, Scanning, Exploring
<1>6. CASE UNCHANGED vars
  BY <1>6 DEF vars, pointerVars, BestClassBounded, BestClassFirst, SameClass, ClassLimit,
              Scanning, Exploring, InContainer, Ids
<1>. QED  BY <1>1, <1>2, <1>3, <1>4, <1>5, <1>6 DEF OptimizeAndSelect

\* max_number_plans_in_current_class holds over every run of the planner: the
\* kept TEBs, the initial plan and the paths of the graph together never put
\* more TEBs into the class of the best one, whatever signatures isEqual()
\* accepts, as long as the class of the best one is valid.
THEOREM CurrentClassStaysBounded == Spec => []CurrentClassBounded
<1>1. Init => BestClassBounded
  BY DEF Init, BestClassBounded, Scanning, Exploring
<1>2. IInv /\ IInv' /\ BestStaysInFront /\ BestClassBounded /\ [Next]_vars => BestClassBounded'
  BY OldTebsKeepBound, NewTebsKeepBound, OthersKeepBound DEF Next, IInv
<1>3. IInv /\ BestClassBounded => CurrentClassBounded
  <2>1. SUFFICES ASSUME IInv, BestClassBounded, Exploring, InContainer(best),
                        best_class \in ValidSigs
                 PROVE  NumTebsInBestTebClass <= ClassLimit
    BY DEF CurrentClassBounded, ClassesStored, Exploring, ClassLimit
  <2>2. Cardinality(SameClass) <= ClassLimit
    BY <2>1 DEF BestClassBounded, Scanning
  <2>. QED  BY <2>2, ClassLimitType DEF NumTebsInBestTebClass, SameClass
<1>. QED  BY <1>1, <1>2, <1>3, InductiveInvariant, BestInFrontUntilSelection, PTL DEF Spec
=============================================================================
