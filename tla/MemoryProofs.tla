------------------------------ MODULE MemoryProofs ------------------------------
(***************************************************************************)
(* Proofs about the memory that threads share without a lock: the table of *)
(* functions, for any number of threads, pairs and slots, and the pool of  *)
(* hash sets, for any number of sets, of destroying threads and of places. *)
(* The third part, the sheets, is in ResultSheetsProofs.                   *)
(*                                                                         *)
(* The table: the invariant rests on Passed, that a thread in the loop has *)
(* seen a pair other than its own in every slot behind it, and since slots *)
(* are never rewritten that stays so.  By Dense the slots ahead of the     *)
(* first free one are free too, so the pair a thread puts there is nowhere *)
(* else.                                                                   *)
(*                                                                         *)
(* The pool: every hash set has one holder as long as the main thread and  *)
(* a destroyer do not meet in one place.                                   *)
(***************************************************************************)
EXTENDS MCMemory, FunctionTheorems, FiniteSetTheorems, TLAPS

-----------------------------------------------------------------------------
(* The table of functions.                                                 *)

LEMMA TypeInit == Init => TypeOK
<1> SUFFICES ASSUME Init PROVE TypeOK
  OBVIOUS
<1>1. 0 \in Slot /\ 0 \in 0..Slots
  BY FuncPairsAssumption DEF Slot
<1>2. g_func_pairs \in [Slot -> Pair \cup {Free}] /\ pc \in [Thread -> PC]
  BY DEF Init, PC
<1>3. i \in [Thread -> 0..Slots] /\ current \in [Thread -> Pair \cup {Free}]
  BY <1>1 DEF Init
<1>4. cached \in [Thread -> Slot]
  BY <1>1 DEF Init
<1> QED BY <1>2, <1>3, <1>4 DEF Init, TypeOK

\* Every action of find_or_add_pair keeps the types.
LEMMA TypeNext ==
    ASSUME TypeOK, InLoop, [Next]_vars PROVE TypeOK'
<1> USE DEF TypeOK, PC, Goto
<1>a. Slots \in Nat /\ 0 \in Slot /\ 0 \in 0..Slots
  BY FuncPairsAssumption DEF Slot
<1>b. \A s \in 0..Slots : s # Slots => s \in Slot
  BY <1>a DEF Slot
<1>c. \A s \in Slot : s \in 0..Slots /\ s + 1 \in 0..Slots
  BY <1>a DEF Slot
<1>1. ASSUME NEW t \in Thread, NewContainer(t) PROVE TypeOK'
  BY <1>1, <1>a DEF NewContainer
<1>2. ASSUME NEW t \in Thread, NEW p \in Pair, Call(t, p) PROVE TypeOK'
  BY <1>2 DEF Call
<1>3. ASSUME NEW t \in Thread, Fast(t) PROVE TypeOK'
  BY <1>3, <1>a DEF Fast
<1>4. ASSUME NEW t \in Thread, Load(t) PROVE TypeOK'
  <2>1. CASE i[t] = Slots
    BY <1>4, <2>1 DEF Load
  <2>2. CASE i[t] # Slots
    <3>1. g_func_pairs[i[t]] \in Pair \cup {Free}
      BY <2>2, <1>b
    <3> QED BY <1>4, <2>2, <3>1 DEF Load
  <2> QED BY <2>1, <2>2
<1>5. ASSUME NEW t \in Thread, Swap(t) PROVE TypeOK'
  <2>1. i[t] \in Slot
    BY <1>5 DEF InLoop, Swap
  <2> QED BY <1>5, <2>1 DEF Swap, Answer
<1>6. ASSUME NEW t \in Thread, Compare(t) PROVE TypeOK'
  <2>1. i[t] \in Slot
    BY <1>6 DEF InLoop, Compare
  <2> QED BY <1>6, <2>1, <1>c DEF Compare, Answer
<1>7. ASSUME NEW t \in Thread, Return(t) PROVE TypeOK'
  BY <1>7 DEF Return
<1>8. CASE UNCHANGED vars
  BY <1>8 DEF vars
<1> QED BY <1>1, <1>2, <1>3, <1>4, <1>5, <1>6, <1>7, <1>8 DEF Next

\* A slot that is taken is never written again.
LEMMA FinalNext ==
    ASSUME TypeOK, [Next]_vars
    PROVE  \A s \in Slot : g_func_pairs[s] # Free => g_func_pairs'[s] = g_func_pairs[s]
<1>1. ASSUME NEW t \in Thread, Swap(t)
      PROVE \A s \in Slot : g_func_pairs[s] # Free => g_func_pairs'[s] = g_func_pairs[s]
  BY <1>1 DEF Swap, TypeOK
<1>2. ASSUME UNCHANGED g_func_pairs
      PROVE \A s \in Slot : g_func_pairs[s] # Free => g_func_pairs'[s] = g_func_pairs[s]
  BY <1>2
<1> QED BY <1>1, <1>2 DEF Next, vars, NewContainer, Call, Fast, Load, Compare, Return

\* The only step that writes the table puts the thread's pair in the first
\* free slot, and answers that slot.
LEMMA SwapWrites ==
    ASSUME TypeOK, Passed, Dense, InLoop,
           NEW t \in Thread, Swap(t), g_func_pairs[i[t]] = Free
    PROVE  /\ i[t] \in Slot
           /\ g_func_pairs' = [g_func_pairs EXCEPT ![i[t]] = wanted[t]]
           /\ \A s \in Slot : s < i[t] => g_func_pairs[s] \notin {Free, wanted[t]}
           /\ \A s \in Slot : s > i[t] => g_func_pairs[s] = Free
<1>1. i[t] \in Slot /\ pc[t] = "swap"
  BY DEF Swap, InLoop
<1>2. \A s \in Slot : s < i[t] => s \in 0..i[t] - 1
  BY <1>1 DEF Slot
<1>3. \A s \in Slot : s > i[t] => g_func_pairs[s] = Free
  BY <1>1 DEF Dense
<1> QED BY <1>1, <1>2, <1>3 DEF Swap, Passed

\* What the threads before and after a step know of the table, one lemma per
\* conjunct of the invariant.
LEMMA NoDuplicatesNext ==
    ASSUME TypeOK, NoDuplicates, Passed, Dense, InLoop, [Next]_vars
    PROVE  NoDuplicates'
<1>1. ASSUME NEW t \in Thread, Swap(t), g_func_pairs[i[t]] = Free PROVE NoDuplicates'
  <2>1. /\ i[t] \in Slot
        /\ g_func_pairs' = [g_func_pairs EXCEPT ![i[t]] = wanted[t]]
        /\ \A s \in Slot : s < i[t] => g_func_pairs[s] \notin {Free, wanted[t]}
        /\ \A s \in Slot : s > i[t] => g_func_pairs[s] = Free
    BY <1>1, SwapWrites
  <2>2. wanted[t] # Free
    BY FuncPairsAssumption DEF TypeOK
  <2>3. \A s \in Slot : s # i[t] => g_func_pairs[s] # wanted[t]
    BY <2>1, <2>2, FuncPairsAssumption DEF Slot
  <2>4. \A s \in Slot : g_func_pairs'[s] = IF s = i[t] THEN wanted[t] ELSE g_func_pairs[s]
    BY <2>1 DEF TypeOK
  <2> QED BY <2>3, <2>4 DEF NoDuplicates
<1>2. ASSUME UNCHANGED g_func_pairs PROVE NoDuplicates'
  BY <1>2 DEF NoDuplicates
<1> QED
  BY <1>1, <1>2 DEF Next, vars, NewContainer, Call, Fast, Load, Swap, Compare, Return

LEMMA DenseNext ==
    ASSUME TypeOK, Passed, Dense, InLoop, [Next]_vars
    PROVE  Dense'
<1>1. ASSUME NEW t \in Thread, Swap(t), g_func_pairs[i[t]] = Free PROVE Dense'
  <2>1. /\ i[t] \in Slot
        /\ g_func_pairs' = [g_func_pairs EXCEPT ![i[t]] = wanted[t]]
        /\ \A s \in Slot : s < i[t] => g_func_pairs[s] \notin {Free, wanted[t]}
    BY <1>1, SwapWrites
  <2>2. wanted[t] # Free
    BY FuncPairsAssumption DEF TypeOK
  <2>3. \A s \in Slot : g_func_pairs'[s] = IF s = i[t] THEN wanted[t] ELSE g_func_pairs[s]
    BY <2>1 DEF TypeOK
  <2> QED BY <2>1, <2>2, <2>3 DEF Dense
<1>2. ASSUME UNCHANGED g_func_pairs PROVE Dense'
  BY <1>2 DEF Dense
<1> QED
  BY <1>1, <1>2 DEF Next, vars, NewContainer, Call, Fast, Load, Swap, Compare, Return

\* A thread that goes on to the next slot has just looked at this one; the
\* others lose nothing, for taken slots are final.
LEMMA PassedNext ==
    ASSUME TypeOK, Passed, InLoop, [Next]_vars
    PROVE  Passed'
<1>1. \A s \in Slot : g_func_pairs[s] # Free => g_func_pairs'[s] = g_func_pairs[s]
  BY FinalNext
<1>2. \A u \in Thread : \A s \in 0..i[u] - 1 : s \in Slot
  BY FuncPairsAssumption DEF TypeOK, Slot
\* A thread whose loop stands where it stood, or has not begun.
<1>3. ASSUME NEW u \in Thread,
             \/ pc'[u] \notin {"load", "swap", "compare"}
             \/ i'[u] = 0
             \/ i'[u] = i[u] /\ wanted'[u] = wanted[u] /\ pc[u] \in {"load", "swap", "compare"},
             pc'[u] \in {"load", "swap", "compare"}, NEW s \in 0..i'[u] - 1
      PROVE g_func_pairs'[s] \notin {Free, wanted'[u]}
  <2>1. CASE i'[u] = 0
    <3>1. FALSE
      BY <2>1, <1>3
    <3> QED BY <3>1
  <2>2. CASE i'[u] = i[u] /\ wanted'[u] = wanted[u] /\ pc[u] \in {"load", "swap", "compare"}
    <3>1. g_func_pairs[s] \notin {Free, wanted[u]} /\ s \in Slot
      BY <2>2, <1>3, <1>2 DEF Passed
    <3> QED BY <3>1, <2>2, <1>1
  <2> QED BY <1>3, <2>1, <2>2
<1>4. ASSUME NEW t \in Thread, Compare(t), current[t] # wanted[t] PROVE Passed'
  <2>1. ASSUME NEW s \in 0..i'[t] - 1 PROVE g_func_pairs'[s] \notin {Free, wanted'[t]}
    <3>1. /\ i[t] \in Slot /\ i'[t] = i[t] + 1 /\ pc[t] = "compare"
          /\ UNCHANGED <<g_func_pairs, wanted>>
      BY <1>4 DEF Compare, TypeOK, InLoop
    <3>2. g_func_pairs[i[t]] \notin {Free, wanted[t]}
      BY <3>1, <1>4 DEF InLoop
    <3>3. s \in 0..i[t] - 1 \/ s = i[t]
      BY <3>1, <2>1 DEF Slot
    <3> QED BY <3>1, <3>2, <3>3 DEF Passed
  <2>2. \A u \in Thread : u # t => /\ i'[u] = i[u] /\ wanted'[u] = wanted[u] /\ pc'[u] = pc[u]
    BY <1>4 DEF Compare, TypeOK, Goto
  <2> QED BY <2>1, <2>2, <1>3 DEF Passed
<1>5. ASSUME \A u \in Thread :
                \/ pc'[u] \notin {"load", "swap", "compare"}
                \/ i'[u] = 0
                \/ i'[u] = i[u] /\ wanted'[u] = wanted[u] /\ pc[u] \in {"load", "swap", "compare"}
      PROVE Passed'
  BY <1>5, <1>3 DEF Passed
<1> USE <1>5 DEF Goto, TypeOK
<1>6. ASSUME NEW t \in Thread, NewContainer(t) \/ Return(t) PROVE Passed'
  BY <1>6 DEF NewContainer, Return
<1>7. ASSUME NEW t \in Thread, NEW p \in Pair, Call(t, p) PROVE Passed'
  BY <1>7 DEF Call
<1>8. ASSUME NEW t \in Thread, Fast(t) PROVE Passed'
  BY <1>8 DEF Fast
<1>9. ASSUME NEW t \in Thread, Load(t) PROVE Passed'
  BY <1>9 DEF Load
<1>10. ASSUME NEW t \in Thread, Swap(t) PROVE Passed'
  BY <1>10 DEF Swap, Answer
<1>11. ASSUME NEW t \in Thread, Compare(t), current[t] = wanted[t] PROVE Passed'
  BY <1>11 DEF Compare, Answer
<1>12. CASE UNCHANGED vars
  BY <1>12 DEF vars
<1> QED BY <1>4, <1>6, <1>7, <1>8, <1>9, <1>10, <1>11, <1>12 DEF Next

LEMMA InLoopNext ==
    ASSUME TypeOK, InLoop, [Next]_vars
    PROVE  InLoop'
<1>1. \A s \in Slot : g_func_pairs[s] # Free => g_func_pairs'[s] = g_func_pairs[s]
  BY FinalNext
<1>2. ASSUME NEW u \in Thread,
             \/ pc'[u] \notin {"swap", "compare"}
             \/ i'[u] = i[u] /\ current'[u] = current[u] /\ pc'[u] = pc[u]
      PROVE /\ pc'[u] \in {"swap", "compare"} => i'[u] \in Slot
            /\ pc'[u] = "compare" => current'[u] # Free /\ current'[u] = g_func_pairs'[i'[u]]
  BY <1>2, <1>1 DEF InLoop
<1>3. ASSUME NEW t \in Thread, NewContainer(t) \/ Return(t) PROVE InLoop'
  BY <1>3, <1>2 DEF NewContainer, Return, Goto, TypeOK, InLoop
<1>4. ASSUME NEW t \in Thread, NEW p \in Pair, Call(t, p) PROVE InLoop'
  BY <1>4, <1>2 DEF Call, Goto, TypeOK, InLoop
<1>5. ASSUME NEW t \in Thread, Fast(t) PROVE InLoop'
  BY <1>5, <1>2 DEF Fast, Goto, TypeOK, InLoop
<1>6. ASSUME NEW t \in Thread, Load(t) PROVE InLoop'
  <2>1. CASE i[t] = Slots
    BY <1>6, <2>1, <1>2 DEF Load, TypeOK, InLoop
  <2>2. CASE i[t] # Slots
    <3>1. i[t] \in Slot
      BY <2>2, FuncPairsAssumption DEF TypeOK, Slot
    <3>2. /\ i'[t] = i[t] /\ current'[t] = g_func_pairs[i[t]] /\ UNCHANGED g_func_pairs
          /\ pc'[t] = IF g_func_pairs[i[t]] = Free THEN "swap" ELSE "compare"
      BY <1>6, <2>2 DEF Load, Goto, TypeOK
    <3>3. \A u \in Thread : u # t => i'[u] = i[u] /\ current'[u] = current[u] /\ pc'[u] = pc[u]
      BY <1>6, <2>2 DEF Load, Goto, TypeOK
    <3> QED BY <3>1, <3>2, <3>3, <1>2 DEF InLoop
  <2> QED BY <2>1, <2>2
<1>7. ASSUME NEW t \in Thread, Swap(t) PROVE InLoop'
  <2>1. \A u \in Thread : u # t => i'[u] = i[u] /\ current'[u] = current[u] /\ pc'[u] = pc[u]
    BY <1>7 DEF Swap, Answer, Goto, TypeOK
  <2>2. CASE g_func_pairs[i[t]] = Free
    <3>1. pc'[t] = "answered"
      BY <1>7, <2>2 DEF Swap, Answer, Goto, TypeOK
    <3> QED BY <3>1, <2>1, <1>2 DEF InLoop
  <2>3. CASE g_func_pairs[i[t]] # Free
    <3>1. /\ i'[t] = i[t] /\ i[t] \in Slot /\ pc'[t] = "compare"
          /\ current'[t] = g_func_pairs[i[t]] /\ UNCHANGED g_func_pairs
      BY <1>7, <2>3 DEF Swap, Goto, TypeOK, InLoop
    <3> QED BY <3>1, <2>1, <2>3, <1>2 DEF InLoop
  <2> QED BY <2>2, <2>3
<1>8. ASSUME NEW t \in Thread, Compare(t) PROVE InLoop'
  BY <1>8, <1>2 DEF Compare, Answer, Goto, TypeOK, InLoop
<1>9. CASE UNCHANGED vars
  BY <1>9, <1>2 DEF vars, InLoop
<1> QED BY <1>3, <1>4, <1>5, <1>6, <1>7, <1>8, <1>9 DEF Next

LEMMA AnswersNext ==
    ASSUME TypeOK, AnswersWanted, Passed, Dense, InLoop, [Next]_vars
    PROVE  AnswersWanted'
<1>1. \A s \in Slot : g_func_pairs[s] # Free => g_func_pairs'[s] = g_func_pairs[s]
  BY FinalNext
<1>2. \A u \in Thread : wanted[u] # Free /\ cached[u] \in Slot
  BY FuncPairsAssumption DEF TypeOK
<1>3. ASSUME NEW u \in Thread,
             \/ pc'[u] # "answered"
             \/ pc[u] = "answered" /\ cached'[u] = cached[u] /\ wanted'[u] = wanted[u]
      PROVE pc'[u] = "answered" => g_func_pairs'[cached'[u]] = wanted'[u]
  BY <1>3, <1>1, <1>2 DEF AnswersWanted
<1>4. ASSUME NEW t \in Thread, NewContainer(t) \/ Return(t) \/ Load(t) PROVE AnswersWanted'
  BY <1>4, <1>3 DEF NewContainer, Return, Load, Goto, TypeOK, AnswersWanted
<1>5. ASSUME NEW t \in Thread, NEW p \in Pair, Call(t, p) PROVE AnswersWanted'
  BY <1>5, <1>3 DEF Call, Goto, TypeOK, AnswersWanted
<1>6. ASSUME NEW t \in Thread, Fast(t) PROVE AnswersWanted'
  BY <1>6, <1>3 DEF Fast, Goto, TypeOK, AnswersWanted
<1>7. ASSUME NEW t \in Thread, Swap(t) PROVE AnswersWanted'
  <2>1. i[t] \in Slot
    BY <1>7 DEF Swap, InLoop
  <2>2. \A u \in Thread : u # t => cached'[u] = cached[u] /\ wanted'[u] = wanted[u] /\ pc'[u] = pc[u]
    BY <1>7 DEF Swap, Answer, Goto, TypeOK
  <2>3. CASE g_func_pairs[i[t]] = Free
    <3>1. cached'[t] = i[t] /\ g_func_pairs'[i[t]] = wanted[t] /\ wanted'[t] = wanted[t]
      BY <1>7, <2>3, <2>1 DEF Swap, Answer, TypeOK
    <3> QED BY <3>1, <2>2, <1>3 DEF AnswersWanted
  <2>4. CASE g_func_pairs[i[t]] # Free
    <3>1. pc'[t] = "compare"
      BY <1>7, <2>4 DEF Swap, Goto, TypeOK
    <3> QED BY <3>1, <2>2, <1>3 DEF AnswersWanted
  <2> QED BY <2>3, <2>4
<1>8. ASSUME NEW t \in Thread, Compare(t) PROVE AnswersWanted'
  BY <1>8, <1>3 DEF Compare, Answer, Goto, TypeOK, AnswersWanted, InLoop
<1>9. CASE UNCHANGED vars
  BY <1>9, <1>3 DEF vars, AnswersWanted
<1> QED BY <1>4, <1>5, <1>6, <1>7, <1>8, <1>9 DEF Next

LEMMA OnlyAskedNext ==
    ASSUME TypeOK, InLoop, OnlyAsked, [Next]_vars
    PROVE  OnlyAsked'
<1> USE DEF OnlyAsked, TypeOK, Goto
<1>1. ASSUME NEW t \in Thread, NewContainer(t) \/ Return(t) \/ Load(t) \/ Fast(t) PROVE OnlyAsked'
  BY <1>1 DEF NewContainer, Return, Load, Fast
<1>2. ASSUME NEW t \in Thread, NEW p \in Pair, Call(t, p) PROVE OnlyAsked'
  BY <1>2 DEF Call
<1>3. ASSUME NEW t \in Thread, Swap(t) PROVE OnlyAsked'
  BY <1>3 DEF Swap, Answer
<1>4. ASSUME NEW t \in Thread, Compare(t) PROVE OnlyAsked'
  BY <1>4 DEF Compare, Answer
<1>5. CASE UNCHANGED vars
  BY <1>5 DEF vars
<1> QED BY <1>1, <1>2, <1>3, <1>4, <1>5 DEF Next

LEMMA FullNext ==
    ASSUME TypeOK, Passed, OnlyAsked, Full, [Next]_vars
    PROVE  Full'
<1>1. ASSUME NEW t \in Thread, Load(t), i[t] = Slots PROVE Full'
  <2>1. pc[t] = "load" /\ UNCHANGED <<g_func_pairs, wanted, asked>>
    BY <1>1 DEF Load
  <2>2. \A s \in Slot : g_func_pairs[s] \notin {Free, wanted[t]}
    BY <2>1, <1>1 DEF Passed, Slot
  <2>3. wanted[t] \in asked
    BY <2>1 DEF OnlyAsked
  <2> QED BY <2>1, <2>2, <2>3 DEF Full
<1>2. CASE Next /\ UNCHANGED exited
  BY <1>2 DEF Full, Next
<1>3. CASE UNCHANGED vars
  BY <1>3 DEF Full, vars
<1> QED
  BY <1>1, <1>2, <1>3 DEF Next, NewContainer, Call, Fast, Load, Swap, Compare, Return

LEMMA InvInit == Init => FuncPairsInv
<1> SUFFICES ASSUME Init PROVE FuncPairsInv
  OBVIOUS
<1>1. TypeOK
  BY TypeInit
<1>2. NoDuplicates /\ AnswersWanted /\ Passed /\ Dense /\ InLoop /\ OnlyAsked /\ Full
  BY DEF Init, NoDuplicates, AnswersWanted, Passed, Dense, InLoop, OnlyAsked, Full
<1> QED BY <1>1, <1>2 DEF FuncPairsInv

LEMMA InvNext == FuncPairsInv /\ [Next]_vars => FuncPairsInv'
BY TypeNext, NoDuplicatesNext, AnswersNext, PassedNext, DenseNext, InLoopNext,
   OnlyAskedNext, FullNext DEF FuncPairsInv

\* The table, the threads in the loop and the answers are as the invariant
\* says, whatever threads add whatever pairs at once.
THEOREM TableCorrect == Spec => []FuncPairsInv
<1>1. Init => FuncPairsInv
  BY InvInit
<1>2. FuncPairsInv /\ [Next]_vars => FuncPairsInv'
  BY InvNext
<1> QED BY <1>1, <1>2, PTL DEF Spec

\* The number returned by find_or_add_pair is that of the pair asked for.
THEOREM AnswersAreRight == Spec => []AnswersWanted
<1>1. FuncPairsInv => AnswersWanted
  BY DEF FuncPairsInv
<1> QED BY <1>1, TableCorrect, PTL

\* ... and stays so: a number packed into a match is good for ever.
THEOREM SlotsStay == Spec => SlotsAreFinal
<1>1. FuncPairsInv /\ [Next]_vars =>
        [\A s \in Slot : g_func_pairs[s] # Free => g_func_pairs'[s] = g_func_pairs[s]]_vars
  BY FinalNext DEF FuncPairsInv
<1> QED BY <1>1, TableCorrect, PTL DEF Spec, SlotsAreFinal

\* No race wastes a slot.
THEOREM SlotsAreNotWasted == Spec => []NoDuplicates
<1>1. FuncPairsInv => NoDuplicates
  BY DEF FuncPairsInv
<1> QED BY <1>1, TableCorrect, PTL

\* A table that is full of distinct pairs is a set of Slots pairs.
LEMMA FullCounts == FuncPairsInv => ExitMeansTooMany
<1> SUFFICES ASSUME FuncPairsInv, exited PROVE Cardinality(asked) > Slots
  BY DEF ExitMeansTooMany
<1> USE DEF FuncPairsInv
<1>1. PICK p \in asked : \A s \in Slot : g_func_pairs[s] \notin {Free, p}
  BY DEF Full
<1>2. IsFiniteSet(asked) /\ IsFiniteSet(asked \ {p})
  BY FuncPairsAssumption, FS_Subset, FS_RemoveElement DEF TypeOK
<1>3. g_func_pairs \in [Slot -> asked \ {p}]
  BY <1>1 DEF OnlyAsked, TypeOK
<1>4. g_func_pairs \in Injection(Slot, asked \ {p})
  BY <1>1, <1>3, Fun_IsInj DEF NoDuplicates
<1>5. Cardinality(Slot) <= Cardinality(asked \ {p})
  BY <1>2, <1>4, FS_Injection
<1>6. Cardinality(Slot) = Slots
  BY FuncPairsAssumption, FS_Interval DEF Slot
<1>7. Cardinality(asked \ {p}) = Cardinality(asked) - 1
  BY <1>1, <1>2, FS_RemoveElement
<1>8. Cardinality(asked) \in Nat /\ Cardinality(asked \ {p}) \in Nat
  BY <1>2, FS_CardinalityType
<1> QED BY <1>5, <1>6, <1>7, <1>8, FuncPairsAssumption

\* The process exits for want of slots only when more pairs are in use than
\* there are slots.
THEOREM ExitIsJustified == Spec => []ExitMeansTooMany
<1>1. FuncPairsInv => ExitMeansTooMany
  BY FullCounts
<1> QED BY <1>1, TableCorrect, PTL

-----------------------------------------------------------------------------
(* The pool of hash sets.                                                  *)

\* The place that the main thread has taken from the pool and is to read.
Taken == seen[Main] - 1

\* Where a set can be, besides with the main thread or queued for destruction.
InPlace(s) == \E p \in Stored : hashset_pool[p] = s
InHand(s) == \E t \in Destroyer : returning[t] = s
InGrasp(s) == creating = "read" /\ hashset_pool[Taken] = s

\* A place between its exchange and its store belongs to one thread, and the
\* place the main thread is to read is none of those that count as stored.
PlacesInv ==
    /\ creating = "read" => seen[Main] > 0 /\ Taken \notin Stored
    /\ \A t \in Destroyer : returning[t] = Null => at[t] = "load"
    /\ \A t \in Destroyer : at[t] = "store" => seen[t] < pool_pos
    /\ \A t, u \in Destroyer : at[t] = "store" /\ at[u] = "store" /\ seen[t] = seen[u] => t = u

\* No set is twice in the pool or in two hands.
NoTwins ==
    /\ \A p, r \in Stored : hashset_pool[p] = hashset_pool[r] => p = r
    /\ \A t, u \in Destroyer : returning[t] = returning[u] /\ returning[t] # Null => t = u

\* What is stored, or taken and not yet read, is a set.
SetsInPool ==
    /\ \A p \in Stored : hashset_pool[p] # Null
    /\ creating = "read" => hashset_pool[Taken] # Null

\* The five kinds of holder exclude each other and cover what is allocated.
Kinds ==
    \A s \in HashSet :
        /\ s \in inUse => s \notin doomed /\ ~ InPlace(s) /\ ~ InHand(s) /\ ~ InGrasp(s)
        /\ s \in doomed => ~ InPlace(s) /\ ~ InHand(s) /\ ~ InGrasp(s)
        /\ InPlace(s) => ~ InHand(s) /\ ~ InGrasp(s)
        /\ InHand(s) => ~ InGrasp(s)
        /\ s \in allocated <=> \/ s \in inUse \/ s \in doomed
                               \/ InPlace(s) \/ InHand(s) \/ InGrasp(s)

PoolInv == PoolTypeOK /\ (~ raced => PlacesInv /\ NoTwins /\ SetsInPool /\ Kinds)

Held == PlacesInv /\ NoTwins /\ SetsInPool /\ Kinds

LEMMA Typed ==
    ASSUME PoolTypeOK
    PROVE  /\ Places \in Nat /\ Null \notin HashSet /\ Main \notin Destroyer
           /\ pool_pos \in 0..Places
           /\ seen \in [Destroyer \cup {Main} -> 0..Places]
           /\ hashset_pool \in [0..Places - 1 -> HashSet \cup {Null}]
           /\ returning \in [Destroyer -> HashSet \cup {Null}]
           /\ at \in [Destroyer -> {"load", "swap", "store"}]
           /\ Stored \subseteq 0..Places - 1
BY PoolAssumption DEF PoolTypeOK, Stored

\* The main thread before and after it takes a place: no set moves.
LEMMA CreateHolds == ASSUME PoolInv, ~ raced, Create PROVE PoolInv'
<1>1. PoolTypeOK'
  BY DEF Create, PoolInv, PoolTypeOK
<1>2. Stored' = Stored
  BY DEF Create, Stored
<1>3. \A s : InPlace(s)' <=> InPlace(s)
  BY <1>2 DEF Create, InPlace
<1>4. \A s : (InHand(s)' <=> InHand(s)) /\ ~ InGrasp(s)' /\ ~ InGrasp(s)
  BY DEF Create, InHand, InGrasp
<1>5. PlacesInv' /\ NoTwins' /\ SetsInPool'
  BY <1>2 DEF Create, PoolInv, PlacesInv, NoTwins, SetsInPool
<1>6. Kinds'
  BY <1>3, <1>4 DEF Create, PoolInv, Kinds
<1> QED BY <1>1, <1>5, <1>6 DEF PoolInv

LEMMA GrabLoadHolds == ASSUME PoolInv, ~ raced, GrabLoad PROVE PoolInv'
<1>0. Main \notin Destroyer /\ seen' = [seen EXCEPT ![Main] = pool_pos]
  BY Typed DEF PoolInv, GrabLoad
<1>1. PoolTypeOK'
  BY DEF GrabLoad, PoolInv, PoolTypeOK
<1>2. \A t \in Destroyer : seen'[t] = seen[t]
  BY <1>0, Typed DEF PoolInv
<1>3. Stored' = Stored
  BY <1>2 DEF GrabLoad, Stored
<1>4. \A s : InPlace(s)' <=> InPlace(s)
  BY <1>3 DEF GrabLoad, InPlace
<1>5. \A s : (InHand(s)' <=> InHand(s)) /\ ~ InGrasp(s)' /\ ~ InGrasp(s)
  BY DEF GrabLoad, InHand, InGrasp
<1>6. PlacesInv' /\ NoTwins' /\ SetsInPool'
  BY <1>2, <1>3 DEF GrabLoad, PoolInv, PlacesInv, NoTwins, SetsInPool
<1>7. Kinds'
  BY <1>4, <1>5 DEF GrabLoad, PoolInv, Kinds
<1> QED BY <1>1, <1>6, <1>7 DEF PoolInv

\* A set that malloc returns is nobody's yet.
LEMMA NewHolds ==
    ASSUME PoolInv, ~ raced, New, creating \in {"swap", "read"},
           creating = "read" => \A s \in HashSet : ~ InGrasp(s),
           UNCHANGED <<hashset_pool, pool_pos, seen, doomed, returning, at, raced>>
    PROVE  PoolInv'
<1>1. PICK x \in HashSet \ allocated : inUse' = inUse \cup {x} /\ allocated' = allocated \cup {x}
  BY DEF New
<1>2. PoolTypeOK'
  BY <1>1 DEF New, PoolInv, PoolTypeOK
<1>3. Stored' = Stored
  BY DEF Stored
<1>4. \A s : InPlace(s)' <=> InPlace(s)
  BY <1>3 DEF InPlace
<1>5. \A s \in HashSet : (InHand(s)' <=> InHand(s)) /\ ~ InGrasp(s)' /\ ~ InGrasp(s)
  BY DEF New, InHand, InGrasp
<1>6. PlacesInv' /\ NoTwins' /\ SetsInPool'
  BY <1>3 DEF New, PoolInv, PlacesInv, NoTwins, SetsInPool
<1>7. Kinds'
  BY <1>1, <1>4, <1>5 DEF PoolInv, Kinds
<1> QED BY <1>2, <1>6, <1>7 DEF PoolInv

\* The exchange of the main thread takes the last place of the pool.
LEMMA GrabSwapHolds == ASSUME PoolInv, ~ raced, GrabSwap PROVE PoolInv'
<1>0. /\ Main \notin Destroyer /\ Places \in Nat /\ pool_pos \in 0..Places
      /\ seen \in [Destroyer \cup {Main} -> 0..Places] /\ seen[Main] \in 0..Places
  BY Typed DEF PoolInv
<1>1. CASE seen[Main] = 0
  <2>1. New /\ UNCHANGED <<hashset_pool, pool_pos, seen, doomed, returning, at, raced>>
    BY <1>1 DEF GrabSwap
  <2> QED BY <2>1, NewHolds DEF GrabSwap
<1>2. CASE seen[Main] # 0 /\ pool_pos # seen[Main]
  <2>1. /\ seen' = [seen EXCEPT ![Main] = pool_pos]
        /\ UNCHANGED <<hashset_pool, pool_pos, creating, inUse, doomed, returning, at, allocated, raced>>
        /\ creating = "swap"
    BY <1>2 DEF GrabSwap
  <2>2. PoolTypeOK'
    BY <2>1 DEF PoolInv, PoolTypeOK
  <2>3. \A t \in Destroyer : seen'[t] = seen[t]
    BY <1>0, <2>1
  <2>4. Stored' = Stored
    BY <2>1, <2>3 DEF Stored
  <2>5. \A s : InPlace(s)' <=> InPlace(s)
    BY <2>1, <2>4 DEF InPlace
  <2>6. \A s : (InHand(s)' <=> InHand(s)) /\ ~ InGrasp(s)' /\ ~ InGrasp(s)
    BY <2>1 DEF InHand, InGrasp
  <2>7. PlacesInv' /\ NoTwins' /\ SetsInPool'
    BY <2>1, <2>3, <2>4 DEF PoolInv, PlacesInv, NoTwins, SetsInPool
  <2>8. Kinds'
    BY <2>1, <2>5, <2>6 DEF PoolInv, Kinds
  <2> QED BY <2>2, <2>7, <2>8 DEF PoolInv
<1>3. CASE seen[Main] # 0 /\ pool_pos = seen[Main]
  <2>1. /\ creating = "swap" /\ creating' = "read" /\ pool_pos' = pool_pos - 1
        /\ raced' = (raced \/ \E t \in Destroyer : at[t] = "store" /\ seen[t] = pool_pos - 1)
        /\ UNCHANGED <<hashset_pool, seen, inUse, doomed, returning, at, allocated>>
    BY <1>3 DEF GrabSwap
  <2>2. PoolTypeOK'
    <3>1. pool_pos' \in 0..Places
      BY <1>0, <1>3, <2>1
    <3>2. raced' \in BOOLEAN
      BY <2>1
    <3> QED BY <2>1, <3>1, <3>2 DEF PoolInv, PoolTypeOK
  <2>3. SUFFICES ASSUME ~ raced' PROVE Held'
    BY <2>2 DEF PoolInv, Held
  <2>4. \A t \in Destroyer : at[t] = "store" => seen[t] # pool_pos - 1
    BY <2>1, <2>3
  <2>5. Taken = pool_pos - 1 /\ Taken' = Taken /\ Taken \in Stored
    BY <1>0, <1>3, <2>1, <2>4 DEF Taken, Stored
  <2>6. Stored' = Stored \ {Taken}
    <3>1. 0..pool_pos' - 1 = (0..pool_pos - 1) \ {Taken}
      BY <1>0, <1>3, <2>1, <2>5
    <3> QED BY <2>1, <3>1 DEF Stored
  <2>7. PlacesInv'
    <3>1. creating' = "read" => seen'[Main] > 0 /\ Taken' \notin Stored'
      BY <1>0, <1>3, <2>1, <2>5, <2>6
    <3>2. \A t \in Destroyer : at'[t] = "store" => seen'[t] < pool_pos'
      <4>1. \A t \in Destroyer : seen[t] \in 0..Places
        BY <1>0
      <4>2. \A t \in Destroyer : at[t] = "store" => seen[t] < pool_pos
        BY DEF PoolInv, PlacesInv
      <4> QED BY <1>0, <2>1, <2>4, <4>1, <4>2
    <3> QED BY <2>1, <3>1, <3>2 DEF PoolInv, PlacesInv
  <2>8. NoTwins' /\ SetsInPool'
    BY <2>1, <2>5, <2>6 DEF PoolInv, NoTwins, SetsInPool
  <2>9. \A s \in HashSet : /\ InPlace(s)' <=> InPlace(s) /\ hashset_pool[Taken] # s
                           /\ InHand(s)' <=> InHand(s)
                           /\ InGrasp(s)' <=> hashset_pool[Taken] = s
                           /\ ~ InGrasp(s)
                           /\ hashset_pool[Taken] = s => InPlace(s)
    <3>1. \A s : InPlace(s)' <=> InPlace(s) /\ hashset_pool[Taken] # s
      BY <2>1, <2>5, <2>6 DEF InPlace, PoolInv, NoTwins
    <3> QED BY <2>1, <2>5, <3>1 DEF InHand, InGrasp, InPlace
  <2>10. Kinds'
    BY <2>1, <2>9 DEF PoolInv, Kinds
  <2> QED BY <2>7, <2>8, <2>10 DEF Held
<1> QED BY <1>1, <1>2, <1>3

LEMMA GrabReadHolds == ASSUME PoolInv, ~ raced, GrabRead PROVE PoolInv'
<1> DEFINE x == hashset_pool[Taken]
<1>1. creating = "read" /\ x # Null /\ x \in HashSet
  <2>1. creating = "read" /\ x # Null /\ seen[Main] > 0
    BY DEF GrabRead, PoolInv, SetsInPool, PlacesInv
  <2>2. Taken \in 0..Places - 1
    BY <2>1, Typed DEF PoolInv, Taken
  <2> QED BY <2>1, <2>2, Typed DEF PoolInv
<1>2. /\ inUse' = inUse \cup {x} /\ creating' = "no"
      /\ UNCHANGED <<allocated, hashset_pool, pool_pos, seen, doomed, returning, at, raced>>
  BY <1>1 DEF GrabRead, Taken
<1>3. \A s : InGrasp(s) <=> s = x
  BY <1>1 DEF InGrasp
<1> HIDE DEF x
<1>4. PoolTypeOK'
  BY <1>1, <1>2 DEF PoolInv, PoolTypeOK
<1>5. Stored' = Stored
  BY <1>2 DEF Stored
<1>6. \A s : (InPlace(s)' <=> InPlace(s)) /\ (InHand(s)' <=> InHand(s)) /\ ~ InGrasp(s)'
  BY <1>2, <1>5 DEF InPlace, InHand, InGrasp
<1>7. PlacesInv' /\ NoTwins' /\ SetsInPool'
  BY <1>2, <1>5 DEF PoolInv, PlacesInv, NoTwins, SetsInPool
<1>8. Kinds'
  BY <1>1, <1>2, <1>3, <1>6 DEF PoolInv, Kinds
<1> QED BY <1>4, <1>7, <1>8 DEF PoolInv

LEMMA GiveUpHolds == ASSUME PoolInv, ~ raced, NEW x \in HashSet, GiveUp(x) PROVE PoolInv'
<1>1. PoolTypeOK'
  BY DEF GiveUp, PoolInv, PoolTypeOK
<1>2. Stored' = Stored
  BY DEF GiveUp, Stored
<1>3. \A s : (InPlace(s)' <=> InPlace(s)) /\ (InHand(s)' <=> InHand(s)) /\ (InGrasp(s)' <=> InGrasp(s))
  BY <1>2 DEF GiveUp, InPlace, InHand, InGrasp, Taken
<1>4. PlacesInv' /\ NoTwins' /\ SetsInPool'
  BY <1>2 DEF GiveUp, PoolInv, PlacesInv, NoTwins, SetsInPool, Taken
<1>5. Kinds'
  BY <1>3 DEF GiveUp, PoolInv, Kinds
<1> QED BY <1>1, <1>4, <1>5 DEF PoolInv

-----------------------------------------------------------------------------
(* The threads that destroy.                                               *)

LEMMA DestroyHolds ==
    ASSUME PoolInv, ~ raced, NEW t \in Destroyer, NEW x \in HashSet, Destroy(t, x)
    PROVE  PoolInv'
<1>0. /\ Main \notin Destroyer /\ Null \notin HashSet /\ pool_pos \in 0..Places
      /\ seen \in [Destroyer \cup {Main} -> 0..Places]
      /\ returning \in [Destroyer -> HashSet \cup {Null}]
      /\ at \in [Destroyer -> {"load", "swap", "store"}]
  BY Typed DEF PoolInv
<1>1. /\ returning[t] = Null /\ x \in doomed /\ doomed' = doomed \ {x}
      /\ returning' = [returning EXCEPT ![t] = x] /\ seen' = [seen EXCEPT ![t] = pool_pos]
      /\ at' = [at EXCEPT ![t] = "swap"]
      /\ UNCHANGED <<hashset_pool, pool_pos, creating, inUse, allocated, raced>>
  BY DEF Destroy
<1>2. at[t] = "load"
  BY <1>1 DEF PoolInv, PlacesInv
<1>3. /\ returning'[t] = x /\ at'[t] = "swap" /\ seen'[Main] = seen[Main]
      /\ \A u \in Destroyer : u # t => returning'[u] = returning[u] /\ at'[u] = at[u]
                                       /\ seen'[u] = seen[u]
  BY <1>0, <1>1
<1>4. PoolTypeOK'
  BY <1>0, <1>1 DEF PoolInv, PoolTypeOK
<1>5. Stored' = Stored
  BY <1>1, <1>2, <1>3 DEF Stored
<1>6. \A s \in HashSet : /\ InPlace(s)' <=> InPlace(s)
                         /\ InHand(s)' <=> InHand(s) \/ s = x
                         /\ InGrasp(s)' <=> InGrasp(s)
  <2>1. \A s : InPlace(s)' <=> InPlace(s)
    BY <1>1, <1>5 DEF InPlace
  <2>2. \A s : InGrasp(s)' <=> InGrasp(s)
    BY <1>1, <1>3 DEF InGrasp, Taken
  <2>3. \A s \in HashSet : InHand(s)' <=> InHand(s) \/ s = x
    BY <1>0, <1>1, <1>3 DEF InHand
  <2> QED BY <2>1, <2>2, <2>3
<1>7. PlacesInv'
  BY <1>0, <1>1, <1>3, <1>5 DEF PoolInv, PlacesInv, Taken
<1>8. ~ InHand(x)
  BY <1>1 DEF PoolInv, Kinds
<1>9. NoTwins'
  BY <1>0, <1>1, <1>3, <1>5, <1>8 DEF PoolInv, NoTwins, InHand
<1>10. SetsInPool'
  BY <1>1, <1>3, <1>5 DEF PoolInv, SetsInPool, Taken
<1>11. Kinds'
  BY <1>1, <1>6 DEF PoolInv, Kinds
<1> QED BY <1>4, <1>7, <1>9, <1>10, <1>11 DEF PoolInv

\* The exchange of a destroyer: the next place is its own, the pool is full and
\* the set is freed, or the position has moved.
LEMMA ReturnSwapHolds ==
    ASSUME PoolInv, ~ raced, NEW t \in Destroyer, ReturnSwap(t)
    PROVE  PoolInv'
<1>0. /\ Main \notin Destroyer /\ Null \notin HashSet /\ Places \in Nat /\ pool_pos \in 0..Places
      /\ seen \in [Destroyer \cup {Main} -> 0..Places] /\ seen[t] \in 0..Places
      /\ returning \in [Destroyer -> HashSet \cup {Null}] /\ returning[t] \in HashSet
      /\ at \in [Destroyer -> {"load", "swap", "store"}]
      /\ returning[t] # Null /\ at[t] = "swap"
      /\ UNCHANGED <<hashset_pool, creating, inUse, doomed, raced>>
  BY Typed DEF PoolInv, ReturnSwap
<1>1. CASE seen[t] = Places
  <2> DEFINE x == returning[t]
  <2>1. /\ allocated' = allocated \ {x} /\ pool_pos' = pool_pos
        /\ returning' = [returning EXCEPT ![t] = Null] /\ at' = [at EXCEPT ![t] = "load"]
        /\ seen' = [seen EXCEPT ![t] = 0]
    BY <1>1 DEF ReturnSwap, Done
  <2>2. /\ returning'[t] = Null /\ at'[t] = "load" /\ seen'[Main] = seen[Main]
        /\ \A u \in Destroyer : u # t => returning'[u] = returning[u] /\ at'[u] = at[u]
                                         /\ seen'[u] = seen[u]
    BY <1>0, <2>1
  <2>3. PoolTypeOK'
    BY <1>0, <2>1 DEF PoolInv, PoolTypeOK
  <2>4. Stored' = Stored
    BY <1>0, <2>1, <2>2 DEF Stored
  <2>5. \A s \in HashSet : /\ InPlace(s)' <=> InPlace(s)
                           /\ InHand(s)' <=> InHand(s) /\ s # x
                           /\ InGrasp(s)' <=> InGrasp(s)
    <3>1. \A s : InPlace(s)' <=> InPlace(s)
      BY <1>0, <2>4 DEF InPlace
    <3>2. \A s : InGrasp(s)' <=> InGrasp(s)
      BY <1>0, <2>2 DEF InGrasp, Taken
    <3>3. \A s \in HashSet : InHand(s)' <=> InHand(s) /\ s # x
      BY <1>0, <2>1, <2>2 DEF InHand, PoolInv, NoTwins
    <3> QED BY <3>1, <3>2, <3>3
  <2>6. InHand(x)
    BY DEF InHand
  <2>7. PlacesInv' /\ NoTwins' /\ SetsInPool'
    BY <1>0, <2>1, <2>2, <2>4 DEF PoolInv, PlacesInv, NoTwins, SetsInPool, Taken
  <2> HIDE DEF x
  <2>8. Kinds'
    BY <1>0, <2>1, <2>5, <2>6 DEF PoolInv, Kinds
  <2> QED BY <2>3, <2>7, <2>8 DEF PoolInv
<1>2. CASE seen[t] # Places /\ pool_pos = seen[t]
  <2>1. /\ pool_pos' = pool_pos + 1 /\ at' = [at EXCEPT ![t] = "store"]
        /\ UNCHANGED <<seen, allocated, returning>>
    BY <1>2 DEF ReturnSwap, Advance
  <2>2. at'[t] = "store" /\ \A u \in Destroyer : u # t => at'[u] = at[u]
    BY <1>0, <2>1
  <2>3. PoolTypeOK'
    <3>1. pool_pos' \in 0..Places
      BY <1>0, <1>2, <2>1
    <3> QED BY <1>0, <2>1, <3>1 DEF PoolInv, PoolTypeOK
  <2>4. \A u \in Destroyer : at[u] = "store" => seen[u] < pool_pos
    BY DEF PoolInv, PlacesInv
  <2>5. \A u \in Destroyer : seen[u] \in 0..Places
    BY <1>0
  <2>6. Stored' = Stored
    <3>1. 0..pool_pos' - 1 = (0..pool_pos - 1) \cup {pool_pos}
      BY <1>0, <2>1
    <3>2. pool_pos \notin 0..pool_pos - 1
      BY <1>0
    <3> QED BY <1>0, <1>2, <2>1, <2>2, <3>1, <3>2 DEF Stored
  <2>7. \A s : (InPlace(s)' <=> InPlace(s)) /\ (InHand(s)' <=> InHand(s)) /\ (InGrasp(s)' <=> InGrasp(s))
    BY <1>0, <2>1, <2>6 DEF InPlace, InHand, InGrasp, Taken
  <2>8. PlacesInv'
    <3>1. creating' = "read" => seen'[Main] > 0 /\ Taken' \notin Stored'
      BY <1>0, <2>1, <2>6 DEF PoolInv, PlacesInv, Taken
    <3>2. \A u \in Destroyer : returning'[u] = Null => at'[u] = "load"
      BY <1>0, <2>1, <2>2 DEF PoolInv, PlacesInv
    <3>3. \A u \in Destroyer : at'[u] = "store" => seen'[u] < pool_pos'
      BY <1>0, <1>2, <2>1, <2>2, <2>4, <2>5
    <3>4. \A u, w \in Destroyer : at'[u] = "store" /\ at'[w] = "store" /\ seen'[u] = seen'[w] => u = w
      BY <1>0, <1>2, <2>1, <2>2, <2>4, <2>5 DEF PoolInv, PlacesInv
    <3> QED BY <3>1, <3>2, <3>3, <3>4 DEF PlacesInv
  <2>9. NoTwins' /\ SetsInPool'
    BY <1>0, <2>1, <2>6 DEF PoolInv, NoTwins, SetsInPool, Taken
  <2>10. Kinds'
    BY <1>0, <2>1, <2>7 DEF PoolInv, Kinds
  <2> QED BY <2>3, <2>8, <2>9, <2>10 DEF PoolInv
<1>3. CASE seen[t] # Places /\ pool_pos # seen[t]
  <2>1. seen' = [seen EXCEPT ![t] = pool_pos] /\ UNCHANGED <<pool_pos, at, allocated, returning>>
    BY <1>3 DEF ReturnSwap, Advance
  <2>2. seen'[Main] = seen[Main] /\ \A u \in Destroyer : u # t => seen'[u] = seen[u]
    BY <1>0, <2>1
  <2>3. PoolTypeOK'
    BY <1>0, <2>1 DEF PoolInv, PoolTypeOK
  <2>4. Stored' = Stored
    BY <1>0, <2>1, <2>2 DEF Stored
  <2>5. \A s : (InPlace(s)' <=> InPlace(s)) /\ (InHand(s)' <=> InHand(s)) /\ (InGrasp(s)' <=> InGrasp(s))
    BY <1>0, <2>1, <2>2, <2>4 DEF InPlace, InHand, InGrasp, Taken
  <2>6. PlacesInv' /\ NoTwins' /\ SetsInPool'
    BY <1>0, <2>1, <2>2, <2>4 DEF PoolInv, PlacesInv, NoTwins, SetsInPool, Taken
  <2>7. Kinds'
    BY <1>0, <2>1, <2>5 DEF PoolInv, Kinds
  <2> QED BY <2>3, <2>6, <2>7 DEF PoolInv
<1> QED BY <1>1, <1>2, <1>3

\* The store: what was in the hand is in the place.
LEMMA ReturnStoreHolds ==
    ASSUME PoolInv, ~ raced, NEW t \in Destroyer, ReturnStore(t)
    PROVE  PoolInv'
<1> DEFINE x == returning[t]
           q == seen[t]
<1>0. /\ Main \notin Destroyer /\ Null \notin HashSet /\ Places \in Nat /\ pool_pos \in 0..Places
      /\ seen \in [Destroyer \cup {Main} -> 0..Places] /\ seen[Main] \in 0..Places
      /\ returning \in [Destroyer -> HashSet \cup {Null}]
      /\ at \in [Destroyer -> {"load", "swap", "store"}]
      /\ hashset_pool \in [0..Places - 1 -> HashSet \cup {Null}]
      /\ Stored \subseteq 0..Places - 1
  BY Typed DEF PoolInv
<1>1. /\ at[t] = "store" /\ hashset_pool' = [hashset_pool EXCEPT ![q] = x]
      /\ returning' = [returning EXCEPT ![t] = Null] /\ at' = [at EXCEPT ![t] = "load"]
      /\ seen' = [seen EXCEPT ![t] = 0]
      /\ raced' = (raced \/ (creating = "read" /\ q = seen[Main] - 1))
      /\ UNCHANGED <<pool_pos, creating, inUse, doomed, allocated>>
  BY DEF ReturnStore, Done
<1>2. q \in 0..pool_pos - 1 /\ q \in 0..Places - 1 /\ x \in HashSet /\ x # Null
  <2>1. q < pool_pos /\ x # Null
    BY <1>1 DEF PoolInv, PlacesInv
  <2>2. q \in 0..Places
    BY <1>0
  <2> QED BY <1>0, <2>1, <2>2
<1>3. /\ returning'[t] = Null /\ at'[t] = "load" /\ seen'[Main] = seen[Main]
      /\ \A u \in Destroyer : u # t => returning'[u] = returning[u] /\ at'[u] = at[u]
                                       /\ seen'[u] = seen[u]
  BY <1>0, <1>1
<1>4. hashset_pool'[q] = x /\ \A p \in 0..Places - 1 : p # q => hashset_pool'[p] = hashset_pool[p]
  BY <1>0, <1>1, <1>2
<1>5. q \notin Stored
  BY <1>1 DEF Stored
<1>6. \A u \in Destroyer : u # t /\ at[u] = "store" => seen[u] # q
  BY <1>1 DEF PoolInv, PlacesInv
<1>7. Stored' = Stored \cup {q}
  BY <1>1, <1>2, <1>3, <1>6 DEF Stored
<1>8. PoolTypeOK'
  <2>1. raced' \in BOOLEAN
    BY <1>1
  <2>2. hashset_pool' \in [0..Places - 1 -> HashSet \cup {Null}]
    BY <1>0, <1>1, <1>2
  <2> QED BY <1>0, <1>1, <2>1, <2>2 DEF PoolInv, PoolTypeOK
<1> SUFFICES ASSUME ~ raced' PROVE Held'
  BY <1>8 DEF PoolInv, Held
<1>9. creating = "read" => Taken # q /\ Taken' = Taken /\ Taken \in 0..Places - 1
  <2>1. creating = "read" => seen[Main] > 0
    BY DEF PoolInv, PlacesInv
  <2>2. ~ (creating = "read" /\ q = seen[Main] - 1)
    BY <1>1, Zenon
  <2> QED BY <1>0, <1>3, <2>1, <2>2 DEF Taken
<1> HIDE DEF x, q
<1>10. \A s \in HashSet : /\ InPlace(s)' <=> InPlace(s) \/ s = x
                          /\ InHand(s)' <=> InHand(s) /\ s # x
                          /\ InGrasp(s)' <=> InGrasp(s)
  <2>1. \A s \in HashSet : InPlace(s)' <=> InPlace(s) \/ s = x
    BY <1>0, <1>4, <1>5, <1>7 DEF InPlace
  <2>2. \A s \in HashSet : InHand(s)' <=> InHand(s) /\ s # x
    BY <1>0, <1>3 DEF InHand, PoolInv, NoTwins, x
  <2>3. \A s : InGrasp(s)' <=> InGrasp(s)
    BY <1>1, <1>4, <1>9 DEF InGrasp
  <2> QED BY <2>1, <2>2, <2>3
<1>11. InHand(x)
  BY DEF InHand, x
<1>12. PlacesInv'
  <2>1. creating' = "read" => seen'[Main] > 0 /\ Taken' \notin Stored'
    BY <1>1, <1>3, <1>7, <1>9 DEF PoolInv, PlacesInv
  <2> QED BY <1>0, <1>1, <1>3, <2>1 DEF PoolInv, PlacesInv
<1>13. NoTwins'
  <2>1. \A p \in Stored : hashset_pool[p] # x
    BY <1>2, <1>11 DEF PoolInv, Kinds, InPlace
  <2> QED BY <1>0, <1>3, <1>4, <1>5, <1>7, <2>1 DEF PoolInv, NoTwins
<1>14. SetsInPool'
  BY <1>0, <1>1, <1>2, <1>4, <1>5, <1>7, <1>9 DEF PoolInv, SetsInPool
<1>15. Kinds'
  BY <1>1, <1>2, <1>10, <1>11 DEF PoolInv, Kinds
<1> QED BY <1>12, <1>13, <1>14, <1>15 DEF Held

-----------------------------------------------------------------------------
(* The theorem.                                                            *)

LEMMA InitPool == PoolInit => PoolInv
<1> SUFFICES ASSUME PoolInit PROVE PoolInv
  OBVIOUS
<1>1. PoolTypeOK
  <2>1. raced \in BOOLEAN
    BY Zenon DEF PoolInit
  <2>2. /\ hashset_pool = [p \in 0..Places - 1 |-> Null] /\ pool_pos = 0 /\ creating = "no"
        /\ seen = [t \in Destroyer \cup {Main} |-> 0] /\ inUse = {} /\ doomed = {} /\ allocated = {}
        /\ returning = [t \in Destroyer |-> Null] /\ at = [t \in Destroyer |-> "load"]
    BY DEF PoolInit
  <2>3. Places \in Nat
    BY PoolAssumption
  <2> QED BY <2>1, <2>2, <2>3 DEF PoolTypeOK
<1>2. Stored = {}
  BY DEF PoolInit, Stored
<1>3. \A s \in HashSet : ~ InPlace(s) /\ ~ InHand(s) /\ ~ InGrasp(s)
  BY <1>2, PoolAssumption DEF PoolInit, InPlace, InHand, InGrasp
<1>4. PlacesInv /\ NoTwins /\ SetsInPool
  BY <1>2 DEF PoolInit, PlacesInv, NoTwins, SetsInPool
<1>5. Kinds
  BY <1>3 DEF PoolInit, Kinds
<1> QED BY <1>1, <1>4, <1>5 DEF PoolInv

LEMMA NextPool == PoolInv /\ [PoolNext]_poolVars => PoolInv'
<1> SUFFICES ASSUME PoolInv, [PoolNext]_poolVars PROVE PoolInv'
  OBVIOUS
<1>1. CASE UNCHANGED poolVars
  <2> USE <1>1 DEF poolVars
  <2>1. PoolTypeOK' <=> PoolTypeOK
    BY DEF PoolTypeOK
  <2>2. Stored' = Stored /\ Taken' = Taken
    BY DEF Stored, Taken
  <2>3. (PlacesInv' <=> PlacesInv) /\ (NoTwins' <=> NoTwins) /\ (SetsInPool' <=> SetsInPool)
    BY <2>2 DEF PlacesInv, NoTwins, SetsInPool
  <2>4. Kinds' <=> Kinds
    BY <2>2 DEF Kinds, InPlace, InHand, InGrasp
  <2>5. raced' <=> raced
    OBVIOUS
  <2> QED BY <2>1, <2>3, <2>4, <2>5 DEF PoolInv
<1>2. CASE PoolNext
  BY <1>2, CreateHolds, GrabLoadHolds, GrabSwapHolds, GrabReadHolds, GiveUpHolds,
     DestroyHolds, ReturnSwapHolds, ReturnStoreHolds
  DEF PoolNext
<1> QED BY <1>1, <1>2

LEMMA SpecPool == PoolSpec => []PoolInv
<1> QED BY InitPool, NextPool, PTL DEF PoolSpec

\* What holds of at most one thing is counted as such.
LEMMA CountOne ==
    ASSUME NEW S, NEW P, P \subseteq S, \A x, y \in P : x = y
    PROVE  Cardinality(P) = IF P = {} THEN 0 ELSE 1
<1>1. CASE P = {}
  BY <1>1, FS_EmptySet
<1>2. CASE P # {}
  <2>1. PICK x \in P : TRUE
    BY <1>2
  <2>2. P = {x}
    BY <2>1
  <2>3. Cardinality({x}) = 1
    BY FS_Singleton
  <2> QED BY <1>2, <2>2, <2>3
<1> QED BY <1>1, <1>2

\* As long as the main thread and a destroyer do not meet in one place of the
\* pool, no set is shared between two searches, lost, or used after it was
\* freed, however many threads return sets at once.
THEOREM OneHolderPerSet == PoolSpec => []SetsHaveOneHolder
<1>1. PoolInv => SetsHaveOneHolder
  <2> SUFFICES ASSUME PoolInv, ~ raced
               PROVE  /\ inUse \cup doomed \subseteq allocated
                      /\ \A s \in allocated :
                            Cardinality({p \in Stored : hashset_pool[p] = s})
                            + Cardinality({t \in Destroyer : returning[t] = s})
                            + (IF s \in inUse THEN 1 ELSE 0) + (IF s \in doomed THEN 1 ELSE 0)
                            + (IF creating = "read" /\ hashset_pool[seen[Main] - 1] = s THEN 1 ELSE 0) = 1
    BY DEF SetsHaveOneHolder
  <2>1. inUse \subseteq HashSet /\ doomed \subseteq HashSet /\ allocated \subseteq HashSet
        /\ Null \notin HashSet
    BY PoolAssumption DEF PoolInv, PoolTypeOK
  <2>2. inUse \cup doomed \subseteq allocated
    BY <2>1 DEF PoolInv, Kinds
  <2>3. ASSUME NEW s \in allocated
        PROVE  Cardinality({p \in Stored : hashset_pool[p] = s})
               + Cardinality({t \in Destroyer : returning[t] = s})
               + (IF s \in inUse THEN 1 ELSE 0) + (IF s \in doomed THEN 1 ELSE 0)
               + (IF creating = "read" /\ hashset_pool[seen[Main] - 1] = s THEN 1 ELSE 0) = 1
    <3> DEFINE P == {p \in Stored : hashset_pool[p] = s}
               T == {t \in Destroyer : returning[t] = s}
    <3>1. \A x, y \in P : x = y
      BY DEF PoolInv, NoTwins
    <3>2. \A x, y \in T : x = y
      BY <2>1 DEF PoolInv, NoTwins
    <3>3. Cardinality(P) = IF InPlace(s) THEN 1 ELSE 0
      <4>1. Cardinality(P) = IF P = {} THEN 0 ELSE 1
        BY <3>1, CountOne
      <4> QED BY <4>1 DEF InPlace
    <3>4. Cardinality(T) = IF InHand(s) THEN 1 ELSE 0
      <4>1. Cardinality(T) = IF T = {} THEN 0 ELSE 1
        BY <3>2, CountOne
      <4> QED BY <4>1 DEF InHand
    <3>5. InGrasp(s) <=> creating = "read" /\ hashset_pool[seen[Main] - 1] = s
      BY DEF InGrasp, Taken
    <3>6. s \in HashSet
      BY <2>1
    <3> HIDE DEF P, T
    <3>7. Cardinality(P) + Cardinality(T)
          + (IF s \in inUse THEN 1 ELSE 0) + (IF s \in doomed THEN 1 ELSE 0)
          + (IF InGrasp(s) THEN 1 ELSE 0) = 1
      BY <3>3, <3>4, <3>6 DEF PoolInv, Kinds
    <3> QED BY <3>5, <3>7 DEF P, T
  <2> QED BY <2>2, <2>3
<1> QED BY <1>1, SpecPool, PTL

-----------------------------------------------------------------------------
(* The three parts together.                                               *)

\* What is proved of each part of the shared memory, the sheets in
\* ResultSheetsProofs, holds of the specification that the runs check.
THEOREM MemoryIsItsParts == MemorySpec => Spec /\ SheetsSpec /\ PoolSpec
<1> DEFINE all == <<part, funcVars, resultVars, poolVars>>
<1>1. MemoryInit => Init /\ SheetsInit /\ PoolInit
  BY DEF MemoryInit
<1>2. [MemoryNext]_all => [Next]_vars
  <2>1. UNCHANGED all => UNCHANGED vars
    BY Zenon DEF funcVars
  <2> QED BY <2>1, Zenon DEF MemoryNext, funcVars
<1>3. [MemoryNext]_all => [SheetsNext]_resultVars
  BY Zenon DEF MemoryNext
<1>4. [MemoryNext]_all => [PoolNext]_poolVars
  BY Zenon DEF MemoryNext
<1> QED BY <1>1, <1>2, <1>3, <1>4, PTL DEF MemorySpec, Spec, SheetsSpec, PoolSpec
=============================================================================
