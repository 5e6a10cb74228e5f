----------------------------- MODULE FuncPairs -----------------------------
(***************************************************************************)
(* The table g_func_pairs of result-container.c, which gives every pair of *)
(* a match factory and a destroy function a slot number of a few bits.     *)
(* Shards of all searches add to it at once, without a lock: a slot is     *)
(* claimed by a compare-and-swap from zero and is never cleared.  A pair   *)
(* that finds no slot ends the process.                                    *)
(*                                                                         *)
(* A pair is a model value, Free the zero of an unused slot.  A 128-bit    *)
(* load or exchange of a slot is one step.                                 *)
(***************************************************************************)
EXTENDS Integers, FiniteSets

CONSTANTS
    Thread,  \* the threads that run shards
    Pair,    \* the pairs that plugins use
    Slots,   \* MAX_FUNC_SLOTS
    Free     \* an unused slot

ASSUME FuncPairsAssumption ==
    /\ Slots \in Nat \ {0}
    /\ IsFiniteSet(Pair)
    /\ Free \notin Pair

Slot == 0..Slots - 1

VARIABLES
    g_func_pairs,
    pc,      \* where each thread is in find_or_add_pair
    wanted,  \* new_pair
    i,       \* the loop index
    current, \* the slot as the thread last saw it
    cached,  \* rc->match_mre_idx of the thread's container
    exited,  \* some thread has called exit(127)
    asked    \* the pairs ever asked for (no part of the code)

vars == <<g_func_pairs, pc, wanted, i, current, cached, exited, asked>>

PC == {"idle",   \* between calls
       "fast",   \* at the look at the cached slot
       "load", "swap", "compare",
       "answered"}

TypeOK ==
    /\ g_func_pairs \in [Slot -> Pair \cup {Free}]
    /\ pc \in [Thread -> PC]
    /\ wanted \in [Thread -> Pair]
    /\ i \in [Thread -> 0..Slots]
    /\ current \in [Thread -> Pair \cup {Free}]
    /\ cached \in [Thread -> Slot]
    /\ exited \in BOOLEAN
    /\ asked \subseteq Pair

Init ==
    /\ g_func_pairs = [s \in Slot |-> Free]
    /\ pc = [t \in Thread |-> "idle"]
    /\ wanted \in [Thread -> Pair]
    /\ i = [t \in Thread |-> 0]
    /\ current = [t \in Thread |-> Free]
    /\ cached = [t \in Thread |-> 0]
    /\ exited = FALSE
    /\ asked = {}

Goto(t, label) == pc' = [pc EXCEPT ![t] = label]

\* hashset_create_handle: the next shard of the thread has a fresh container.
NewContainer(t) ==
    /\ pc[t] = "idle"
    /\ cached' = [cached EXCEPT ![t] = 0]
    /\ UNCHANGED <<g_func_pairs, pc, wanted, i, current, exited, asked>>

Call(t, p) ==
    /\ pc[t] = "idle"
    /\ Goto(t, "fast")
    /\ wanted' = [wanted EXCEPT ![t] = p]
    /\ asked' = asked \cup {p}
    /\ UNCHANGED <<g_func_pairs, i, current, cached, exited>>

\* "Fast path: check cached slot"
Fast(t) ==
    /\ pc[t] = "fast"
    /\ IF g_func_pairs[cached[t]] = wanted[t]
       THEN Goto(t, "answered") /\ UNCHANGED i
       ELSE Goto(t, "load") /\ i' = [i EXCEPT ![t] = 0]
    /\ UNCHANGED <<g_func_pairs, wanted, current, cached, exited, asked>>

\* Faulty variant: a full table is answered with -1.
Load_MinusOne(t) ==
    /\ pc[t] = "load"
    /\ IF i[t] = Slots
       THEN /\ cached' = [cached EXCEPT ![t] = -1]
            /\ Goto(t, "idle")
            /\ UNCHANGED current
       ELSE /\ current' = [current EXCEPT ![t] = g_func_pairs[i[t]]]
            /\ Goto(t, IF g_func_pairs[i[t]] = Free THEN "swap" ELSE "compare")
            /\ UNCHANGED cached
    /\ UNCHANGED <<g_func_pairs, wanted, i, exited, asked>>

\* The head of the loop: the end of the table, or the load of the next slot.
Load(t) ==
    /\ pc[t] = "load"
    /\ IF i[t] = Slots
       THEN exited' = TRUE /\ UNCHANGED <<pc, current>>
       ELSE /\ current' = [current EXCEPT ![t] = g_func_pairs[i[t]]]
            /\ Goto(t, IF g_func_pairs[i[t]] = Free THEN "swap" ELSE "compare")
            /\ UNCHANGED exited
    /\ UNCHANGED <<g_func_pairs, wanted, i, cached, asked>>

Answer(t) ==
    /\ Goto(t, "answered")
    /\ cached' = [cached EXCEPT ![t] = i[t]]

\* Faulty variant: the slot was free a moment ago and is taken without a look.
Swap_Store(t) ==
    /\ pc[t] = "swap"
    /\ g_func_pairs' = [g_func_pairs EXCEPT ![i[t]] = wanted[t]]
    /\ Answer(t)
    /\ UNCHANGED <<wanted, i, current, exited, asked>>

\* Faulty variant: a failed exchange leaves current at zero, as a load before
\* the exchange would, so the loop goes on to the next slot.
Swap_Forgets(t) ==
    /\ pc[t] = "swap"
    /\ IF g_func_pairs[i[t]] = Free
       THEN g_func_pairs' = [g_func_pairs EXCEPT ![i[t]] = wanted[t]] /\ Answer(t)
       ELSE Goto(t, "compare") /\ UNCHANGED <<g_func_pairs, cached>>
    /\ UNCHANGED <<wanted, i, current, exited, asked>>

\* atomic128_cas: claims the slot, or learns who did.
Swap(t) ==
    /\ pc[t] = "swap"
    /\ IF g_func_pairs[i[t]] = Free
       THEN /\ g_func_pairs' = [g_func_pairs EXCEPT ![i[t]] = wanted[t]]
            /\ Answer(t)
            /\ UNCHANGED current
       ELSE /\ current' = [current EXCEPT ![t] = g_func_pairs[i[t]]]
            /\ Goto(t, "compare")
            /\ UNCHANGED <<g_func_pairs, cached>>
    /\ UNCHANGED <<wanted, i, exited, asked>>

Compare(t) ==
    /\ pc[t] = "compare"
    /\ IF current[t] = wanted[t]
       THEN Answer(t) /\ UNCHANGED i
       ELSE /\ Goto(t, "load")
            /\ i' = [i EXCEPT ![t] = @ + 1]
            /\ UNCHANGED cached
    /\ UNCHANGED <<g_func_pairs, wanted, current, exited, asked>>

\* pack_match_data has packed the index that was returned, cached[t].
Return(t) ==
    /\ pc[t] = "answered"
    /\ Goto(t, "idle")
    /\ UNCHANGED <<g_func_pairs, wanted, i, current, cached, exited, asked>>

Next ==
    /\ ~ exited
    /\ \E t \in Thread :
          \/ NewContainer(t) \/ Fast(t) \/ Load(t) \/ Swap(t) \/ Compare(t) \/ Return(t)
          \/ \E p \in Pair : Call(t, p)

Spec == Init /\ [][Next]_vars

-----------------------------------------------------------------------------
(* Properties.                                                             *)

\* Threads that add the same pair at the same moment share one slot.
NoDuplicates ==
    \A r, s \in Slot :
        r # s /\ g_func_pairs[r] # Free => g_func_pairs[r] # g_func_pairs[s]

\* The number that is packed into a match leads back to the functions the
\* match was added with: get_func_pair reads it much later, so the slot must
\* not be another thread's by then.
AnswersWanted ==
    \A t \in Thread : pc[t] = "answered" => g_func_pairs[cached[t]] = wanted[t]

SlotsAreFinal ==
    [][\A s \in Slot : g_func_pairs[s] # Free => g_func_pairs'[s] = g_func_pairs[s]]_vars

\* exit(127) is reached only when plugins really asked for more pairs than
\* there are slots, however many threads raced for them.
ExitMeansTooMany == exited => Cardinality(asked) > Slots

\* What a thread in the loop knows of the slots behind it.
Passed ==
    \A t \in Thread : pc[t] \in {"load", "swap", "compare"} =>
        \A s \in 0..i[t] - 1 : g_func_pairs[s] \notin {Free, wanted[t]}

\* The used slots are the first ones.
Dense == \A r, s \in Slot : r < s /\ g_func_pairs[s] # Free => g_func_pairs[r] # Free

InLoop ==
    \A t \in Thread :
        /\ pc[t] \in {"swap", "compare"} => i[t] \in Slot
        /\ pc[t] = "compare" => current[t] # Free /\ current[t] = g_func_pairs[i[t]]

\* Every pair in the table, or on its way into it, was asked for.
OnlyAsked ==
    /\ \A s \in Slot : g_func_pairs[s] \in asked \cup {Free}
    /\ \A t \in Thread : pc[t] # "idle" => wanted[t] \in asked

\* Whoever called exit(127) stood before a table full of other pairs.
Full == exited => \E p \in asked : \A s \in Slot : g_func_pairs[s] \notin {Free, p}

FuncPairsInv ==
    /\ TypeOK
    /\ NoDuplicates
    /\ AnswersWanted
    /\ Passed
    /\ Dense
    /\ InLoop
    /\ OnlyAsked
    /\ Full

=============================================================================
