------------------------------ MODULE OnceInit ------------------------------
(***************************************************************************)
(* One-time initialisation: no-thread-init.c, which replaces GLib's        *)
(* g_once_init_enter and g_once_init_leave, as the *_get_type functions     *)
(* call them.  A step is one access to the slot or one system call.         *)
(***************************************************************************)
EXTENDS Naturals, FiniteSets

CONSTANT Caller  \* threads that ask for the type

EMPTY == 0
IN_PROGRESS == 1
Type == 2        \* the type, and its id in the slot

VARIABLES
    slot,
    place,   \* where each thread is
    asleep,  \* threads in FUTEX_WAIT
    answer,  \* what get_type has returned
    made,    \* how often the type has been registered
    early    \* threads that passed the first look during the initialisation

vars == <<slot, place, asleep, answer, made, early>>

TypeOK ==
    /\ slot \in {EMPTY, IN_PROGRESS, Type}
    /\ place \in [Caller -> {"out", "look", "exchange", "make", "leave", "wake",
                             "again", "wait", "return", "done"}]
    /\ asleep \subseteq Caller /\ early \subseteq Caller
    /\ answer \in [Caller -> {EMPTY, IN_PROGRESS, Type}]
    /\ made \in Nat

Init ==
    /\ slot = EMPTY
    /\ place = [t \in Caller |-> "out"]
    /\ asleep = {} /\ made = 0 /\ early = {}
    /\ answer = [t \in Caller |-> EMPTY]

Goto(t, label) == place' = [place EXCEPT ![t] = label]

Call(t) ==
    /\ place[t] = "out"
    /\ Goto(t, "look")
    /\ UNCHANGED <<slot, asleep, answer, made, early>>

\* The first load: anything but EMPTY is taken for initialised.
Look(t) ==
    /\ place[t] = "look"
    /\ Goto(t, IF slot = EMPTY THEN "exchange" ELSE "return")
    /\ early' = IF slot = IN_PROGRESS THEN early \cup {t} ELSE early
    /\ UNCHANGED <<slot, asleep, answer, made>>

\* Faulty variant: the slot is stored, not exchanged.
Exchange_Store(t) ==
    /\ place[t] = "exchange"
    /\ slot' = IN_PROGRESS /\ Goto(t, "make")
    /\ UNCHANGED <<asleep, answer, made, early>>

Exchange(t) ==
    /\ place[t] = "exchange"
    /\ IF slot = EMPTY THEN slot' = IN_PROGRESS /\ Goto(t, "make")
       ELSE Goto(t, "again") /\ UNCHANGED slot
    /\ UNCHANGED <<asleep, answer, made, early>>

\* The loop of the losers, and the futex call, which looks again.
Again(t) ==
    /\ place[t] = "again"
    /\ Goto(t, IF slot = IN_PROGRESS THEN "wait" ELSE "return")
    /\ UNCHANGED <<slot, asleep, answer, made, early>>

Wait(t) ==
    /\ place[t] = "wait" /\ t \notin asleep
    /\ IF slot = IN_PROGRESS THEN asleep' = asleep \cup {t} /\ UNCHANGED place
       ELSE Goto(t, "again") /\ UNCHANGED asleep
    /\ UNCHANGED <<slot, answer, made, early>>

\* g_type_register_static, between enter and leave.
Make(t) ==
    /\ place[t] = "make"
    /\ made' = made + 1 /\ Goto(t, "leave")
    /\ UNCHANGED <<slot, asleep, answer, early>>

\* g_once_init_leave: store, then wake.
Leave(t) ==
    /\ place[t] = "leave"
    /\ slot' = Type /\ Goto(t, "wake")
    /\ UNCHANGED <<asleep, answer, made, early>>

\* Faulty variant: one waiter is woken.
Wake_One(t) ==
    /\ place[t] = "wake"
    /\ \E w \in asleep \cup {t} :
          place' = [place EXCEPT ![t] = "return", ![w] = IF w = t THEN "return" ELSE "again"]
          /\ asleep' = asleep \ {w}
    /\ UNCHANGED <<slot, answer, made, early>>

Wake(t) ==
    /\ place[t] = "wake"
    /\ place' = [w \in Caller |-> IF w = t THEN "return"
                                 ELSE IF w \in asleep THEN "again" ELSE place[w]]
    /\ asleep' = {}
    /\ UNCHANGED <<slot, answer, made, early>>

\* get_type reads the slot once more.
Return(t) ==
    /\ place[t] = "return"
    /\ answer' = [answer EXCEPT ![t] = slot] /\ Goto(t, "done")
    /\ UNCHANGED <<slot, asleep, made, early>>

Step(t) ==
    \/ Look(t) \/ Exchange(t) \/ Again(t) \/ Wait(t)
    \/ Make(t) \/ Leave(t) \/ Wake(t) \/ Return(t)

Next == \E t \in Caller : Call(t) \/ Step(t)

Spec == Init /\ [][Next]_vars

Fairness == \A t \in Caller : WF_vars(Step(t))

-----------------------------------------------------------------------------
(* Properties.                                                             *)

\* The type is registered once, and whoever lost the exchange gets it: only a
\* thread whose first look fell into the initialisation can return IN_PROGRESS
\* for a type, because it did not wait.
OneInitialisation ==
    /\ made <= 1
    /\ \A t \in Caller :
          place[t] = "done" => answer[t] = Type \/ (t \in early /\ answer[t] = IN_PROGRESS)

\* No wake-up is lost: whoever asks for the type goes on.
NobodyStaysAsleep == \A t \in Caller : place[t] = "look" ~> place[t] = "done"

=============================================================================
