---------------------------- MODULE LaunchProofs ----------------------------
(***************************************************************************)
(* The one-time initialisation registers a type once, one process started  *)
(* alone has its request fulfilled, and a program launched alone runs in   *)
(* its scope, for any number of threads, processes and launches.  For any  *)
(* number of jobs the flag, the pointer, the timers and the classes of     *)
(* controller.c agree, and a frozen window has a job or a callback on its  *)
(* way that thaws it.                                                      *)
(***************************************************************************)
EXTENDS MCLaunch, Integers, SequenceTheorems, TLAPS

-----------------------------------------------------------------------------
(* One-time initialisation.                                                *)

\* A thread that has won the exchange and not yet stored the type.
Won(t) == place[t] \in {"make", "leave"}

\* The slot says how far the initialisation is; there is one winner as long as
\* it is in progress.
WinnerInv ==
    /\ slot = EMPTY => made = 0 /\ \A t \in Caller : place[t] \in {"out", "look", "exchange"}
    /\ slot = Type => made = 1
    /\ made \in {0, 1}
    /\ \A t \in Caller : Won(t) => /\ slot = IN_PROGRESS
                                   /\ made = IF place[t] = "make" THEN 0 ELSE 1
    /\ \A t, u \in Caller : Won(t) /\ Won(u) => t = u

\* Who is about to read the slot finds the type there, unless its first look
\* fell into the initialisation.
ReadersInv ==
    \A t \in Caller :
        /\ place[t] = "wake" => slot = Type
        /\ place[t] = "return" => slot = Type \/ (t \in early /\ slot = IN_PROGRESS)
        /\ place[t] = "done" => answer[t] = Type \/ (t \in early /\ answer[t] = IN_PROGRESS)

OnceInv == TypeOK /\ WinnerInv /\ ReadersInv

LEMMA Values == EMPTY = 0 /\ IN_PROGRESS = 1 /\ Type = 2
BY DEF EMPTY, IN_PROGRESS, Type

LEMMA InitInv == Init => OnceInv
BY Values DEF Init, OnceInv, TypeOK, WinnerInv, ReadersInv, Won

LEMMA NextInv == OnceInv /\ [Next]_vars => OnceInv'
<1> SUFFICES ASSUME OnceInv, [Next]_vars PROVE OnceInv'
  OBVIOUS
<1> USE Values
<1>1. CASE UNCHANGED vars
  BY <1>1 DEF vars, OnceInv, TypeOK, WinnerInv, ReadersInv, Won
<1>2. ASSUME NEW t \in Caller, Call(t) PROVE OnceInv'
  BY <1>2 DEF Call, Goto, OnceInv, TypeOK, WinnerInv, ReadersInv, Won
<1>3. ASSUME NEW t \in Caller, Look(t) PROVE OnceInv'
  BY <1>3 DEF Look, Goto, OnceInv, TypeOK, WinnerInv, ReadersInv, Won
<1>4. ASSUME NEW t \in Caller, Exchange(t) PROVE OnceInv'
  BY <1>4 DEF Exchange, Goto, OnceInv, TypeOK, WinnerInv, ReadersInv, Won
<1>5. ASSUME NEW t \in Caller, Again(t) PROVE OnceInv'
  BY <1>5 DEF Again, Goto, OnceInv, TypeOK, WinnerInv, ReadersInv, Won
<1>6. ASSUME NEW t \in Caller, Wait(t) PROVE OnceInv'
  BY <1>6 DEF Wait, Goto, OnceInv, TypeOK, WinnerInv, ReadersInv, Won
<1>7. ASSUME NEW t \in Caller, Make(t) PROVE OnceInv'
  BY <1>7 DEF Make, Goto, OnceInv, TypeOK, WinnerInv, ReadersInv, Won
<1>8. ASSUME NEW t \in Caller, Leave(t) PROVE OnceInv'
  BY <1>8 DEF Leave, Goto, OnceInv, TypeOK, WinnerInv, ReadersInv, Won
<1>9. ASSUME NEW t \in Caller, Wake(t) PROVE OnceInv'
  BY <1>9 DEF Wake, OnceInv, TypeOK, WinnerInv, ReadersInv, Won
<1>10. ASSUME NEW t \in Caller, Return(t) PROVE OnceInv'
  BY <1>10 DEF Return, Goto, OnceInv, TypeOK, WinnerInv, ReadersInv, Won
<1> QED BY <1>1, <1>2, <1>3, <1>4, <1>5, <1>6, <1>7, <1>8, <1>9, <1>10 DEF Next, Step

LEMMA SpecInv == Spec => []OnceInv
<1> QED BY InitInv, NextInv, PTL DEF Spec

\* Whatever threads ask for a type at once, it is registered at most once, and
\* whoever lost the exchange gets it; IN_PROGRESS for a type reaches only a
\* thread whose first look fell into the initialisation.
THEOREM InitialisedOnce == Spec => []OneInitialisation
<1>1. OnceInv => OneInitialisation
  BY DEF OnceInv, WinnerInv, ReadersInv, OneInitialisation
<1> QED BY <1>1, SpecInv, PTL

-----------------------------------------------------------------------------
(* The start: the invariant.                                               *)

Fresh == ~ shown /\ clean /\ handled = None
Serves(q) == pc[q] \in {"init", "serving"}

\* What every process has done by the place where it is, and who is bound.
ProcsRight ==
    /\ \A q \in Start!AnyProc :
          /\ pc[q] # "over" => code[q] = 0
          /\ pc[q] \in {"fork", "init", "serving"} <=> bound = q
          /\ child[q] # "no" => pc[q] \in {"init", "serving", "over"}
    /\ ~ Start!Listening => backlog = <<>>
    /\ pc[Unit] \notin {"sync", "unit", "wait", "again"}
    /\ ~ service[Unit] /\ want[Unit] = "A"

Own(q) == [from |-> q, own |-> TRUE, what |-> want[q]]
Passed(p) == [from |-> p, own |-> FALSE, what |-> Start!Reversed(want[p])]

AsAsked(p) == want[p] = "O" \/ (shown <=> want[p] \notin {"H", "U"})

\* Both requests have been handled, in either order.
Settled(p) ==
    want[p] = "O" \/ (shown <=> IF handled = p /\ want[p] \in {"P", "U"}
                                THEN want[p] = "U" ELSE want[p] \notin {"H", "U"})

\* Only the request of the unit, or of process p, has been handled.
ToldByUnit == shown /\ clean /\ handled = Unit
ToldBy(p) == /\ handled = p
             /\ shown <=> want[p] \in {"H", "P"}
             /\ clean <=> want[p] # "P"

\* Process p serves, and its grandchild has its request to send, has sent it, or
\* the request has been handled.
OwnRequest(p) ==
    \/ child[p] # "no" /\ Fresh /\ backlog = <<>>
    \/ child[p] = "no" /\ Fresh /\ backlog = <<Own(p)>>
    \/ child[p] = "no" /\ AsAsked(p) /\ backlog = <<>>

Direct(p) ==
    /\ pc[Unit] = "idle"
    /\ pc[p] \in {"connect", "bind", "fork", "init", "serving", "over"}
    /\ pc[p] = "over" => code[p] = 1
    /\ pc[p] \in {"connect", "bind", "fork"} => Fresh
    /\ Serves(p) => OwnRequest(p)

Sent(p) == pc[p] = "over" /\ code[p] = 0

\* The unit serves, and the two requests are to be sent, wait, or have been
\* handled, in either order.
BothRequests(p) ==
    \/ /\ child[Unit] # "no"
       /\ \/ ~ Sent(p) /\ Fresh /\ backlog = <<>>
          \/ Sent(p) /\ Fresh /\ backlog = <<Passed(p)>>
          \/ Sent(p) /\ ToldBy(p) /\ backlog = <<>>
    \/ /\ child[Unit] = "no" /\ ~ Sent(p)
       /\ \/ Fresh /\ backlog = <<Own(Unit)>>
          \/ ToldByUnit /\ backlog = <<>>
    \/ /\ child[Unit] = "no" /\ Sent(p)
       /\ \/ Fresh /\ backlog = <<Own(Unit), Passed(p)>>
          \/ Fresh /\ backlog = <<Passed(p), Own(Unit)>>
          \/ ToldByUnit /\ backlog = <<Passed(p)>>
          \/ ToldBy(p) /\ backlog = <<Own(Unit)>>
          \/ backlog = <<>> /\ Settled(p)

ByUnit(p) ==
    /\ child[p] = "no"
    /\ pc[p] \in {"connect", "sync", "unit", "wait", "again", "over"}
    /\ pc[p] \in {"connect", "sync", "unit"} => pc[Unit] = "idle"
    /\ pc[Unit] \in {"idle", "connect", "bind", "fork", "init", "serving", "over"}
    /\ pc[Unit] \in {"idle", "connect", "bind", "fork"} => Fresh
    /\ ready \/ pc[p] = "again" \/ Sent(p) => pc[Unit] = "serving"
    /\ Serves(Unit) => BothRequests(p)

Only(p) == \A q \in Proc : q = p \/ pc[q] = "idle"

Begun(p) ==
    /\ pc[p] = "idle" => pc[Unit] = "idle" /\ Fresh /\ ~ ready
    /\ pc[p] # "idle" /\ service[p] => ByUnit(p)
    /\ pc[p] # "idle" /\ ~ service[p] => Direct(p)

StartInv ==
    /\ Start!TypeOK /\ ProcsRight
    /\ \A p \in Proc : Only(p) /\ ~ quits => Begun(p)

\* The parts of the state that are no flags, and the flags.
Places ==
    /\ pc \in [Start!AnyProc -> Start!PC]
    /\ child \in [Start!AnyProc -> {"no", "yes", "lost"}]
    /\ service \in [Start!AnyProc -> BOOLEAN]
    /\ want \in [Start!AnyProc -> Start!Request]
    /\ code \in [Start!AnyProc -> {0, 1}]
    /\ bound \in Start!AnyProc \cup {None}
    /\ sync \in Proc \cup {None}
    /\ sync # None => pc[sync] \in {"unit", "wait"}
    /\ handled \in Start!AnyProc \cup {None}

Flags == ready \in BOOLEAN /\ shown \in BOOLEAN /\ clean \in BOOLEAN /\ quits \in BOOLEAN

Requests == backlog \in Seq([from : Start!AnyProc, own : BOOLEAN, what : Start!Request])

LEMMA TypeParts == Start!TypeOK <=> Places /\ Flags /\ Requests
BY Zenon DEF Start!TypeOK, Places, Flags, Requests

LEMMA StartInit == Start!Init => StartInv
<1> SUFFICES ASSUME Start!Init PROVE StartInv
  OBVIOUS
<1>1. Places
  BY DEF Start!Init, Places, Start!PC, Start!Request
<1>2. Flags
  BY Zenon DEF Start!Init, Flags
<1>3. Requests
  BY DEF Start!Init, Requests
<1>4. ProcsRight
  BY StartAssumption DEF Start!Init, ProcsRight, Start!Listening, Start!AnyProc
<1>5. \A p \in Proc : Begun(p)
  BY DEF Start!Init, Begun, Fresh, Start!AnyProc
<1> QED BY <1>1, <1>2, <1>3, <1>4, <1>5, TypeParts DEF StartInv

-----------------------------------------------------------------------------
(* The start: types.                                                       *)

LEMMA StartFlags == ASSUME Flags, Start!Next PROVE Flags'
<1> USE DEF Flags
<1>1. ASSUME NEW p \in Start!AnyProc, Start!Start(p) PROVE Flags'
  BY <1>1, Zenon DEF Start!Start, Start!socketVars, Start!windowVars
<1>2. ASSUME NEW p \in Start!AnyProc, Start!Connect(p) PROVE Flags'
  BY <1>2, Zenon DEF Start!Connect, Start!Send, Start!windowVars
<1>3. ASSUME NEW p \in Start!AnyProc, Start!CreateSync(p) PROVE Flags'
  BY <1>3, Zenon DEF Start!CreateSync, Start!Exit, Start!windowVars
<1>4. ASSUME NEW p \in Start!AnyProc, Start!StartUnit(p) PROVE Flags'
  BY <1>4, Zenon DEF Start!StartUnit, Start!Exit, Start!socketVars, Start!windowVars
<1>5. ASSUME NEW p \in Start!AnyProc, Start!Ready(p) PROVE Flags'
  BY <1>5, Zenon DEF Start!Ready, Start!windowVars
<1>6. ASSUME NEW p \in Start!AnyProc, Start!Timeout(p) PROVE Flags'
  BY <1>6, Zenon DEF Start!Timeout, Start!Exit, Start!windowVars
<1>7. ASSUME NEW p \in Start!AnyProc, Start!ConnectAgain(p) PROVE Flags'
  BY <1>7, Zenon DEF Start!ConnectAgain, Start!Send, Start!Exit, Start!windowVars
<1>8. ASSUME NEW p \in Start!AnyProc, Start!Bind(p) PROVE Flags'
  BY <1>8, Zenon DEF Start!Bind, Start!Exit, Start!windowVars
<1>9. ASSUME NEW p \in Start!AnyProc, Start!Fork(p) PROVE Flags'
  BY <1>9, Zenon DEF Start!Fork, Start!Exit, Start!socketVars, Start!windowVars
<1>10. ASSUME NEW p \in Start!AnyProc, Start!ChildSend(p) PROVE Flags'
  BY <1>10, Zenon DEF Start!ChildSend, Start!Send, Start!windowVars
<1>11. ASSUME NEW p \in Start!AnyProc, Start!Initialize(p) PROVE Flags'
  BY <1>11, Zenon DEF Start!Initialize, Start!Exit, Start!signal_ready_if_needed, Start!windowVars
<1>12. ASSUME NEW p \in Start!AnyProc, Start!Accept(p) PROVE Flags'
  BY <1>12, Zenon DEF Start!Accept
<1>13. ASSUME NEW p \in Start!AnyProc, Start!Quit(p) PROVE Flags'
  BY <1>13, Zenon DEF Start!Quit, Start!Exit, Start!windowVars
<1> HIDE DEF Flags
<1> QED BY <1>1, <1>2, <1>3, <1>4, <1>5, <1>6, <1>7, <1>8, <1>9, <1>10, <1>11, <1>12, <1>13
        DEF Start!Next, Start!Step

LEMMA StartPlaces == ASSUME Places, Requests, ProcsRight, Start!Next PROVE Places'
<1> USE StartAssumption DEF Places, Start!PC, Start!Request, Start!AnyProc, Start!Goto
<1>1. ASSUME NEW p \in Start!AnyProc, Start!Start(p) PROVE Places'
  BY <1>1 DEF Start!Start, Start!socketVars, Start!windowVars
<1>2. ASSUME NEW p \in Start!AnyProc, Start!Connect(p) PROVE Places'
  BY <1>2 DEF Start!Connect, Start!Send, Start!windowVars
<1>3. ASSUME NEW p \in Start!AnyProc, Start!CreateSync(p) PROVE Places'
  <2>1. p \in Proc /\ pc[p] = "sync"
    BY <1>3 DEF Start!CreateSync, ProcsRight
  <2>2. CASE sync # None
    BY <1>3, <2>1, <2>2 DEF Start!CreateSync, Start!Exit, Start!windowVars
  <2>3. CASE sync = None
    BY <1>3, <2>1, <2>3 DEF Start!CreateSync, Start!Exit, Start!windowVars
  <2> QED BY <2>2, <2>3
<1>4. ASSUME NEW p \in Start!AnyProc, Start!StartUnit(p) PROVE Places'
  BY <1>4 DEF Start!StartUnit, Start!Exit, Start!socketVars, Start!windowVars
<1>5. ASSUME NEW p \in Start!AnyProc, Start!Ready(p) PROVE Places'
  BY <1>5 DEF Start!Ready, Start!windowVars
<1>6. ASSUME NEW p \in Start!AnyProc, Start!Timeout(p) PROVE Places'
  BY <1>6 DEF Start!Timeout, Start!Exit, Start!windowVars
<1>7. ASSUME NEW p \in Start!AnyProc, Start!ConnectAgain(p) PROVE Places'
  BY <1>7 DEF Start!ConnectAgain, Start!Send, Start!Exit, Start!windowVars
<1>8. ASSUME NEW p \in Start!AnyProc, Start!Bind(p) PROVE Places'
  BY <1>8 DEF Start!Bind, Start!Exit, Start!windowVars
<1>9. ASSUME NEW p \in Start!AnyProc, Start!Fork(p) PROVE Places'
  <2>1. pc[p] = "fork" /\ UNCHANGED <<service, want, handled>>
    BY <1>9 DEF Start!Fork, Start!windowVars
  <2>2. CASE /\ Start!Goto(p, "init")
             /\ \E forked \in {"yes", "lost"} : child' = [child EXCEPT ![p] = forked]
             /\ UNCHANGED <<code, Start!socketVars, quits>>
    BY <2>1, <2>2 DEF Start!socketVars
  <2>3. CASE Start!Exit(p, 1) /\ UNCHANGED child
    BY <2>1, <2>3 DEF Start!Exit
  <2> QED BY <1>9, <2>2, <2>3 DEF Start!Fork
<1>10. ASSUME NEW p \in Start!AnyProc, Start!ChildSend(p) PROVE Places'
  BY <1>10 DEF Start!ChildSend, Start!Send, Start!windowVars
<1>11. ASSUME NEW p \in Start!AnyProc, Start!Initialize(p) PROVE Places'
  BY <1>11 DEF Start!Initialize, Start!Exit, Start!signal_ready_if_needed, Start!windowVars
<1>12. ASSUME NEW p \in Start!AnyProc, Start!Accept(p) PROVE Places'
  <2> DEFINE M == [from : Start!AnyProc, own : BOOLEAN, what : Start!Request]
  <2>1. backlog # <<>> /\ backlog \in Seq(M)
    BY <1>12 DEF Start!Accept, Requests
  <2>2. Head(backlog) \in M
    <3> HIDE DEF M
    <3> QED BY <2>1
  <2>3. Head(backlog).from \in Start!AnyProc
    BY <2>2
  <2> QED BY <1>12, <2>3 DEF Start!Accept
<1>13. ASSUME NEW p \in Start!AnyProc, Start!Quit(p) PROVE Places'
  BY <1>13 DEF Start!Quit, Start!Exit, Start!windowVars
<1> HIDE DEF Places, Start!PC, Start!Request, Start!AnyProc, Start!Goto
<1> QED BY <1>1, <1>2, <1>3, <1>4, <1>5, <1>6, <1>7, <1>8, <1>9, <1>10, <1>11, <1>12, <1>13
        DEF Start!Next, Start!Step

LEMMA StartRequests == ASSUME Places, Requests, Start!Next PROVE Requests'
<1> DEFINE M == [from : Start!AnyProc, own : BOOLEAN, what : Start!Request]
<1>1. backlog \in Seq(M) /\ want \in [Start!AnyProc -> Start!Request]
  BY DEF Requests, Places
<1>2. ASSUME NEW p \in Start!AnyProc, NEW own \in BOOLEAN, NEW what \in Start!Request,
             Start!Send(p, own, what)
      PROVE  backlog' \in Seq(M)
  <2>1. [from |-> p, own |-> own, what |-> what] \in M
    OBVIOUS
  <2>2. backlog' = Append(backlog, [from |-> p, own |-> own, what |-> what])
    BY <1>2 DEF Start!Send
  <2> HIDE DEF M
  <2> QED BY <1>1, <2>1, <2>2
<1>3. ASSUME NEW p \in Start!AnyProc, NEW r, Start!Exit(p, r) PROVE backlog' \in Seq(M)
  <2>1. backlog' = <<>> \/ backlog' = backlog
    BY <1>3 DEF Start!Exit
  <2> HIDE DEF M
  <2> QED BY <1>1, <2>1, EmptySeq
<1>4. \A p \in Start!AnyProc : want[p] \in Start!Request /\ Start!Reversed(want[p]) \in Start!Request
  BY <1>1 DEF Start!Reversed, Start!Request
<1> SUFFICES ASSUME NEW p \in Start!AnyProc,
                    Start!Start(p) \/ Start!Step(p) \/ Start!ChildSend(p) \/ Start!Quit(p)
             PROVE  backlog' \in Seq(M)
  BY DEF Start!Next, Requests
<1>5. CASE UNCHANGED backlog
  BY <1>1, <1>5
<1>6. ASSUME Start!Accept(p) PROVE backlog' \in Seq(M)
  <2>1. backlog' = Tail(backlog) /\ backlog # <<>>
    BY <1>6 DEF Start!Accept
  <2> HIDE DEF M
  <2> QED BY <1>1, <2>1
<1> HIDE DEF M
<1>7. ASSUME Start!Start(p) PROVE UNCHANGED backlog
  BY <1>7 DEF Start!Start, Start!socketVars
<1>8. ASSUME Start!Ready(p) PROVE UNCHANGED backlog
  BY <1>8 DEF Start!Ready
<1>9. ASSUME Start!Connect(p) PROVE backlog' \in Seq(M)
  BY <1>2, <1>4, <1>5, <1>9 DEF Start!Connect
<1>10. ASSUME Start!CreateSync(p) PROVE backlog' \in Seq(M)
  BY <1>3, <1>5, <1>10 DEF Start!CreateSync
<1>11. ASSUME Start!StartUnit(p) PROVE backlog' \in Seq(M)
  BY <1>3, <1>5, <1>11 DEF Start!StartUnit, Start!socketVars
<1>12. ASSUME Start!Timeout(p) PROVE backlog' \in Seq(M)
  BY <1>3, <1>12 DEF Start!Timeout
<1>13. ASSUME Start!ConnectAgain(p) PROVE backlog' \in Seq(M)
  BY <1>2, <1>3, <1>4, <1>13 DEF Start!ConnectAgain
<1>14. ASSUME Start!Bind(p) PROVE backlog' \in Seq(M)
  BY <1>3, <1>5, <1>14 DEF Start!Bind
<1>15. ASSUME Start!Fork(p) PROVE backlog' \in Seq(M)
  BY <1>3, <1>5, <1>15 DEF Start!Fork, Start!socketVars
<1>16. ASSUME Start!ChildSend(p) PROVE backlog' \in Seq(M)
  BY <1>2, <1>4, <1>5, <1>16 DEF Start!ChildSend
<1>17. ASSUME Start!Initialize(p) PROVE backlog' \in Seq(M)
  BY <1>3, <1>5, <1>17 DEF Start!Initialize
<1>18. ASSUME Start!Quit(p) PROVE backlog' \in Seq(M)
  BY <1>3, <1>18 DEF Start!Quit
<1> QED BY <1>5, <1>6, <1>7, <1>8, <1>9, <1>10, <1>11, <1>12, <1>13, <1>14, <1>15, <1>16,
           <1>17, <1>18 DEF Start!Step

-----------------------------------------------------------------------------
(* The start: places.                                                      *)

LEMMA StartProcs == ASSUME Places, ProcsRight, Start!Next PROVE ProcsRight'
<1> USE StartAssumption DEF Places, ProcsRight, Start!Listening, Start!AnyProc, Start!Goto
<1>1. ASSUME NEW p \in Start!AnyProc, Start!Start(p) PROVE ProcsRight'
  BY <1>1 DEF Start!Start, Start!socketVars
<1>2. ASSUME NEW p \in Start!AnyProc, Start!Connect(p) PROVE ProcsRight'
  BY <1>2 DEF Start!Connect, Start!Send
<1>3. ASSUME NEW p \in Start!AnyProc, Start!CreateSync(p) PROVE ProcsRight'
  BY <1>3 DEF Start!CreateSync, Start!Exit
<1>4. ASSUME NEW p \in Start!AnyProc, Start!StartUnit(p) PROVE ProcsRight'
  BY <1>4 DEF Start!StartUnit, Start!Exit, Start!socketVars
<1>5. ASSUME NEW p \in Start!AnyProc, Start!Ready(p) PROVE ProcsRight'
  BY <1>5 DEF Start!Ready
<1>6. ASSUME NEW p \in Start!AnyProc, Start!Timeout(p) PROVE ProcsRight'
  BY <1>6 DEF Start!Timeout, Start!Exit
<1>7. ASSUME NEW p \in Start!AnyProc, Start!ConnectAgain(p) PROVE ProcsRight'
  BY <1>7 DEF Start!ConnectAgain, Start!Send, Start!Exit
<1>8. ASSUME NEW p \in Start!AnyProc, Start!Bind(p) PROVE ProcsRight'
  BY <1>8 DEF Start!Bind, Start!Exit
<1>9. ASSUME NEW p \in Start!AnyProc, Start!Fork(p) PROVE ProcsRight'
  BY <1>9 DEF Start!Fork, Start!Exit, Start!socketVars
<1>10. ASSUME NEW p \in Start!AnyProc, Start!ChildSend(p) PROVE ProcsRight'
  BY <1>10 DEF Start!ChildSend, Start!Send
<1>11. ASSUME NEW p \in Start!AnyProc, Start!Initialize(p) PROVE ProcsRight'
  BY <1>11 DEF Start!Initialize, Start!Exit
<1>12. ASSUME NEW p \in Start!AnyProc, Start!Accept(p) PROVE ProcsRight'
  BY <1>12 DEF Start!Accept
<1>13. ASSUME NEW p \in Start!AnyProc, Start!Quit(p) PROVE ProcsRight'
  BY <1>13 DEF Start!Quit, Start!Exit
<1> HIDE DEF Places, ProcsRight, Start!Listening, Start!AnyProc, Start!Goto
<1> QED BY <1>1, <1>2, <1>3, <1>4, <1>5, <1>6, <1>7, <1>8, <1>9, <1>10, <1>11, <1>12, <1>13
        DEF Start!Next, Start!Step

-----------------------------------------------------------------------------
(* The start: one process that is started alone.                           *)

LEMMA ShortSeqs ==
    \A x, y : /\ Append(<<>>, x) = <<x>> /\ Append(<<x>>, y) = <<x, y>>
              /\ Head(<<x>>) = x /\ Tail(<<x>>) = <<>>
              /\ Head(<<x, y>>) = x /\ Tail(<<x, y>>) = <<y>>
              /\ <<x>> # <<>> /\ <<x, y>> # <<>>
<1> TAKE x, y
<1>1. Append(<<>>, x) = <<x>>
  OBVIOUS
<1>2. Append(<<x>>, y) = <<x, y>>
  <2>1. <<x>> \in Seq({x, y}) /\ Len(<<x>>) = 1 /\ <<x>>[1] = x
    OBVIOUS
  <2>2. <<x, y>> \in Seq({x, y}) /\ Len(<<x, y>>) = 2 /\ <<x, y>>[1] = x /\ <<x, y>>[2] = y
    OBVIOUS
  <2>3. /\ Append(<<x>>, y) \in Seq({x, y}) /\ Len(Append(<<x>>, y)) = 2
        /\ Append(<<x>>, y)[1] = x /\ Append(<<x>>, y)[2] = y
    BY <2>1, AppendProperties
  <2>4. \A i \in 1 .. 2 : i = 1 \/ i = 2
    OBVIOUS
  <2> QED BY <2>2, <2>3, <2>4, SeqEqual
<1>3. Head(<<x>>) = x /\ Head(<<x, y>>) = x
  OBVIOUS
<1>4. Tail(<<x>>) = <<>>
  OBVIOUS
<1>5. Tail(<<x, y>>) = <<y>>
  OBVIOUS
<1>6. <<x>> # <<>> /\ <<x, y>> # <<>>
  OBVIOUS
<1> QED BY <1>1, <1>2, <1>3, <1>4, <1>5, <1>6

LEMMA WindowSame ==
    ASSUME NEW p, UNCHANGED <<shown, clean, handled, want>>
    PROVE  /\ Fresh' <=> Fresh
           /\ AsAsked(p)' <=> AsAsked(p)
           /\ Settled(p)' <=> Settled(p)
           /\ ToldByUnit' <=> ToldByUnit
           /\ ToldBy(p)' <=> ToldBy(p)
           /\ Own(p)' = Own(p) /\ Own(Unit)' = Own(Unit) /\ Passed(p)' = Passed(p)
BY DEF Fresh, AsAsked, Settled, ToldByUnit, ToldBy, Own, Passed

LEMMA StartNow ==
    ASSUME StartInv, NEW p \in Proc, Only(p), ~ quits
    PROVE  /\ p \in Start!AnyProc /\ Unit \in Start!AnyProc /\ p # Unit /\ p # None /\ Unit # None
           /\ Places /\ ProcsRight /\ Begun(p)
           /\ bound \in {p, Unit, None} /\ sync \in {p, None}
<1>1. p \in Start!AnyProc /\ Unit \in Start!AnyProc /\ p # Unit /\ p # None /\ Unit # None
  BY StartAssumption DEF Start!AnyProc
<1>2. Places /\ ProcsRight /\ Begun(p)
  BY TypeParts DEF StartInv
<1>3. bound \in {p, Unit, None}
  BY <1>2 DEF Places, ProcsRight, Only, Start!AnyProc
<1>4. sync \in {p, None}
  BY <1>2 DEF Places, Only
<1> QED BY <1>1, <1>2, <1>3, <1>4

LEMMA BegunConnect ==
    ASSUME StartInv, NEW p \in Proc, Only(p), ~ quits, NEW q \in {p, Unit}, Start!Connect(q)
    PROVE  Begun(p)'
<1> USE DEF Begun, Direct, ByUnit, OwnRequest, BothRequests, Sent, Serves, Start!Goto
<1>1. UNCHANGED <<shown, clean, handled, want, service>>
  BY DEF Start!Connect, Start!windowVars
<1>2. q = p \/ q = Unit
  OBVIOUS
<1> QED BY <1>1, <1>2, StartNow, WindowSame, ShortSeqs
        DEF Places, ProcsRight, Start!Listening, Start!Connect, Start!Send

LEMMA BegunCreateSync ==
    ASSUME StartInv, NEW p \in Proc, Only(p), ~ quits, NEW q \in {p, Unit}, Start!CreateSync(q)
    PROVE  Begun(p)'
<1> USE DEF Begun, Direct, ByUnit, OwnRequest, BothRequests, Sent, Serves, Start!Goto
<1>1. UNCHANGED <<shown, clean, handled, want, service>>
  BY DEF Start!CreateSync, Start!windowVars
<1>2. q = p \/ q = Unit
  OBVIOUS
<1> QED BY <1>1, <1>2, StartNow, WindowSame, ShortSeqs
        DEF Places, ProcsRight, Start!Listening, Start!CreateSync, Start!Exit

LEMMA BegunStartUnit ==
    ASSUME StartInv, NEW p \in Proc, Only(p), ~ quits, NEW q \in {p, Unit}, Start!StartUnit(q)
    PROVE  Begun(p)'
<1> USE DEF Begun, Direct, ByUnit, OwnRequest, BothRequests, Sent, Serves, Start!Goto
<1>1. UNCHANGED <<shown, clean, handled, want, service>>
  BY DEF Start!StartUnit, Start!windowVars
<1>2. q = p \/ q = Unit
  OBVIOUS
<1>3. q = p /\ pc[p] = "unit" /\ UNCHANGED child
  BY <1>2, StartNow DEF ProcsRight, Start!StartUnit
<1>4. service[p] /\ ByUnit(p) /\ pc[Unit] = "idle" /\ Fresh
  BY <1>3, StartNow
<1>5. CASE Start!Exit(p, 1)
  BY <1>1, <1>3, <1>4, <1>5, StartNow, WindowSame DEF Places, ProcsRight, Start!Exit
<1>6. CASE /\ pc' = [pc EXCEPT ![p] = "wait", ![Unit] = "connect"]
           /\ UNCHANGED <<code, Start!socketVars, quits>>
  <2>1. pc'[p] = "wait" /\ pc'[Unit] = "connect" /\ UNCHANGED ready
    BY <1>6, StartNow DEF Places, Start!socketVars
  <2> QED BY <1>1, <1>3, <1>4, <2>1, StartNow, WindowSame
<1> QED BY <1>3, <1>5, <1>6 DEF Start!StartUnit

LEMMA BegunReady ==
    ASSUME StartInv, NEW p \in Proc, Only(p), ~ quits, NEW q \in {p, Unit}, Start!Ready(q)
    PROVE  Begun(p)'
<1> USE DEF Begun, Direct, ByUnit, OwnRequest, BothRequests, Sent, Serves, Start!Goto
<1>1. UNCHANGED <<shown, clean, handled, want, service>>
  BY DEF Start!Ready, Start!windowVars
<1>2. q = p \/ q = Unit
  OBVIOUS
<1> QED BY <1>1, <1>2, StartNow, WindowSame, ShortSeqs
        DEF Places, ProcsRight, Start!Listening, Start!Ready, Start!PC

LEMMA BegunTimeout ==
    ASSUME StartInv, NEW p \in Proc, Only(p), ~ quits, NEW q \in {p, Unit}, Start!Timeout(q)
    PROVE  Begun(p)'
<1> USE DEF Begun, Direct, ByUnit, OwnRequest, BothRequests, Sent, Serves, Start!Goto
<1>1. UNCHANGED <<shown, clean, handled, want, service>>
  BY DEF Start!Timeout, Start!windowVars
<1>2. q = p /\ pc[p] = "wait" /\ Start!Exit(p, 1) /\ UNCHANGED child
  BY StartNow DEF ProcsRight, Start!Timeout
<1>3. service[p] /\ ByUnit(p) /\ ~ Sent(p)
  BY <1>2, StartNow
<1>4. bound # p /\ UNCHANGED backlog
  BY <1>2, StartNow DEF ProcsRight, Start!Exit
<1>5. ~ Sent(p)' /\ pc'[Unit] = pc[Unit] /\ pc'[p] = "over" /\ (ready' => ready)
  BY <1>2, StartNow DEF Places, Start!Exit
<1> HIDE DEF Sent
<1>6. BothRequests(p) => BothRequests(p)'
  BY <1>1, <1>2, <1>3, <1>4, <1>5, WindowSame
<1> QED BY <1>1, <1>2, <1>3, <1>5, <1>6, StartNow, WindowSame

LEMMA BegunConnectAgain ==
    ASSUME StartInv, NEW p \in Proc, Only(p), ~ quits, NEW q \in {p, Unit}, Start!ConnectAgain(q)
    PROVE  Begun(p)'
<1> USE DEF Begun, Direct, ByUnit, OwnRequest, BothRequests, Sent, Serves, Start!Goto
<1>1. UNCHANGED <<shown, clean, handled, want, service>>
  BY DEF Start!ConnectAgain, Start!windowVars
<1>2. q = p \/ q = Unit
  OBVIOUS
<1>3. q = p /\ pc[p] = "again"
  BY <1>2, StartNow DEF ProcsRight, Start!ConnectAgain
<1>4. service[p] /\ ByUnit(p) /\ pc[Unit] = "serving" /\ BothRequests(p) /\ ~ Sent(p)
  BY <1>3, StartNow DEF ProcsRight
<1>5. CASE Start!Exit(p, 1)
  <2>1. bound # p /\ UNCHANGED <<child, backlog>>
    BY <1>3, <1>4, <1>5, StartNow DEF ProcsRight, Start!ConnectAgain, Start!Exit
  <2>2. ~ Sent(p)' /\ pc'[Unit] = "serving" /\ pc'[p] = "over"
    BY <1>3, <1>4, <1>5, StartNow DEF Places, Start!Exit
  <2> HIDE DEF Sent
  <2>3. BothRequests(p)'
    BY <1>1, <1>4, <2>1, <2>2, WindowSame
  <2> QED BY <1>1, <1>4, <2>1, <2>2, <2>3
<1>6. CASE /\ Start!Listening /\ Start!Send(p, FALSE, Start!Reversed(want[p]))
           /\ Start!Goto(p, "over") /\ UNCHANGED <<code, sync, ready, quits>>
  <2>1. backlog' = Append(backlog, Passed(p)) /\ UNCHANGED child
    BY <1>3, <1>6 DEF Start!Send, Passed, Start!ConnectAgain
  <2>2. Sent(p)' /\ pc'[Unit] = "serving" /\ pc'[p] = "over"
    BY <1>3, <1>4, <1>6, StartNow DEF Places, ProcsRight
  <2>3. /\ Fresh' <=> Fresh
        /\ ToldByUnit' <=> ToldByUnit
        /\ Own(Unit)' = Own(Unit) /\ Passed(p)' = Passed(p)
    BY <1>1, WindowSame
  <2> HIDE DEF Sent, BothRequests
  <2>4. \/ child[Unit] # "no" /\ Fresh /\ backlog = <<>>
        \/ child[Unit] = "no" /\ Fresh /\ backlog = <<Own(Unit)>>
        \/ child[Unit] = "no" /\ ToldByUnit /\ backlog = <<>>
    BY <1>4 DEF BothRequests
  <2>5. \/ child[Unit] # "no" /\ Fresh /\ backlog' = <<Passed(p)>>
        \/ child[Unit] = "no" /\ Fresh /\ backlog' = <<Own(Unit), Passed(p)>>
        \/ child[Unit] = "no" /\ ToldByUnit /\ backlog' = <<Passed(p)>>
    BY <2>1, <2>4, ShortSeqs
  <2>6. BothRequests(p)'
    BY <2>1, <2>2, <2>3, <2>5 DEF BothRequests
  <2> QED BY <1>1, <1>4, <2>1, <2>2, <2>6
<1> QED BY <1>3, <1>5, <1>6 DEF Start!ConnectAgain

LEMMA BegunBind ==
    ASSUME StartInv, NEW p \in Proc, Only(p), ~ quits, NEW q \in {p, Unit}, Start!Bind(q)
    PROVE  Begun(p)'
<1> USE DEF Begun, Direct, ByUnit, OwnRequest, BothRequests, Sent, Serves, Start!Goto
<1>1. UNCHANGED <<shown, clean, handled, want, service>>
  BY DEF Start!Bind, Start!windowVars
<1>2. q = p \/ q = Unit
  OBVIOUS
<1> QED BY <1>1, <1>2, StartNow, WindowSame, ShortSeqs
        DEF Places, ProcsRight, Start!Listening, Start!Bind, Start!Exit

LEMMA BegunFork ==
    ASSUME StartInv, NEW p \in Proc, Only(p), ~ quits, NEW q \in {p, Unit}, Start!Fork(q)
    PROVE  Begun(p)'
<1> USE DEF Begun, Direct, ByUnit, OwnRequest, BothRequests, Sent, Serves, Start!Goto
<1>1. UNCHANGED <<shown, clean, handled, want, service>>
  BY DEF Start!Fork, Start!windowVars
<1>2. q = p \/ q = Unit
  OBVIOUS
<1> QED BY <1>1, <1>2, StartNow, WindowSame, ShortSeqs
        DEF Places, ProcsRight, Start!Listening, Start!Fork, Start!Exit, Start!socketVars

LEMMA BegunChildSend ==
    ASSUME StartInv, NEW p \in Proc, Only(p), ~ quits, NEW q \in {p, Unit}, Start!ChildSend(q)
    PROVE  Begun(p)'
<1> USE DEF Begun, Direct, ByUnit, OwnRequest, BothRequests, Sent, Serves, Start!Goto
<1>1. UNCHANGED <<shown, clean, handled, want, service>>
  BY DEF Start!ChildSend, Start!windowVars
<1>2. q = p \/ q = Unit
  OBVIOUS
<1>3. child[q] = "yes" /\ pc[q] \in {"init", "serving", "over"} /\ UNCHANGED <<pc, code, ready, quits>>
  BY <1>2, StartNow DEF ProcsRight, Start!ChildSend
<1>4. child'[q] = "no" /\ \A x \in Start!AnyProc : x # q => child'[x] = child[x]
  BY <1>2, StartNow DEF Start!ChildSend, Places
<1>5. Serves(q) => Start!Listening /\ backlog' = Append(backlog, Own(q))
  BY <1>2, <1>3, StartNow DEF ProcsRight, Start!Listening, Start!ChildSend, Start!Send, Own
<1>6. CASE q = p
  <2>1. Serves(p) => OwnRequest(p)'
    BY <1>1, <1>3, <1>4, <1>5, <1>6, StartNow, WindowSame, ShortSeqs
  <2>2. pc[p] # "idle" /\ ~ service[p]
    BY <1>3, <1>6, StartNow DEF ProcsRight
  <2> QED BY <1>1, <1>3, <1>6, <2>1, <2>2, StartNow, WindowSame
<1>7. CASE q = Unit
  <2>1. Begun(p) /\ (pc[p] # "idle" => service[p]) /\ ~ Serves(p)
    BY <1>3, <1>7, StartNow DEF ProcsRight
  <2>2. UNCHANGED <<pc, code, ready, service>> /\ (Sent(p)' <=> Sent(p))
    BY <1>1, <1>3
  <2>3. /\ Fresh' <=> Fresh
        /\ ToldBy(p)' <=> ToldBy(p)
        /\ Own(Unit)' = Own(Unit) /\ Passed(p)' = Passed(p)
    BY <1>1, WindowSame
  <2>4. child'[Unit] = "no" /\ child'[p] = child[p]
    BY <1>4, <1>7, StartNow
  <2>5. pc[p] # "idle" /\ service[p] => ByUnit(p)
    BY <2>1
  <2> HIDE DEF Sent, BothRequests
  <2>6. ASSUME Serves(Unit) PROVE BothRequests(p)'
    <3>1. BothRequests(p) /\ backlog' = Append(backlog, Own(Unit))
      BY <1>5, <1>7, <2>1, <2>6
    <3>2. \/ ~ Sent(p) /\ Fresh /\ backlog = <<>>
          \/ Sent(p) /\ Fresh /\ backlog = <<Passed(p)>>
          \/ Sent(p) /\ ToldBy(p) /\ backlog = <<>>
      BY <1>3, <1>7, <3>1 DEF BothRequests
    <3>3. \/ ~ Sent(p) /\ Fresh /\ backlog' = <<Own(Unit)>>
          \/ Sent(p) /\ Fresh /\ backlog' = <<Passed(p), Own(Unit)>>
          \/ Sent(p) /\ ToldBy(p) /\ backlog' = <<Own(Unit)>>
      BY <3>1, <3>2, ShortSeqs
    <3> QED BY <2>2, <2>3, <2>4, <3>3 DEF BothRequests
  <2> QED BY <1>1, <1>3, <2>1, <2>2, <2>3, <2>4, <2>6
<1> QED BY <1>2, <1>6, <1>7

LEMMA BegunInitialize ==
    ASSUME StartInv, NEW p \in Proc, Only(p), ~ quits, NEW q \in {p, Unit}, Start!Initialize(q)
    PROVE  Begun(p)'
<1> USE DEF Begun, Direct, ByUnit, OwnRequest, BothRequests, Sent, Serves, Start!Goto
<1>1. UNCHANGED <<shown, clean, handled, want, service>>
  BY DEF Start!Initialize, Start!windowVars
<1>2. q = p \/ q = Unit
  OBVIOUS
<1>3. pc[q] = "init" /\ UNCHANGED child
  BY DEF Start!Initialize
<1>4. CASE Start!Exit(q, 1)
  BY <1>1, <1>2, <1>3, <1>4, StartNow, WindowSame DEF Places, ProcsRight, Start!Exit
<1>5. CASE /\ Start!Goto(q, "serving") /\ Start!signal_ready_if_needed
           /\ UNCHANGED <<code, bound, backlog, sync, quits>>
  <2>1. pc'[q] = "serving" /\ \A x \in Start!AnyProc : x # q => pc'[x] = pc[x]
    BY <1>2, <1>5, StartNow DEF Places
  <2>2. ready' => ready \/ sync # None
    BY <1>5, Zenon DEF Start!signal_ready_if_needed
  <2>3. CASE q = p
    BY <1>1, <1>3, <1>5, <2>1, <2>2, <2>3, StartNow, WindowSame DEF Places, ProcsRight
  <2>4. CASE q = Unit
    BY <1>1, <1>3, <1>5, <2>1, <2>2, <2>4, StartNow, WindowSame DEF Places, ProcsRight
  <2> QED BY <1>2, <2>3, <2>4
<1> QED BY <1>3, <1>4, <1>5 DEF Start!Initialize

LEMMA BegunStart ==
    ASSUME StartInv, NEW p \in Proc, Only(p), ~ quits, Start!Start(p)
    PROVE  Begun(p)'
<1>1. /\ pc[p] = "idle" /\ pc' = [pc EXCEPT ![p] = "connect"]
      /\ UNCHANGED <<child, code, ready, shown, clean, handled>>
  BY DEF Start!Start, Start!Goto, Start!socketVars, Start!windowVars
<1>2. pc'[p] = "connect" /\ pc'[Unit] = "idle" /\ Fresh /\ child[p] = "no" /\ ~ ready'
  BY <1>1, StartNow DEF Places, ProcsRight, Begun
<1>3. Fresh'
  BY <1>1, <1>2 DEF Fresh
<1> QED BY <1>1, <1>2, <1>3, StartNow
        DEF Begun, ByUnit, Direct, Serves, Sent, Places

LEMMA StartMoves ==
    ASSUME Places, ProcsRight, NEW q \in Start!AnyProc, ~ quits',
           Start!Start(q) \/ Start!Step(q) \/ Start!ChildSend(q) \/ Start!Quit(q)
    PROVE  /\ ~ quits /\ ~ Start!Quit(q)
           /\ \A x \in Start!AnyProc : pc'[x] = "idle" => pc[x] = "idle"
<1> USE DEF Start!Goto
<1>1. ASSUME NEW r, Start!Exit(q, r)
      PROVE  /\ ~ quits /\ pc[q] # "serving"
             /\ \A x \in Start!AnyProc : pc'[x] = "idle" => pc[x] = "idle"
  BY <1>1 DEF Start!Exit, Places
<1>2. ~ quits
  BY <1>1 DEF Start!Step, Start!Connect, Start!CreateSync,
         Start!StartUnit, Start!Ready, Start!Timeout, Start!ConnectAgain, Start!Bind,
         Start!Fork, Start!Initialize, Start!Accept, Start!ChildSend, Start!Quit, Start!Start
<1>3. ~ Start!Quit(q)
  BY <1>1 DEF Start!Quit
<1>4. \A x \in Start!AnyProc : pc'[x] = "idle" => pc[x] = "idle"
  BY <1>1, <1>3 DEF Places, Start!Step, Start!Connect, Start!CreateSync,
         Start!StartUnit, Start!Ready, Start!Timeout, Start!ConnectAgain, Start!Bind,
         Start!Fork, Start!Initialize, Start!Accept, Start!ChildSend, Start!Start
<1> QED BY <1>2, <1>3, <1>4

\* What handling a request does to the window.
LEMMA AcceptFacts ==
    ASSUME Flags, NEW q, Start!Accept(q)
    PROVE  /\ backlog # <<>> /\ backlog' = Tail(backlog)
           /\ UNCHANGED <<pc, child, service, want, code, bound, sync, ready, quits>>
           /\ handled' = IF handled = None THEN Head(backlog).from ELSE handled
           /\ \/ /\ Head(backlog).what = "A" /\ (shown' <=> ~ shown)
                 /\ clean' <=> clean \/ shown
              \/ /\ Head(backlog).what = "P" /\ (shown' <=> clean)
                 /\ clean' <=> ~ clean
              \/ /\ Head(backlog).what = "U" /\ ~ shown'
                 /\ clean' <=> clean \/ shown
              \/ Head(backlog).what \in {"H", "O"} /\ UNCHANGED <<shown, clean>>
<1> DEFINE m == Head(backlog)
<1>1. /\ backlog # <<>> /\ backlog' = Tail(backlog)
      /\ UNCHANGED <<pc, child, service, want, code, bound, sync, ready, quits>>
      /\ handled' = IF handled = None THEN m.from ELSE handled
  BY DEF Start!Accept
<1>2. \/ m.what = "A" /\ shown' = ~ shown /\ clean' = (clean \/ shown)
      \/ m.what = "P" /\ shown' = clean /\ clean' = ~ clean
      \/ m.what = "U" /\ shown' = FALSE /\ clean' = (clean \/ shown)
      \/ m.what \in {"H", "O"} /\ UNCHANGED <<shown, clean>>
  BY DEF Start!Accept
<1> HIDE DEF m
<1>3. \/ m.what = "A" /\ (shown' <=> ~ shown) /\ (clean' <=> clean \/ shown)
      \/ m.what = "P" /\ (shown' <=> clean) /\ (clean' <=> ~ clean)
      \/ m.what = "U" /\ ~ shown' /\ (clean' <=> clean \/ shown)
      \/ m.what \in {"H", "O"} /\ UNCHANGED <<shown, clean>>
  BY <1>2, Zenon DEF Flags
<1> QED BY <1>1, <1>3 DEF m

LEMMA BegunAccept ==
    ASSUME StartInv, NEW p \in Proc, Only(p), ~ quits, NEW q \in {p, Unit}, Start!Accept(q)
    PROVE  Begun(p)'
<1>1. /\ Flags /\ pc[q] = "serving" /\ Places /\ ProcsRight /\ Begun(p)
      /\ p # Unit /\ p # None /\ Unit # None
  BY StartNow, TypeParts DEF StartInv, Start!Accept
<1>2. /\ backlog # <<>> /\ backlog' = Tail(backlog)
      /\ UNCHANGED <<pc, child, service, want, code, ready>>
      /\ Own(p)' = Own(p) /\ Own(Unit)' = Own(Unit) /\ Passed(p)' = Passed(p)
      /\ (Sent(p)' <=> Sent(p)) /\ (Serves(p)' <=> Serves(p))
      /\ (Serves(Unit)' <=> Serves(Unit))
  BY <1>1, AcceptFacts DEF Own, Passed, Sent, Serves
<1>3. want[p] \in {"A", "H", "P", "U", "O"} /\ want[Unit] = "A"
  BY <1>1, StartNow DEF Places, Start!Request, ProcsRight
<1>4. /\ Own(p).from = p /\ Own(p).what = want[p]
      /\ Own(Unit).from = Unit /\ Own(Unit).what = "A"
      /\ Passed(p).from = p
      /\ Passed(p).what = CASE want[p] = "A" -> "H" [] want[p] = "H" -> "A" [] OTHER -> want[p]
  BY <1>3 DEF Own, Passed, Start!Reversed
<1>5. CASE q = p
  <2>1. pc[p] = "serving" /\ ~ service[p] /\ Direct(p) /\ OwnRequest(p)
    BY <1>1, <1>5 DEF Begun, ByUnit, Direct, Serves
  <2>2. child[p] = "no" /\ Fresh /\ backlog = <<Own(p)>>
    BY <1>2, <2>1 DEF OwnRequest
  <2>3. Head(backlog) = Own(p) /\ backlog' = <<>>
    BY <1>2, <2>2, ShortSeqs
  <2>4. AsAsked(p)'
    BY <1>1, <1>2, <1>3, <1>4, <2>2, <2>3, AcceptFacts DEF AsAsked, Fresh
  <2>5. OwnRequest(p)'
    BY <1>2, <2>2, <2>3, <2>4 DEF OwnRequest
  <2>6. Direct(p)'
    BY <1>2, <2>1, <2>5 DEF Direct
  <2> QED BY <1>2, <2>1, <2>6 DEF Begun
<1>6. CASE q = Unit
  <2>1. pc[Unit] = "serving" /\ pc[p] # "idle" /\ service[p] /\ ByUnit(p) /\ BothRequests(p)
    BY <1>1, <1>6 DEF Begun, ByUnit, Direct, Serves
  <2> DEFINE u == Own(Unit)
             m == Passed(p)
  <2>2. \/ Sent(p) /\ child[Unit] # "no" /\ Fresh /\ backlog = <<m>>
        \/ child[Unit] = "no" /\ ~ Sent(p) /\ Fresh /\ backlog = <<u>>
        \/ child[Unit] = "no" /\ Sent(p) /\ Fresh /\ backlog = <<u, m>>
        \/ child[Unit] = "no" /\ Sent(p) /\ Fresh /\ backlog = <<m, u>>
        \/ child[Unit] = "no" /\ Sent(p) /\ ToldByUnit /\ backlog = <<m>>
        \/ child[Unit] = "no" /\ Sent(p) /\ ToldBy(p) /\ backlog = <<u>>
    BY <1>2, <2>1 DEF BothRequests
  <2>3. ASSUME Fresh, Head(backlog) = u PROVE ToldByUnit'
    BY <1>1, <1>4, <2>3, AcceptFacts DEF ToldByUnit, Fresh
  <2>4. ASSUME Fresh, Head(backlog) = m PROVE ToldBy(p)'
    BY <1>1, <1>2, <1>3, <1>4, <2>4, AcceptFacts DEF ToldBy, Fresh
  <2>5. ASSUME ToldByUnit, Head(backlog) = m PROVE Settled(p)'
    BY <1>1, <1>2, <1>3, <1>4, <2>5, AcceptFacts DEF ToldByUnit, Settled
  <2>6. ASSUME ToldBy(p), Head(backlog) = u PROVE Settled(p)'
    BY <1>1, <1>2, <1>3, <1>4, <2>6, AcceptFacts DEF ToldBy, Settled
  <2> HIDE DEF u, m
  <2>7. \/ Sent(p) /\ child[Unit] # "no" /\ ToldBy(p)' /\ backlog' = <<>>
        \/ child[Unit] = "no" /\ ~ Sent(p) /\ ToldByUnit' /\ backlog' = <<>>
        \/ child[Unit] = "no" /\ Sent(p) /\ ToldByUnit' /\ backlog' = <<m>>
        \/ child[Unit] = "no" /\ Sent(p) /\ ToldBy(p)' /\ backlog' = <<u>>
        \/ /\ child[Unit] = "no" /\ Sent(p) /\ backlog' = <<>>
           /\ Settled(p)'
    <3>1. \/ Sent(p) /\ child[Unit] # "no" /\ Fresh /\ Head(backlog) = m /\ backlog' = <<>>
          \/ child[Unit] = "no" /\ ~ Sent(p) /\ Fresh /\ Head(backlog) = u /\ backlog' = <<>>
          \/ child[Unit] = "no" /\ Sent(p) /\ Fresh /\ Head(backlog) = u /\ backlog' = <<m>>
          \/ child[Unit] = "no" /\ Sent(p) /\ Fresh /\ Head(backlog) = m /\ backlog' = <<u>>
          \/ child[Unit] = "no" /\ Sent(p) /\ ToldByUnit /\ Head(backlog) = m /\ backlog' = <<>>
          \/ child[Unit] = "no" /\ Sent(p) /\ ToldBy(p) /\ Head(backlog) = u /\ backlog' = <<>>
      <4>1. /\ Head(<<m>>) = m /\ Tail(<<m>>) = <<>> /\ Head(<<u>>) = u /\ Tail(<<u>>) = <<>>
            /\ Head(<<u, m>>) = u /\ Tail(<<u, m>>) = <<m>>
            /\ Head(<<m, u>>) = m /\ Tail(<<m, u>>) = <<u>>
        BY ShortSeqs
      <4>2. backlog' = Tail(backlog)
        BY <1>2
      <4> QED BY <2>2, <4>1, <4>2, Zenon
    <3> QED BY <2>3, <2>4, <2>5, <2>6, <3>1
  <2>8. BothRequests(p)'
    BY <1>2, <2>7 DEF BothRequests, u, m
  <2>9. ByUnit(p)'
    BY <1>2, <2>1, <2>8 DEF ByUnit
  <2> QED BY <1>2, <2>1, <2>9 DEF Begun
<1> QED BY <1>5, <1>6

LEMMA StartNext == StartInv /\ [Start!Next]_(Start!vars) => StartInv'
<1> SUFFICES ASSUME StartInv, [Start!Next]_(Start!vars) PROVE StartInv'
  OBVIOUS
<1>1. CASE UNCHANGED Start!vars
  BY <1>1 DEF Start!vars, StartInv, Start!TypeOK, ProcsRight, Start!Listening, Only, Begun,
              Direct, ByUnit, OwnRequest, BothRequests, Sent, Serves, Fresh, AsAsked, Settled,
              ToldByUnit, ToldBy, Own, Passed
<1>2. CASE Start!Next
  <2>1. Places /\ Flags /\ Requests /\ ProcsRight
    BY TypeParts DEF StartInv
  <2>2. Places' /\ Flags' /\ Requests' /\ ProcsRight'
    BY <1>2, <2>1, StartPlaces, StartFlags, StartRequests, StartProcs
  <2>3. Start!TypeOK'
    BY <2>2, Zenon DEF Start!TypeOK, Places, Flags, Requests
  <2>4. ASSUME NEW p \in Proc, Only(p)', ~ quits' PROVE Begun(p)'
    <3>1. PICK q \in Start!AnyProc :
             Start!Start(q) \/ Start!Step(q) \/ Start!ChildSend(q) \/ Start!Quit(q)
      BY <1>2 DEF Start!Next
    <3>2. /\ ~ quits /\ ~ Start!Quit(q)
          /\ \A x \in Start!AnyProc : pc'[x] = "idle" => pc[x] = "idle"
      BY <2>1, <2>4, <3>1, StartMoves
    <3>3. Only(p)
      BY <2>4, <3>2 DEF Only, Start!AnyProc
    <3>4. pc[q] = "idle" => Start!Start(q)
      BY <2>1, <3>1 DEF ProcsRight, Start!Step, Start!Connect, Start!CreateSync,
         Start!StartUnit, Start!Ready, Start!Timeout, Start!ConnectAgain, Start!Bind,
         Start!Fork, Start!Initialize, Start!Accept, Start!ChildSend, Start!Quit
    <3>5. Start!Start(q) => q = p
      BY <2>1, <2>4 DEF Start!Start, Start!Goto, Only, Places
    <3>6. q \in {p, Unit}
      BY <3>3, <3>4, <3>5 DEF Only, Start!AnyProc
    <3>7. CASE Start!Start(q)
      BY <3>2, <3>3, <3>5, <3>7, BegunStart
    <3>8. CASE Start!ChildSend(q)
      BY <3>2, <3>3, <3>6, <3>8, BegunChildSend
    <3>9. CASE Start!Step(q)
      <4>1. Start!Connect(q) \/ Start!CreateSync(q) \/ Start!StartUnit(q) => Begun(p)'
        BY <3>2, <3>3, <3>6, BegunConnect, BegunCreateSync, BegunStartUnit
      <4>2. Start!Ready(q) \/ Start!Timeout(q) \/ Start!ConnectAgain(q) => Begun(p)'
        BY <3>2, <3>3, <3>6, BegunReady, BegunTimeout, BegunConnectAgain
      <4>3. Start!Bind(q) \/ Start!Fork(q) \/ Start!Initialize(q) \/ Start!Accept(q) => Begun(p)'
        BY <3>2, <3>3, <3>6, BegunBind, BegunFork, BegunInitialize, BegunAccept
      <4> QED BY <3>9, <4>1, <4>2, <4>3 DEF Start!Step
    <3> QED BY <3>1, <3>2, <3>7, <3>8, <3>9
  <2> QED BY <2>2, <2>3, <2>4 DEF StartInv
<1> QED BY <1>1, <1>2

\* Whatever the process is called, and whatever fails or times out on the way: one
\* process that is started alone and ends well leaves the window as its command
\* line asks; and where a plugin is unknown or its request overtakes the unit's, or
\* where the second fork fails, it leaves it as Expected says.
THEOREM RequestFulfilled == Start!Spec => []StartedAsAsked
<1>1. StartInv => StartedAsAsked
  <2> SUFFICES ASSUME StartInv, NEW p \in Proc, Start!Quiet, ~ quits, pc[p] # "idle",
                      code[p] = 0, \A q \in Proc \ {p} : pc[q] = "idle", want[p] # "O"
               PROVE  shown = Start!Expected(p)
    BY DEF StartedAsAsked, Start!StartedAsAsked
  <2>1. Only(p)
    BY DEF Only
  <2>2. /\ Begun(p) /\ Flags /\ ProcsRight
        /\ child[p] \in {"no", "yes", "lost"} /\ child[Unit] \in {"no", "yes", "lost"}
    BY <2>1, TypeParts, StartNow DEF StartInv, Places
  <2>3. /\ pc[p] \in {"serving", "over"} /\ child[p] # "yes" /\ child[Unit] # "yes"
        /\ backlog = <<>> /\ pc[Unit] \in {"idle", "serving", "over"}
    BY DEF Start!Quiet, Start!AnyProc
  <2>4. CASE ~ service[p]
    <3>1. OwnRequest(p) /\ pc[Unit] = "idle"
      BY <2>2, <2>3, <2>4 DEF Begun, Direct, Serves
    <3>2. child[Unit] = "no"
      BY <2>2, <3>1 DEF ProcsRight, Start!AnyProc
    <3>3. \/ child[p] = "lost" /\ ~ shown
          \/ child[p] = "no" /\ (shown <=> want[p] \notin {"H", "U"})
      BY <2>2, <2>3, <3>1, ShortSeqs DEF OwnRequest, AsAsked, Fresh
    <3>4. CASE child[p] = "lost"
      <4>1. Start!Expected(p) = FALSE
        BY <3>2, <3>4 DEF Start!Expected
      <4> QED BY <2>2, <3>3, <3>4, <4>1 DEF Flags
    <3>5. CASE child[p] = "no"
      <4>1. Start!Expected(p) = (want[p] \notin {"H", "U"})
        BY <2>4, <3>2, <3>5 DEF Start!Expected
      <4>2. shown <=> want[p] \notin {"H", "U"}
        BY <3>3, <3>5
      <4> QED BY <2>2, <4>1, <4>2, Zenon DEF Flags
    <3> QED BY <3>3, <3>4, <3>5
  <2>5. CASE service[p]
    <3>1. Sent(p) /\ BothRequests(p) /\ child[p] = "no"
      BY <2>2, <2>3, <2>5 DEF Begun, ByUnit, Serves, Sent
    <3>2. \/ child[Unit] = "lost" /\ (shown <=> want[p] \in {"H", "P"})
          \/ child[Unit] = "no" /\ Settled(p)
      BY <2>2, <2>3, <3>1, ShortSeqs DEF BothRequests, ToldBy
    <3>3. CASE child[Unit] = "lost"
      <4>1. Start!Expected(p) = (want[p] \in {"H", "P"})
        BY <3>1, <3>3 DEF Start!Expected
      <4>2. shown <=> want[p] \in {"H", "P"}
        BY <3>2, <3>3
      <4> QED BY <2>2, <4>1, <4>2, Zenon DEF Flags
    <3>4. CASE child[Unit] = "no" /\ handled = p /\ want[p] \in {"P", "U"}
      <4>1. Start!Expected(p) = (want[p] = "U")
        BY <2>5, <3>1, <3>4 DEF Start!Expected
      <4>2. shown <=> want[p] = "U"
        BY <3>2, <3>4 DEF Settled
      <4> QED BY <2>2, <4>1, <4>2, Zenon DEF Flags
    <3>5. CASE child[Unit] = "no" /\ ~ (handled = p /\ want[p] \in {"P", "U"})
      <4>1. Start!Expected(p) = (want[p] \notin {"H", "U"})
        BY <3>1, <3>5 DEF Start!Expected
      <4>2. shown <=> want[p] \notin {"H", "U"}
        BY <3>2, <3>5 DEF Settled
      <4> QED BY <2>2, <4>1, <4>2, Zenon DEF Flags
    <3> QED BY <3>2, <3>3, <3>4, <3>5
  <2> QED BY <2>4, <2>5
<1> QED BY StartInit, StartNext, <1>1, PTL DEF Start!Spec

-----------------------------------------------------------------------------
(* The scopes: types.                                                      *)

LEMMA MessageTypes ==
    ASSUME NEW s \in Seq(Scope!Message)
    PROVE  /\ \A n \in 1 .. Len(s) :
                /\ s[n] \in Scope!Message
                /\ SubSeq(s, 1, n) \in Seq(Scope!Message)
                /\ SubSeq(s, 2, n) \in Seq(Scope!Message)
                /\ SubSeq(s, n + 1, Len(s)) \in Seq(Scope!Message)
                /\ SubSeq(s, 1, n - 1) \in Seq(Scope!Message)
           /\ Len(s) > 1 => SubSeq(s, 3, Len(s)) \in Seq(Scope!Message)
<1>1. Len(s) \in Nat
  BY LenProperties
<1>2. ASSUME NEW a \in 1 .. Len(s) + 1, NEW b \in 0 .. Len(s)
      PROVE  SubSeq(s, a, b) \in Seq(Scope!Message)
  BY <1>1, SubSeqProperties
<1> QED BY <1>1, <1>2, ElementOfSeq

LEMMA RemovalTypes ==
    ASSUME NEW s \in Seq(Scope!Message)
    PROVE  Scope!RemovalsIn(s) \subseteq Launch
<1>1. \A i \in 1 .. Len(s) : s[i].job \in Launch \cup {None}
  <2> TAKE i \in 1 .. Len(s)
  <2>1. s[i] \in Scope!Message
    BY ElementOfSeq
  <2> QED BY <2>1 DEF Scope!Message
<1> QED BY <1>1 DEF Scope!RemovalsIn

LEMMA ScopeInitTypes == Scope!Init => Scope!TypeOK
BY ScopeAssumption DEF Scope!Init, Scope!TypeOK, Scope!Step

LEMMA ScopeTypes == ASSUME Scope!TypeOK, Scope!Next PROVE Scope!TypeOK'
<1> USE DEF Scope!TypeOK, Scope!Step, Scope!Goto, Scope!Tell
<1>1. ASSUME Scope!OtherJob PROVE Scope!TypeOK'
  <2>1. [to |-> 0, job |-> None, ok |-> TRUE] \in Scope!Message
    BY DEF Scope!Message
  <2>2. wire' \in Seq(Scope!Message)
    BY <1>1, <2>1 DEF Scope!OtherJob
  <2>3. noise' \in 0 .. MaxNoise
    BY <1>1, ScopeAssumption DEF Scope!OtherJob
  <2> QED BY <1>1, <2>2, <2>3 DEF Scope!OtherJob
<1>2. ASSUME NEW l \in Launch PROVE Scope!Company(l) \subseteq Launch
  BY DEF Scope!Company
<1>3. ASSUME NEW l \in Launch, Scope!Mix(l) PROVE shared' \in SUBSET Launch
  BY <1>2, <1>3 DEF Scope!Mix
<1>4. ASSUME NEW l \in Launch, Scope!Begin(l) PROVE Scope!TypeOK'
  <2>1. UNCHANGED <<wire, mail, job, waits, noise, lost>>
    BY <1>4 DEF Scope!Begin
  <2>2. CASE /\ Scope!Goto(l, "ended") /\ Scope!Tell(l, "error")
             /\ UNCHANGED <<mode, base, serial, shared>>
    BY <2>1, <2>2
  <2>3. CASE Scope!try_activate(l)
    BY <1>3, <2>1, <2>3 DEF Scope!try_activate
  <2>4. ASSUME NEW m \in {"blocking", "detached"}, Scope!Forks(l, m) PROVE Scope!TypeOK'
    BY <2>1, <2>4 DEF Scope!Forks
  <2> QED BY <1>4, <2>2, <2>3, <2>4 DEF Scope!Begin
<1>5. ASSUME NEW l \in Launch, Scope!AddMatch(l) PROVE Scope!TypeOK'
  <2>1. [to |-> serial[l] + 1, job |-> None, ok |-> TRUE] \in Scope!Message
    BY DEF Scope!Message
  <2>2. wire' \in Seq(Scope!Message)
    BY <1>5, <2>1 DEF Scope!AddMatch
  <2> QED BY <1>3, <1>5, <2>2 DEF Scope!AddMatch
<1>6. ASSUME NEW l \in Launch, Scope!Activated(l) PROVE Scope!TypeOK'
  <2>1. \A ok \in BOOLEAN : [to |-> serial[l], job |-> None, ok |-> ok] \in Scope!Message
    BY DEF Scope!Message
  <2>2. wire' \in Seq(Scope!Message)
    BY <1>6, <2>1 DEF Scope!Activated
  <2> QED BY <1>6, <2>2 DEF Scope!Activated
<1>7. ASSUME NEW l \in Launch, Scope!StartJob(l) PROVE Scope!TypeOK'
  <2>1. \A ok \in BOOLEAN : [to |-> serial[l], job |-> l, ok |-> ok] \in Scope!Message
    BY DEF Scope!Message
  <2>2. wire' \in Seq(Scope!Message)
    BY <1>7, <2>1 DEF Scope!StartJob
  <2> QED BY <1>7, <2>2 DEF Scope!StartJob
<1>8. ASSUME NEW l \in Launch, Scope!EndJob(l) PROVE Scope!TypeOK'
  <2>1. \A ok \in BOOLEAN : [to |-> 0, job |-> l, ok |-> ok] \in Scope!Message
    BY DEF Scope!Message
  <2>2. wire' \in Seq(Scope!Message)
    BY <1>8, <2>1 DEF Scope!EndJob
  <2> QED BY <1>8, <2>2 DEF Scope!EndJob
<1>9. ASSUME NEW l \in Launch, Scope!Read(l) PROVE Scope!TypeOK'
  <2>1. PICK n \in 1 .. Len(wire) :
           /\ mail' = [mail EXCEPT ![l] = @ \o SubSeq(wire, 1, n)]
           /\ wire' = SubSeq(wire, n + 1, Len(wire))
           /\ lost' = lost \cup (Scope!RemovalsIn(SubSeq(wire, 1, n)) \ {l})
    BY <1>9 DEF Scope!Read
  <2>2. SubSeq(wire, 1, n) \in Seq(Scope!Message) /\ wire' \in Seq(Scope!Message)
    BY <2>1, MessageTypes
  <2>3. lost' \in SUBSET Launch
    BY <2>1, <2>2, RemovalTypes
  <2>4. mail[l] \o SubSeq(wire, 1, n) \in Seq(Scope!Message)
    BY <2>2, ConcatProperties
  <2>5. mail' \in [Launch -> Seq(Scope!Message)]
    BY <2>1, <2>4
  <2> QED BY <1>9, <2>2, <2>3, <2>5 DEF Scope!Read
<1>10. ASSUME NEW l \in Launch, Scope!TakeReply(l) PROVE Scope!TypeOK'
  <2>1. PICK i \in 1 .. Len(mail[l]) : LET m == mail[l][i] IN
             /\ mail' = [mail EXCEPT ![l] = SubSeq(@, 1, i - 1) \o SubSeq(@, i + 1, Len(@))]
             /\ \/ /\ step[l] = "activate"
                   /\ Scope!Goto(l, "ended") /\ Scope!Tell(l, IF m.ok THEN "ok" ELSE "error")
                   /\ UNCHANGED <<serial, job, waits>>
                \/ /\ step[l] = "match" /\ m.ok
                   /\ Scope!Goto(l, "call")
                   /\ serial' = [serial EXCEPT ![l] = @ + 1]
                   /\ job' = [job EXCEPT ![l] = "asked"]
                   /\ UNCHANGED <<told, waits>>
                \/ /\ step[l] = "call" /\ m.ok /\ m.job # None
                   /\ Scope!Goto(l, "loop")
                   /\ waits' = [waits EXCEPT ![l] = m.job]
                   /\ UNCHANGED <<told, serial, job>>
                \/ /\ step[l] # "activate"
                   /\ ~ m.ok \/ (step[l] = "call" /\ m.job = None)
                   /\ Scope!End(l)
                   /\ UNCHANGED <<serial, job, waits>>
    BY <1>10 DEF Scope!TakeReply
  <2>2. /\ SubSeq(mail[l], 1, i - 1) \in Seq(Scope!Message)
        /\ SubSeq(mail[l], i + 1, Len(mail[l])) \in Seq(Scope!Message)
        /\ mail[l][i] \in Scope!Message
    BY MessageTypes
  <2>3. SubSeq(mail[l], 1, i - 1) \o SubSeq(mail[l], i + 1, Len(mail[l])) \in Seq(Scope!Message)
    BY <2>2, ConcatProperties
  <2>4. mail' \in [Launch -> Seq(Scope!Message)]
    BY <2>1, <2>3
  <2>5. mail[l][i].job \in Launch \cup {None}
    BY <2>2 DEF Scope!Message
  <2>6. /\ step' \in [Launch -> Scope!Step] /\ serial' \in [Launch -> Nat]
        /\ told' \in [Launch -> {"nothing", "ok", "error"}]
        /\ job' \in [Launch -> {"none", "asked", "queued", "done", "failed"}]
        /\ waits' \in [Launch -> Launch \cup {None}]
    <3> DEFINE m == mail[l][i]
    <3>1. CASE /\ step[l] = "activate"
               /\ Scope!Goto(l, "ended") /\ Scope!Tell(l, IF m.ok THEN "ok" ELSE "error")
               /\ UNCHANGED <<serial, job, waits>>
      BY <3>1
    <3>2. CASE /\ step[l] = "match" /\ m.ok /\ Scope!Goto(l, "call")
               /\ serial' = [serial EXCEPT ![l] = @ + 1]
               /\ job' = [job EXCEPT ![l] = "asked"] /\ UNCHANGED <<told, waits>>
      BY <3>2
    <3>3. CASE /\ step[l] = "call" /\ m.ok /\ m.job # None /\ Scope!Goto(l, "loop")
               /\ waits' = [waits EXCEPT ![l] = m.job] /\ UNCHANGED <<told, serial, job>>
      BY <2>5, <3>3
    <3>4. CASE Scope!End(l) /\ UNCHANGED <<serial, job, waits>>
      BY <3>4 DEF Scope!End
    <3> QED BY <2>1, <3>1, <3>2, <3>3, <3>4
  <2> QED BY <1>10, <2>4, <2>6 DEF Scope!TakeReply
<1>11. ASSUME NEW l \in Launch, Scope!Timeout(l) PROVE Scope!TypeOK'
  BY <1>11 DEF Scope!Timeout, Scope!End, Scope!bus
<1>12. ASSUME NEW l \in Launch, Scope!Turn(l) PROVE Scope!TypeOK'
  <2>1. UNCHANGED <<mode, base, serial, job, waits, noise, shared>>
    BY <1>12 DEF Scope!Turn
  <2>2. ASSUME NEW m, Scope!Look(l, m)
        PROVE  /\ step' \in [Launch -> Scope!Step]
               /\ told' \in [Launch -> {"nothing", "ok", "error"}]
    BY <2>2 DEF Scope!Look, Scope!End
  <2>3. ASSUME NEW n \in 1 .. Len(wire),
               mail' = [mail EXCEPT ![l] = SubSeq(wire, 2, n)],
               wire' = SubSeq(wire, n + 1, Len(wire)),
               lost' = lost \cup (Scope!RemovalsIn(SubSeq(wire, 1, n)) \ {l}),
               Scope!Look(l, wire[1])
        PROVE  Scope!TypeOK'
    <3>1. /\ SubSeq(wire, 1, n) \in Seq(Scope!Message) /\ wire' \in Seq(Scope!Message)
          /\ SubSeq(wire, 2, n) \in Seq(Scope!Message)
      BY <2>3, MessageTypes
    <3>2. lost' \in SUBSET Launch
      BY <2>3, <3>1, RemovalTypes
    <3>3. mail' \in [Launch -> Seq(Scope!Message)]
      BY <2>3, <3>1
    <3> QED BY <2>1, <2>2, <2>3, <3>1, <3>2, <3>3
  <2>4. ASSUME mail[l] # <<>>, lost' = lost \cup Scope!RemovalsIn(<<mail[l][1]>>),
               \/ /\ Len(mail[l]) = 1
                  /\ mail' = [mail EXCEPT ![l] = <<>>]
                  /\ UNCHANGED <<step, told>>
               \/ /\ Len(mail[l]) > 1
                  /\ mail' = [mail EXCEPT ![l] = SubSeq(@, 3, Len(@))]
                  /\ Scope!Look(l, mail[l][2]),
               UNCHANGED wire
        PROVE  Scope!TypeOK'
    <3>1. mail[l] \in Seq(Scope!Message) /\ Len(mail[l]) \in Nat /\ Len(mail[l]) >= 1
      BY <2>4, LenProperties, EmptySeq
    <3>2. mail[l][1] \in Scope!Message
      BY <3>1, ElementOfSeq
    <3>3. lost' \in SUBSET Launch
      <4>1. <<mail[l][1]>> \in Seq(Scope!Message)
        BY <3>2
      <4> QED BY <2>4, <4>1, RemovalTypes
    <3>4. mail' \in [Launch -> Seq(Scope!Message)]
      BY <2>4, <3>1, MessageTypes, EmptySeq
    <3>5. /\ step' \in [Launch -> Scope!Step]
          /\ told' \in [Launch -> {"nothing", "ok", "error"}]
      BY <2>2, <2>4
    <3> QED BY <2>1, <2>4, <3>3, <3>4, <3>5
  <2> QED BY <1>12, <2>3, <2>4 DEF Scope!Turn
<1>13. ASSUME NEW l \in Launch, Scope!Exec(l) PROVE Scope!TypeOK'
  BY <1>13 DEF Scope!Exec, Scope!End, Scope!bus
<1>14. ASSUME NEW l \in Launch, Scope!Finish(l) PROVE Scope!TypeOK'
  BY <1>14 DEF Scope!Finish, Scope!bus
<1> HIDE DEF Scope!TypeOK, Scope!Step, Scope!Goto, Scope!Tell
<1> QED BY <1>1, <1>4, <1>5, <1>6, <1>7, <1>8, <1>9, <1>10, <1>11, <1>12, <1>13, <1>14
        DEF Scope!Next

-----------------------------------------------------------------------------
(* The scopes: a launch that has the socket to itself.                     *)

\* A message that launch l, whose last serial is k, cannot mistake: no call after
\* k is answered; a removal of its job that succeeded is one of a job that is
\* done; while it waits for its job, what answers k is about its job.
Good(x, l, k, done, calling) ==
    /\ x.to <= k
    /\ x.to = 0 /\ x.job = l /\ x.ok => done
    /\ calling /\ x.to = k /\ x.job # None => x.job = l

AllGood(s, l, k, done, calling) ==
    \A i \in 1 .. Len(s) : Good(s[i], l, k, done, calling)

Reading(l) == step[l] \in {"match", "call", "loop"}

\* No other launch reads, or waits for an answer.
Apart(l) ==
    \A m \in Launch : m # l =>
        /\ step[m] \notin Scope!Reads /\ job[m] \notin {"asked", "queued"}
        /\ ~ (mode[m] = "activate" /\ job[m] = "none")

\* What has not happened yet to a launch before its call.
NotYet(l) ==
    /\ step[l] \in {"idle", "forked", "match"} => job[l] = "none"
    /\ step[l] \in {"idle", "forked"} => mail[l] = <<>>
    /\ mode[l] = "activate" => step[l] \in {"activate", "ended"}

OwnScope(l) ==
    /\ Reading(l) =>
          /\ Apart(l) /\ serial[l] > 0
          /\ AllGood(wire, l, serial[l], job[l] = "done", step[l] = "call")
          /\ AllGood(mail[l], l, serial[l], job[l] = "done", step[l] = "call")
    /\ step[l] = "loop" => waits[l] = l
    /\ step[l] \in {"exec", "running"} => job[l] = "done" /\ waits[l] = l

ScopeInv ==
    /\ Scope!TypeOK
    /\ \A l \in Launch : NotYet(l)
    /\ \A l \in Launch : l \notin shared => OwnScope(l)

LEMMA ScopeInit == Scope!Init => ScopeInv
BY ScopeInitTypes DEF Scope!Init, ScopeInv, NotYet, OwnScope, Reading

\* Good messages stay good when a job is done, and when a call is answered or the
\* next one made.
LEMMA GoodStays ==
    ASSUME NEW s \in Seq(Scope!Message), NEW l, NEW k \in Nat, NEW j \in Nat, k <= j,
           NEW done, NEW done1, done => done1, NEW calling, NEW calling1,
           calling1 => (calling /\ k = j) \/ k < j, AllGood(s, l, k, done, calling)
    PROVE  AllGood(s, l, j, done1, calling1)
<1> SUFFICES ASSUME NEW i \in 1 .. Len(s) PROVE Good(s[i], l, j, done1, calling1)
  BY DEF AllGood
<1>1. s[i] \in Scope!Message
  BY ElementOfSeq
<1>2. s[i].to \in Nat
  BY <1>1 DEF Scope!Message
<1>3. Good(s[i], l, k, done, calling)
  BY DEF AllGood
<1> QED BY <1>2, <1>3 DEF Good

LEMMA GoodAppend ==
    ASSUME NEW s \in Seq(Scope!Message), NEW l, NEW k, NEW done, NEW calling,
           AllGood(s, l, k, done, calling), NEW x \in Scope!Message, Good(x, l, k, done, calling)
    PROVE  AllGood(Append(s, x), l, k, done, calling)
<1>1. Len(Append(s, x)) = Len(s) + 1 /\ Len(s) \in Nat
  BY LenProperties
<1>2. \A i \in 1 .. Len(s) + 1 : Append(s, x)[i] = IF i <= Len(s) THEN s[i] ELSE x
  BY <1>1
<1> QED BY <1>1, <1>2 DEF AllGood

LEMMA GoodParts ==
    ASSUME NEW s \in Seq(Scope!Message), NEW l, NEW k, NEW done, NEW calling,
           AllGood(s, l, k, done, calling),
           NEW a \in 1 .. Len(s) + 1, NEW b \in 0 .. Len(s)
    PROVE  AllGood(SubSeq(s, a, b), l, k, done, calling)
<1>1. Len(s) \in Nat
  BY LenProperties
<1>2. /\ Len(SubSeq(s, a, b)) = IF a <= b THEN b - a + 1 ELSE 0
      /\ \A i \in 1 .. b - a + 1 : SubSeq(s, a, b)[i] = s[a + i - 1]
  BY <1>1, SubSeqProperties
<1>3. \A i \in 1 .. Len(SubSeq(s, a, b)) :
         a + i - 1 \in 1 .. Len(s) /\ SubSeq(s, a, b)[i] = s[a + i - 1]
  BY <1>1, <1>2
<1> QED BY <1>3 DEF AllGood

LEMMA GoodConcat ==
    ASSUME NEW s \in Seq(Scope!Message), NEW t \in Seq(Scope!Message),
           NEW l, NEW k, NEW done, NEW calling,
           AllGood(s, l, k, done, calling), AllGood(t, l, k, done, calling)
    PROVE  AllGood(s \o t, l, k, done, calling)
<1>1. /\ Len(s \o t) = Len(s) + Len(t) /\ Len(s) \in Nat /\ Len(t) \in Nat
      /\ \A i \in 1 .. Len(s) + Len(t) :
           (s \o t)[i] = IF i <= Len(s) THEN s[i] ELSE t[i - Len(s)]
  BY LenProperties, ConcatProperties
<1>2. \A i \in 1 .. Len(s) + Len(t) : i > Len(s) => i - Len(s) \in 1 .. Len(t)
  BY <1>1
<1> QED BY <1>1, <1>2 DEF AllGood

LEMMA ScopeNotYet ==
    ASSUME Scope!TypeOK, \A l \in Launch : NotYet(l), Scope!Next
    PROVE  \A l \in Launch : NotYet(l)'
<1> USE DEF Scope!TypeOK, NotYet, Scope!Goto, Scope!Tell
<1>1. ASSUME Scope!OtherJob PROVE \A k \in Launch : NotYet(k)'
  BY <1>1 DEF Scope!OtherJob
<1>2. ASSUME NEW l \in Launch, Scope!Begin(l) PROVE \A k \in Launch : NotYet(k)'
  BY <1>2 DEF Scope!Begin, Scope!try_activate, Scope!Forks
<1>3. ASSUME NEW l \in Launch, Scope!AddMatch(l) PROVE \A k \in Launch : NotYet(k)'
  BY <1>3 DEF Scope!AddMatch
<1>4. ASSUME NEW l \in Launch, Scope!Activated(l) PROVE \A k \in Launch : NotYet(k)'
  BY <1>4 DEF Scope!Activated
<1>5. ASSUME NEW l \in Launch, Scope!StartJob(l) PROVE \A k \in Launch : NotYet(k)'
  BY <1>5 DEF Scope!StartJob
<1>6. ASSUME NEW l \in Launch, Scope!EndJob(l) PROVE \A k \in Launch : NotYet(k)'
  BY <1>6 DEF Scope!EndJob
<1>7. ASSUME NEW l \in Launch, Scope!Read(l) PROVE \A k \in Launch : NotYet(k)'
  BY <1>7 DEF Scope!Read
<1>8. ASSUME NEW l \in Launch, Scope!TakeReply(l) PROVE \A k \in Launch : NotYet(k)'
  BY <1>8 DEF Scope!TakeReply, Scope!End
<1>9. ASSUME NEW l \in Launch, Scope!Timeout(l) PROVE \A k \in Launch : NotYet(k)'
  BY <1>9 DEF Scope!Timeout, Scope!End, Scope!bus
<1>10. ASSUME NEW l \in Launch, Scope!Turn(l) PROVE \A k \in Launch : NotYet(k)'
  <2>1. UNCHANGED <<mode, job>> /\ step[l] = "loop"
    BY <1>10 DEF Scope!Turn
  <2>2. ASSUME NEW m, Scope!Look(l, m)
        PROVE  /\ \A k \in Launch : k # l => step'[k] = step[k]
               /\ step'[l] \in {"loop", "exec", "ended"}
    BY <2>1, <2>2 DEF Scope!Look, Scope!End
  <2>3. /\ \A k \in Launch : k # l => step'[k] = step[k]
        /\ step'[l] \in {"loop", "exec", "ended"}
    BY <1>10, <2>1, <2>2 DEF Scope!Turn
  <2>4. \A k \in Launch : k # l => mail'[k] = mail[k]
    BY <1>10 DEF Scope!Turn
  <2> QED BY <2>1, <2>3, <2>4
<1>11. ASSUME NEW l \in Launch, Scope!Exec(l) PROVE \A k \in Launch : NotYet(k)'
  BY <1>11 DEF Scope!Exec, Scope!End, Scope!bus
<1>12. ASSUME NEW l \in Launch, Scope!Finish(l) PROVE \A k \in Launch : NotYet(k)'
  BY <1>12 DEF Scope!Finish, Scope!bus
<1> HIDE DEF Scope!TypeOK, NotYet, Scope!Goto, Scope!Tell
<1> QED BY <1>1, <1>2, <1>3, <1>4, <1>5, <1>6, <1>7, <1>8, <1>9, <1>10, <1>11, <1>12
        DEF Scope!Next

\* The step of launch l leaves launch k with its own scope.
LEMMA OthersKeep ==
    ASSUME Scope!TypeOK, NEW k \in Launch, OwnScope(k), k \notin shared', NEW l \in Launch, l # k,
           \/ Scope!Begin(l) \/ Scope!AddMatch(l) \/ Scope!Activated(l) \/ Scope!StartJob(l)
           \/ Scope!EndJob(l) \/ Scope!Read(l) \/ Scope!TakeReply(l) \/ Scope!Timeout(l)
           \/ Scope!Turn(l) \/ Scope!Exec(l) \/ Scope!Finish(l)
    PROVE  OwnScope(k)'
<1> USE DEF Scope!Goto, Scope!Tell
<1>1. /\ step \in [Launch -> Scope!Step] /\ job \in [Launch -> {"none", "asked", "queued", "done", "failed"}]
      /\ mode \in [Launch -> {"none", "activate", "blocking", "detached"}]
      /\ mail \in [Launch -> Seq(Scope!Message)] /\ serial \in [Launch -> Nat]
      /\ waits \in [Launch -> Launch \cup {None}]
  BY DEF Scope!TypeOK
<1>2. ASSUME NEW m, Scope!Look(l, m) PROVE step'[k] = step[k]
  BY <1>1, <1>2 DEF Scope!Look, Scope!End
<1>3. /\ step'[k] = step[k] /\ job'[k] = job[k] /\ waits'[k] = waits[k]
      /\ serial'[k] = serial[k] /\ mail'[k] = mail[k]
  <2>1. CASE Scope!Turn(l)
    BY <1>1, <1>2, <2>1 DEF Scope!Turn
  <2>2. CASE Scope!TakeReply(l)
    BY <1>1, <2>2 DEF Scope!TakeReply, Scope!End
  <2>3. CASE Scope!Begin(l) \/ Scope!AddMatch(l)
    BY <1>1, <2>3 DEF Scope!Begin, Scope!try_activate, Scope!Forks, Scope!AddMatch
  <2>4. CASE Scope!Activated(l) \/ Scope!StartJob(l) \/ Scope!EndJob(l) \/ Scope!Read(l)
    BY <1>1, <2>4 DEF Scope!Activated, Scope!StartJob, Scope!EndJob, Scope!Read
  <2>5. CASE Scope!Timeout(l) \/ Scope!Exec(l) \/ Scope!Finish(l)
    BY <1>1, <2>5 DEF Scope!Timeout, Scope!Exec, Scope!Finish, Scope!End, Scope!bus
  <2> QED BY <2>1, <2>2, <2>3, <2>4, <2>5
<1>4. ASSUME Reading(k)
      PROVE  Apart(k)' /\ wire' = wire
  <2>1. /\ Apart(k) /\ step[l] \notin Scope!Reads /\ job[l] \notin {"asked", "queued"}
        /\ ~ (mode[l] = "activate" /\ job[l] = "none")
    BY <1>4 DEF OwnScope, Apart
  <2>2. ~ Scope!Mix(l)
    <3>1. k \in Scope!Company(l)
      BY <1>4 DEF Reading, Scope!Company, Scope!Reads
    <3> QED BY <3>1 DEF Scope!Mix
  <2>3. /\ ~ Scope!AddMatch(l) /\ ~ Scope!Activated(l) /\ ~ Scope!StartJob(l)
        /\ ~ Scope!EndJob(l) /\ ~ Scope!Read(l) /\ ~ Scope!TakeReply(l)
        /\ ~ Scope!Timeout(l) /\ ~ Scope!Turn(l) /\ ~ Scope!try_activate(l)
    BY <2>1, <2>2 DEF Scope!AddMatch, Scope!Activated, Scope!StartJob, Scope!EndJob,
       Scope!Read, Scope!TakeReply, Scope!Timeout, Scope!Turn, Scope!try_activate, Scope!Reads
  <2>4. /\ step'[l] \in {"ended", "forked", "running"}
        /\ mode'[l] = "activate" => mode[l] = "activate"
        /\ \A m \in Launch : m # l => step'[m] = step[m] /\ mode'[m] = mode[m]
        /\ UNCHANGED <<job, wire>>
    BY <1>1, <2>3 DEF Scope!Begin, Scope!Forks, Scope!Exec, Scope!Finish, Scope!End, Scope!bus
  <2> QED BY <2>1, <2>4 DEF Apart, Scope!Reads
<1> QED BY <1>3, <1>4 DEF OwnScope, Reading

LEMMA OtherJobKeeps ==
    ASSUME Scope!TypeOK, NEW k \in Launch, OwnScope(k), Scope!OtherJob
    PROVE  OwnScope(k)'
<1> DEFINE x == [to |-> 0, job |-> None, ok |-> TRUE]
<1>1. /\ wire' = Append(wire, x) /\ UNCHANGED <<step, mode, serial, mail, job, waits>>
  BY DEF Scope!OtherJob
<1>2. x \in Scope!Message /\ x.to = 0 /\ x.job = None /\ wire \in Seq(Scope!Message)
      /\ serial[k] \in Nat
  BY DEF Scope!Message, Scope!TypeOK
<1> HIDE DEF x
<1>3. ASSUME Reading(k)
      PROVE  AllGood(wire', k, serial[k], job[k] = "done", step[k] = "call")
  <2>1. Good(x, k, serial[k], job[k] = "done", step[k] = "call")
    BY <1>2, <1>3, ScopeAssumption DEF Good, OwnScope
  <2>2. AllGood(wire, k, serial[k], job[k] = "done", step[k] = "call")
    BY <1>3 DEF OwnScope
  <2> QED BY <1>1, <1>2, <2>1, <2>2, GoodAppend
<1> QED BY <1>1, <1>3 DEF OwnScope, Reading, Apart

\* A launch that goes to the socket and finds nobody there.
LEMMA AddMatchOwn ==
    ASSUME Scope!TypeOK, NEW k \in Launch, NotYet(k), k \notin shared', Scope!AddMatch(k)
    PROVE  OwnScope(k)'
<1> DEFINE x == [to |-> serial[k] + 1, job |-> None, ok |-> TRUE]
<1>1. /\ step[k] = "forked" /\ Scope!Mix(k) /\ wire' = Append(wire, x)
      /\ serial' = [serial EXCEPT ![k] = @ + 1] /\ step' = [step EXCEPT ![k] = "match"]
      /\ UNCHANGED <<mode, mail, job, waits>>
  BY DEF Scope!AddMatch, Scope!Goto
<1>2. Scope!Company(k) = {} /\ wire = <<>>
  BY <1>1 DEF Scope!Mix
<1>3. /\ serial[k] \in Nat /\ serial'[k] = serial[k] + 1 /\ step'[k] = "match"
      /\ \A m \in Launch : m # k => step'[m] = step[m]
      /\ job'[k] = "none" /\ mail'[k] = <<>>
  BY <1>1 DEF Scope!TypeOK, NotYet
<1>4. Apart(k)'
  BY <1>1, <1>2, <1>3 DEF Apart, Scope!Company
<1>5. wire' = <<x>> /\ Len(<<>>) = 0 /\ Len(<<x>>) = 1 /\ <<x>>[1] = x
  BY <1>1, <1>2, ShortSeqs
<1>6. AllGood(wire', k, serial'[k], FALSE, FALSE)
  BY <1>3, <1>5 DEF AllGood, Good
<1>7. AllGood(mail'[k], k, serial'[k], FALSE, FALSE)
  BY <1>3, <1>5 DEF AllGood
<1>8. /\ AllGood(wire', k, serial'[k], job'[k] = "done", step'[k] = "call")
      /\ AllGood(mail'[k], k, serial'[k], job'[k] = "done", step'[k] = "call")
  BY <1>3, <1>6, <1>7
<1> QED BY <1>3, <1>4, <1>8 DEF OwnScope, Reading

LEMMA JobOwn ==
    ASSUME Scope!TypeOK, NEW k \in Launch, OwnScope(k), NotYet(k),
           Scope!StartJob(k) \/ Scope!EndJob(k)
    PROVE  OwnScope(k)'
<1>1. /\ step \in [Launch -> Scope!Step] /\ serial \in [Launch -> Nat]
      /\ job \in [Launch -> {"none", "asked", "queued", "done", "failed"}]
      /\ wire \in Seq(Scope!Message)
  BY DEF Scope!TypeOK
<1>2. PICK t \in {0, serial[k]}, ok \in BOOLEAN :
         /\ wire' = Append(wire, [to |-> t, job |-> k, ok |-> ok])
         /\ t = serial[k] \/ (ok => job'[k] = "done")
  BY <1>1 DEF Scope!StartJob, Scope!EndJob
<1>3. /\ UNCHANGED <<step, mode, serial, mail, waits>>
      /\ job[k] \in {"asked", "queued"}
      /\ job'[k] \in {"queued", "done", "failed"}
      /\ \A m \in Launch : m # k => job'[m] = job[m]
  BY <1>1 DEF Scope!StartJob, Scope!EndJob
<1>4. step[k] \notin {"exec", "running", "match"}
  BY <1>3 DEF OwnScope, NotYet
<1> DEFINE x == [to |-> t, job |-> k, ok |-> ok]
           done == job[k] = "done"
           done1 == job'[k] = "done"
           calling == step[k] = "call"
<1>5. x \in Scope!Message /\ x.to = t /\ x.job = k /\ x.ok = ok /\ ~ done
  BY <1>1, <1>3 DEF Scope!Message
<1>6. ASSUME Reading(k)
      PROVE  /\ Apart(k)'
             /\ AllGood(wire', k, serial[k], done1, calling)
             /\ AllGood(mail[k], k, serial[k], done1, calling)
  <2>1. /\ Apart(k) /\ serial[k] > 0 /\ serial[k] \in Nat /\ mail[k] \in Seq(Scope!Message)
        /\ AllGood(wire, k, serial[k], done, calling)
        /\ AllGood(mail[k], k, serial[k], done, calling)
    BY <1>1, <1>6 DEF OwnScope, Scope!TypeOK
  <2>2. Apart(k)'
    BY <1>3, <2>1 DEF Apart
  <2> HIDE DEF x, done, done1, calling
  <2>3. /\ AllGood(wire, k, serial[k], done1, calling)
        /\ AllGood(mail[k], k, serial[k], done1, calling)
    BY <1>1, <1>5, <2>1, GoodStays
  <2>4. Good(x, k, serial[k], done1, calling)
    BY <1>2, <1>5, <2>1 DEF Good, done1
  <2>5. wire' = Append(wire, x)
    BY <1>2 DEF x
  <2> QED BY <1>1, <1>5, <2>2, <2>3, <2>4, <2>5, GoodAppend
<1> QED BY <1>3, <1>4, <1>6 DEF OwnScope, Reading

LEMMA ReadOwn ==
    ASSUME Scope!TypeOK, NEW k \in Launch, OwnScope(k), Scope!Read(k)
    PROVE  OwnScope(k)'
<1> DEFINE done == job[k] = "done"
           calling == step[k] = "call"
<1>1. PICK n \in 1 .. Len(wire) :
         /\ mail' = [mail EXCEPT ![k] = @ \o SubSeq(wire, 1, n)]
         /\ wire' = SubSeq(wire, n + 1, Len(wire))
  BY DEF Scope!Read
<1>2. UNCHANGED <<step, mode, serial, job, waits>>
  BY DEF Scope!Read
<1>3. /\ wire \in Seq(Scope!Message) /\ mail[k] \in Seq(Scope!Message) /\ Len(wire) \in Nat
      /\ mail'[k] = mail[k] \o SubSeq(wire, 1, n)
  BY <1>1, LenProperties DEF Scope!TypeOK
<1>4. ASSUME Reading(k)
      PROVE  /\ AllGood(wire', k, serial[k], done, calling)
             /\ AllGood(mail'[k], k, serial[k], done, calling)
  <2>1. /\ AllGood(wire, k, serial[k], done, calling)
        /\ AllGood(mail[k], k, serial[k], done, calling)
    BY <1>4 DEF OwnScope
  <2>2. /\ n + 1 \in 1 .. Len(wire) + 1 /\ Len(wire) \in 0 .. Len(wire)
        /\ 1 \in 1 .. Len(wire) + 1 /\ n \in 0 .. Len(wire)
    BY <1>3
  <2> HIDE DEF done, calling
  <2>3. /\ AllGood(SubSeq(wire, 1, n), k, serial[k], done, calling)
        /\ AllGood(wire', k, serial[k], done, calling)
    BY <1>1, <1>3, <2>1, <2>2, GoodParts
  <2>4. SubSeq(wire, 1, n) \in Seq(Scope!Message)
    BY <1>3, MessageTypes
  <2> QED BY <1>3, <2>1, <2>3, <2>4, GoodConcat
<1> QED BY <1>2, <1>4 DEF OwnScope, Reading, Apart

LEMMA TakeReplyOwn ==
    ASSUME Scope!TypeOK, NEW k \in Launch, OwnScope(k), NotYet(k), Scope!TakeReply(k)
    PROVE  OwnScope(k)'
<1> USE DEF Scope!Goto, Scope!Tell
<1> DEFINE m(i) == mail[k][i]
           done == job[k] = "done"
<1>1. /\ step \in [Launch -> Scope!Step] /\ serial \in [Launch -> Nat]
      /\ job \in [Launch -> {"none", "asked", "queued", "done", "failed"}]
      /\ waits \in [Launch -> Launch \cup {None}]
      /\ wire \in Seq(Scope!Message) /\ mail[k] \in Seq(Scope!Message) /\ Len(mail[k]) \in Nat
      /\ UNCHANGED <<mode, wire>> /\ step[k] \in {"activate", "match", "call"}
  BY LenProperties DEF Scope!TypeOK, Scope!TakeReply
<1>2. PICK i \in 1 .. Len(mail[k]) :
         /\ m(i).to = serial[k]
         /\ mail' = [mail EXCEPT ![k] = SubSeq(@, 1, i - 1) \o SubSeq(@, i + 1, Len(@))]
         /\ \/ /\ step[k] = "activate" /\ Scope!Goto(k, "ended")
            \/ /\ step[k] = "match" /\ Scope!Goto(k, "call")
               /\ serial' = [serial EXCEPT ![k] = @ + 1]
               /\ job' = [job EXCEPT ![k] = "asked"]
               /\ UNCHANGED waits
            \/ /\ step[k] = "call" /\ m(i).job # None
               /\ Scope!Goto(k, "loop")
               /\ waits' = [waits EXCEPT ![k] = m(i).job]
               /\ UNCHANGED <<serial, job>>
            \/ Scope!Goto(k, "ended")
  BY DEF Scope!TakeReply, Scope!IsReply, Scope!End
<1>3. /\ mail'[k] = SubSeq(mail[k], 1, i - 1) \o SubSeq(mail[k], i + 1, Len(mail[k]))
      /\ \A l \in Launch : l # k => step'[l] = step[l]
  BY <1>1, <1>2 DEF Scope!TypeOK
<1>4. ASSUME NEW calling, AllGood(mail[k], k, serial[k], done, calling)
      PROVE  AllGood(mail'[k], k, serial[k], done, calling)
  <2>1. /\ 1 \in 1 .. Len(mail[k]) + 1 /\ i - 1 \in 0 .. Len(mail[k])
        /\ i + 1 \in 1 .. Len(mail[k]) + 1 /\ Len(mail[k]) \in 0 .. Len(mail[k])
    BY <1>1
  <2> HIDE DEF done
  <2>2. /\ AllGood(SubSeq(mail[k], 1, i - 1), k, serial[k], done, calling)
        /\ AllGood(SubSeq(mail[k], i + 1, Len(mail[k])), k, serial[k], done, calling)
    BY <1>1, <1>4, <2>1, GoodParts
  <2>3. /\ SubSeq(mail[k], 1, i - 1) \in Seq(Scope!Message)
        /\ SubSeq(mail[k], i + 1, Len(mail[k])) \in Seq(Scope!Message)
    BY <1>1, MessageTypes
  <2> QED BY <1>3, <2>2, <2>3, GoodConcat
<1>5. mail'[k] \in Seq(Scope!Message)
  <2>1. /\ SubSeq(mail[k], 1, i - 1) \in Seq(Scope!Message)
        /\ SubSeq(mail[k], i + 1, Len(mail[k])) \in Seq(Scope!Message)
    BY <1>1, MessageTypes
  <2> QED BY <1>3, <2>1, ConcatProperties
<1>6. CASE Scope!Goto(k, "ended")
  <2>1. step'[k] = "ended"
    BY <1>1, <1>6
  <2> QED BY <2>1 DEF OwnScope, Reading
<1>7. CASE /\ step[k] = "match" /\ Scope!Goto(k, "call")
           /\ serial' = [serial EXCEPT ![k] = @ + 1]
           /\ job' = [job EXCEPT ![k] = "asked"]
           /\ UNCHANGED waits
  <2>1. /\ Apart(k) /\ serial[k] \in Nat /\ serial[k] > 0
        /\ AllGood(wire, k, serial[k], FALSE, FALSE)
        /\ AllGood(mail[k], k, serial[k], FALSE, FALSE) /\ ~ done
    <3>1. (job[k] = "done") = FALSE /\ (step[k] = "call") = FALSE
      BY <1>7 DEF NotYet
    <3> QED BY <1>1, <1>7, <3>1 DEF OwnScope, Reading
  <2>2. serial'[k] = serial[k] + 1 /\ step'[k] = "call" /\ job'[k] = "asked"
        /\ \A l \in Launch : l # k => job'[l] = job[l]
    BY <1>1, <1>7
  <2>3. Apart(k)'
    BY <1>1, <1>3, <2>1, <2>2 DEF Apart
  <2>4. AllGood(mail'[k], k, serial[k], FALSE, FALSE)
    <3>1. done = FALSE
      BY <2>1
    <3> QED BY <1>4, <2>1, <3>1
  <2>5. /\ AllGood(wire, k, serial'[k], FALSE, TRUE)
        /\ AllGood(mail'[k], k, serial'[k], FALSE, TRUE)
    <3>1. serial'[k] \in Nat /\ serial[k] <= serial'[k] /\ serial[k] < serial'[k]
      BY <2>1, <2>2
    <3> QED BY <1>1, <1>5, <2>1, <2>4, <3>1, GoodStays
  <2>6. (job'[k] = "done") = FALSE /\ (step'[k] = "call") = TRUE
    BY <2>2
  <2>7. /\ AllGood(wire', k, serial'[k], job'[k] = "done", step'[k] = "call")
        /\ AllGood(mail'[k], k, serial'[k], job'[k] = "done", step'[k] = "call")
    BY <1>1, <2>5, <2>6
  <2>8. serial'[k] > 0
    BY <2>1, <2>2
  <2> QED BY <2>2, <2>3, <2>7, <2>8 DEF OwnScope, Reading
<1>8. CASE /\ step[k] = "call" /\ m(i).job # None
           /\ Scope!Goto(k, "loop")
           /\ waits' = [waits EXCEPT ![k] = m(i).job]
           /\ UNCHANGED <<serial, job>>
  <2>1. /\ Apart(k) /\ serial[k] \in Nat /\ serial[k] > 0
        /\ AllGood(wire, k, serial[k], done, TRUE) /\ AllGood(mail[k], k, serial[k], done, TRUE)
    <3>1. (step[k] = "call") = TRUE
      BY <1>8
    <3> QED BY <1>1, <1>8, <3>1 DEF OwnScope, Reading
  <2>2. m(i).job = k
    BY <1>2, <1>8, <2>1 DEF AllGood, Good
  <2>3. step'[k] = "loop" /\ waits'[k] = k
    BY <1>1, <1>8, <2>2
  <2>4. AllGood(mail'[k], k, serial[k], done, TRUE)
    BY <1>4, <2>1
  <2>5. /\ AllGood(wire, k, serial[k], done, FALSE)
        /\ AllGood(mail'[k], k, serial[k], done, FALSE)
    <3> HIDE DEF done
    <3>1. serial[k] <= serial[k]
      BY <2>1
    <3> QED BY <1>1, <1>5, <2>1, <2>4, <3>1, GoodStays
  <2>6. Apart(k)'
    BY <1>1, <1>3, <1>8, <2>1 DEF Apart
  <2>7. (step'[k] = "call") = FALSE
    BY <2>3
  <2> QED BY <1>1, <1>8, <2>1, <2>3, <2>5, <2>6, <2>7 DEF OwnScope, Reading
<1> QED BY <1>2, <1>6, <1>7, <1>8

\* What ends the loop of a launch with good messages is the removal of its own job.
LEMMA LookOwn ==
    ASSUME Scope!TypeOK, NEW k \in Launch, OwnScope(k), step[k] = "loop",
           UNCHANGED <<mode, serial, job, waits>>, NEW x, Scope!Look(k, x),
           Good(x, k, serial[k], job[k] = "done", FALSE),
           AllGood(wire', k, serial[k], job[k] = "done", FALSE),
           AllGood(mail'[k], k, serial[k], job[k] = "done", FALSE)
    PROVE  OwnScope(k)'
<1>1. /\ Apart(k) /\ serial[k] > 0 /\ waits[k] = k /\ step \in [Launch -> Scope!Step]
  BY DEF OwnScope, Reading, Scope!TypeOK
<1>2. CASE Scope!IsOwn(k, x)
  <2>1. CASE x.ok /\ Scope!Goto(k, "exec")
    <3>1. step'[k] = "exec" /\ job[k] = "done"
      BY <1>1, <1>2, <2>1 DEF Scope!Goto, Scope!IsOwn, Good
    <3> QED BY <1>1, <3>1 DEF OwnScope, Reading
  <2>2. CASE Scope!End(k)
    <3>1. step'[k] = "ended"
      BY <1>1, <2>2 DEF Scope!End, Scope!Goto
    <3> QED BY <3>1 DEF OwnScope, Reading
  <2> QED BY <1>2, <2>1, <2>2 DEF Scope!Look
<1>3. CASE UNCHANGED step
  <2>1. (step[k] = "call") = FALSE /\ (step'[k] = "call") = FALSE
    BY <1>3
  <2> QED BY <1>1, <1>3, <2>1 DEF OwnScope, Reading, Apart
<1> QED BY <1>2, <1>3 DEF Scope!Look

LEMMA TurnOwn ==
    ASSUME Scope!TypeOK, NEW k \in Launch, OwnScope(k), Scope!Turn(k)
    PROVE  OwnScope(k)'
<1> DEFINE done == job[k] = "done"
           mine == mail[k]
<1>1. step[k] = "loop" /\ UNCHANGED <<mode, serial, job, waits>>
  BY DEF Scope!Turn
<1>2. /\ wire \in Seq(Scope!Message) /\ Len(wire) \in Nat
      /\ mine \in Seq(Scope!Message) /\ Len(mine) \in Nat
  BY LenProperties DEF Scope!TypeOK
<1>3. /\ AllGood(wire, k, serial[k], done, FALSE) /\ AllGood(mine, k, serial[k], done, FALSE)
  <2>1. (step[k] = "call") = FALSE
    BY <1>1
  <2> QED BY <1>1, <2>1 DEF OwnScope, Reading
<1>4. ASSUME NEW n \in 1 .. Len(wire), mail' = [mail EXCEPT ![k] = SubSeq(wire, 2, n)],
             wire' = SubSeq(wire, n + 1, Len(wire)), Scope!Look(k, wire[1])
      PROVE  OwnScope(k)'
  <2>1. /\ 2 \in 1 .. Len(wire) + 1 /\ n \in 0 .. Len(wire)
        /\ n + 1 \in 1 .. Len(wire) + 1 /\ Len(wire) \in 0 .. Len(wire) /\ 1 \in 1 .. Len(wire)
    BY <1>2
  <2>2. mail'[k] = SubSeq(wire, 2, n)
    BY <1>4 DEF Scope!TypeOK
  <2>3. Good(wire[1], k, serial[k], done, FALSE)
    BY <1>3, <2>1 DEF AllGood
  <2> HIDE DEF done
  <2>4. /\ AllGood(SubSeq(wire, 2, n), k, serial[k], done, FALSE)
        /\ AllGood(SubSeq(wire, n + 1, Len(wire)), k, serial[k], done, FALSE)
    BY <1>2, <1>3, <2>1, GoodParts
  <2> QED BY <1>1, <1>4, <2>2, <2>3, <2>4, LookOwn DEF done
<1>5. ASSUME mine # <<>>, UNCHANGED wire,
             \/ /\ Len(mine) = 1 /\ mail' = [mail EXCEPT ![k] = <<>>] /\ UNCHANGED step
             \/ /\ Len(mine) > 1 /\ mail' = [mail EXCEPT ![k] = SubSeq(@, 3, Len(@))]
                /\ Scope!Look(k, mine[2])
      PROVE  OwnScope(k)'
  <2>1. CASE Len(mine) = 1 /\ mail' = [mail EXCEPT ![k] = <<>>] /\ UNCHANGED step
    <3>1. mail'[k] = <<>> /\ Len(<<>>) = 0
      BY <2>1 DEF Scope!TypeOK
    <3>2. AllGood(mail'[k], k, serial[k], done, FALSE)
      BY <3>1 DEF AllGood
    <3>3. (step[k] = "call") = FALSE
      BY <1>1
    <3> QED BY <1>1, <1>3, <1>5, <2>1, <3>2, <3>3 DEF OwnScope, Reading, Apart
  <2>2. CASE /\ Len(mine) > 1 /\ mail' = [mail EXCEPT ![k] = SubSeq(@, 3, Len(@))]
             /\ Scope!Look(k, mine[2])
    <3>1. mail'[k] = SubSeq(mine, 3, Len(mine))
      BY <2>2 DEF Scope!TypeOK
    <3>2. /\ 3 \in 1 .. Len(mine) + 1 /\ Len(mine) \in 0 .. Len(mine) /\ 2 \in 1 .. Len(mine)
      BY <1>2, <2>2
    <3>3. Good(mine[2], k, serial[k], done, FALSE)
      BY <1>3, <3>2 DEF AllGood
    <3> HIDE DEF done, mine
    <3>4. AllGood(SubSeq(mine, 3, Len(mine)), k, serial[k], done, FALSE)
      BY <1>2, <1>3, <3>2, GoodParts
    <3> QED BY <1>1, <1>3, <1>5, <2>2, <3>1, <3>3, <3>4, LookOwn DEF done
  <2> QED BY <1>5, <2>1, <2>2
<1> QED BY <1>4, <1>5 DEF Scope!Turn

LEMMA OwnKeeps ==
    ASSUME Scope!TypeOK, NEW k \in Launch, OwnScope(k), NotYet(k), k \notin shared',
           \/ Scope!Begin(k) \/ Scope!AddMatch(k) \/ Scope!Activated(k) \/ Scope!StartJob(k)
           \/ Scope!EndJob(k) \/ Scope!Read(k) \/ Scope!TakeReply(k) \/ Scope!Timeout(k)
           \/ Scope!Turn(k) \/ Scope!Exec(k) \/ Scope!Finish(k)
    PROVE  OwnScope(k)'
<1> USE DEF Scope!Goto, Scope!Tell
<1>1. step \in [Launch -> Scope!Step]
  BY DEF Scope!TypeOK
<1>2. ASSUME Scope!Begin(k) \/ Scope!Timeout(k) \/ Scope!Finish(k) PROVE OwnScope(k)'
  <2>1. step'[k] \in {"ended", "activate", "forked"}
    BY <1>1, <1>2 DEF Scope!Begin, Scope!try_activate, Scope!Forks, Scope!Timeout, Scope!End,
       Scope!Finish
  <2> QED BY <2>1 DEF OwnScope, Reading
<1>3. ASSUME Scope!Activated(k) PROVE OwnScope(k)'
  <2>1. step'[k] \in {"ended", "activate"}
    BY <1>3 DEF Scope!Activated, NotYet
  <2> QED BY <2>1 DEF OwnScope, Reading
<1>4. ASSUME Scope!Exec(k) PROVE OwnScope(k)'
  <2>1. step[k] = "exec" /\ step'[k] \in {"running", "ended"} /\ UNCHANGED <<job, waits>>
    BY <1>1, <1>4 DEF Scope!Exec, Scope!End, Scope!bus
  <2> QED BY <2>1 DEF OwnScope, Reading
<1> HIDE DEF Scope!Goto, Scope!Tell
<1> QED BY <1>2, <1>3, <1>4, AddMatchOwn, JobOwn, ReadOwn, TakeReplyOwn, TurnOwn

LEMMA ScopeNext == ScopeInv /\ [Scope!Next]_(Scope!vars) => ScopeInv'
<1> SUFFICES ASSUME ScopeInv, [Scope!Next]_(Scope!vars) PROVE ScopeInv'
  OBVIOUS
<1>1. CASE UNCHANGED Scope!vars
  BY <1>1 DEF Scope!vars, ScopeInv, Scope!TypeOK, NotYet, OwnScope, Reading, Apart
<1>2. CASE Scope!Next
  <2>1. Scope!TypeOK' /\ \A k \in Launch : NotYet(k)'
    BY <1>2, ScopeTypes, ScopeNotYet DEF ScopeInv
  <2>2. ASSUME NEW k \in Launch, k \notin shared' PROVE OwnScope(k)'
    <3>1. shared \subseteq shared'
      BY <1>2 DEF Scope!Next, Scope!OtherJob, Scope!Begin, Scope!try_activate, Scope!Forks,
         Scope!AddMatch, Scope!Mix, Scope!Activated, Scope!StartJob, Scope!EndJob, Scope!Read,
         Scope!TakeReply, Scope!Timeout, Scope!Turn, Scope!Exec, Scope!Finish, Scope!bus
    <3>2. Scope!TypeOK /\ OwnScope(k) /\ NotYet(k)
      BY <2>2, <3>1 DEF ScopeInv
    <3>3. CASE Scope!OtherJob
      BY <3>2, <3>3, OtherJobKeeps
    <3>4. ASSUME NEW l \in Launch,
             \/ Scope!Begin(l) \/ Scope!AddMatch(l) \/ Scope!Activated(l) \/ Scope!StartJob(l)
             \/ Scope!EndJob(l) \/ Scope!Read(l) \/ Scope!TakeReply(l) \/ Scope!Timeout(l)
             \/ Scope!Turn(l) \/ Scope!Exec(l) \/ Scope!Finish(l)
          PROVE  OwnScope(k)'
      <4>1. CASE l = k
        BY <2>2, <3>2, <3>4, <4>1, OwnKeeps
      <4>2. CASE l # k
        BY <2>2, <3>2, <3>4, <4>2, OthersKeep
      <4> QED BY <4>1, <4>2
    <3> QED BY <1>2, <3>3, <3>4 DEF Scope!Next
  <2> QED BY <2>1, <2>2 DEF ScopeInv
<1> QED BY <1>1, <1>2

\* Whatever is launched at the same time, fails or times out: a launch that never
\* shared the socket with another executes its program in a scope of its own.
THEOREM OwnScopeWhenAlone == Scope!Spec => []ScopedWhenAlone
<1>1. ScopeInv => ScopedWhenAlone
  BY DEF ScopeInv, OwnScope, ScopedWhenAlone, Scope!ScopedWhenAlone, Scope!Alone
<1> QED BY ScopeInit, ScopeNext, <1>1, PTL DEF Scope!Spec

-----------------------------------------------------------------------------
(* Execution of a match.                                                   *)

\* The window starts thawed.
LEMMA ExecutionInit == ExecInit => ExecutionInv
<1> SUFFICES ASSUME ExecInit PROVE ExecutionInv
  OBVIOUS
<1>1. ExecTypes
  <2>1. idle \in Seq(Outcome) /\ classes \subseteq {"executing", "execute-error"}
    BY DEF ExecInit
  <2>2. state \in [Job -> JobState]
    BY DEF ExecInit, JobState
  <2>3. QED
    BY <2>1, <2>2 DEF ExecInit, ExecTypes
<1>2. FrozenTogether /\ ErrorShownWhileTimed /\ SomeoneThaws
  BY DEF ExecInit, FrozenTogether, ErrorShownWhileTimed, SomeoneThaws
<1>3. QED
  BY <1>1, <1>2 DEF ExecutionInv

\* Thawing restores the agreement from any state that has it.
LEMMA RemoveIsExecutingThaws ==
    ASSUME ExecTypes, FrozenTogether,
           NEW cs, cs \in {classes, classes \cup {"execute-error"}},
           RemoveIsExecuting(cs)
    PROVE  /\ is_executing' = FALSE /\ can_target' = TRUE /\ execute_timeout' = FALSE
           /\ classes' = cs \ {"executing"}
           /\ classes' \subseteq {"executing", "execute-error"}
           /\ FrozenTogether'
           /\ SomeoneThaws'
<1>1. is_executing' = FALSE /\ can_target' = TRUE /\ execute_timeout' = FALSE
  BY DEF RemoveIsExecuting
<1>2. classes' = cs \ {"executing"}
  <2>1. CASE execute_timeout
    BY <2>1 DEF RemoveIsExecuting, FrozenTogether, ExecTypes
  <2>2. CASE ~ execute_timeout
    BY <2>2 DEF RemoveIsExecuting
  <2>3. QED
    BY <2>1, <2>2
<1>3. classes' \subseteq {"executing", "execute-error"}
  BY <1>2 DEF ExecTypes
<1>4. FrozenTogether' /\ SomeoneThaws'
  BY <1>1, <1>2 DEF FrozenTogether, SomeoneThaws
<1>5. QED
  BY <1>1, <1>2, <1>3, <1>4

\* The callbacks at the head of the queue leave a queue of callbacks.
LEMMA TailTyped ==
    ASSUME idle \in Seq(Outcome), idle # <<>>
    PROVE  Tail(idle) \in Seq(Outcome)
  OBVIOUS

\* Every step keeps the invariant.
LEMMA ExecutionNext == ExecutionInv /\ [ExecNext]_execVars => ExecutionInv'
<1> SUFFICES ASSUME ExecutionInv, [ExecNext]_execVars PROVE ExecutionInv'
  OBVIOUS
<1> USE DEF ExecutionInv
<1>1. ASSUME NEW j \in Job, Execute(j) PROVE ExecutionInv'
  <2>1. ~ execute_timeout /\ "executing" \notin classes
    BY <1>1 DEF Execute, FrozenTogether, ExecTypes
  <2>2. ExecTypes'
    BY <1>1, <2>1 DEF Execute, ExecTypes, JobState
  <2>3. FrozenTogether' /\ ErrorShownWhileTimed'
    BY <1>1, <2>1 DEF Execute, FrozenTogether, ErrorShownWhileTimed
  <2>4. SomeoneThaws'
    BY <1>1 DEF Execute, SomeoneThaws, ExecTypes
  <2>5. QED
    BY <2>2, <2>3, <2>4
<1>2. ASSUME NEW j \in Job, Finish(j) PROVE ExecutionInv'
  <2>1. PICK o \in Outcome :
          state' = [state EXCEPT ![j] = IF is_executing THEN o ELSE "over"]
    BY <1>2 DEF Finish
  <2>2. ExecTypes'
    BY <1>2, <2>1 DEF Finish, ExecTypes, JobState
  <2>3. FrozenTogether' /\ ErrorShownWhileTimed'
    BY <1>2 DEF Finish, FrozenTogether, ErrorShownWhileTimed
  <2>4. SomeoneThaws'
    BY <1>2, <2>1 DEF Finish, SomeoneThaws, ExecTypes
  <2>5. QED
    BY <2>2, <2>3, <2>4
<1>3. ASSUME NEW j \in Job, Post(j) PROVE ExecutionInv'
  <2>1. idle' \in Seq(Outcome) /\ idle' # <<>>
    BY <1>3 DEF Post, ExecTypes
  <2>2. ExecTypes'
    BY <1>3, <2>1 DEF Post, ExecTypes, JobState
  <2>3. FrozenTogether' /\ ErrorShownWhileTimed' /\ SomeoneThaws'
    BY <1>3, <2>1 DEF Post, FrozenTogether, ErrorShownWhileTimed, SomeoneThaws
  <2>4. QED
    BY <2>2, <2>3
<1>4. CASE ExecuteTimeout
  BY <1>4 DEF ExecuteTimeout, ExecTypes, FrozenTogether, ErrorShownWhileTimed, SomeoneThaws
<1>5. CASE ErrorTimeout
  BY <1>5 DEF ErrorTimeout, ExecTypes, FrozenTogether, ErrorShownWhileTimed, SomeoneThaws
<1>6. CASE Hide
  BY <1>6, RemoveIsExecutingThaws DEF Hide, ExecTypes, ErrorShownWhileTimed
<1>7. CASE Show
  BY <1>7 DEF Show, ExecTypes, FrozenTogether, ErrorShownWhileTimed, SomeoneThaws
<1>8. CASE HandleError
  BY <1>8, RemoveIsExecutingThaws, TailTyped DEF HandleError, ExecTypes, ErrorShownWhileTimed
<1>9. CASE LayoutIdle
  BY <1>9, RemoveIsExecutingThaws, TailTyped DEF LayoutIdle, ExecTypes, ErrorShownWhileTimed
<1>10. CASE HideWindow
  BY <1>10, TailTyped
  DEF HideWindow, ExecTypes, FrozenTogether, ErrorShownWhileTimed, SomeoneThaws
<1>11. CASE UNCHANGED execVars
  BY <1>11 DEF execVars, ExecTypes, FrozenTogether, ErrorShownWhileTimed, SomeoneThaws
<1>12. QED
  BY <1>1, <1>2, <1>3, <1>4, <1>5, <1>6, <1>7, <1>8, <1>9, <1>10, <1>11 DEF ExecNext

\* The invariant of the execution of matches, for any number of jobs.
THEOREM ExecutionCorrect == ExecSpec => []ExecutionInv
<1>1. QED
  BY ExecutionInit, ExecutionNext, PTL DEF ExecSpec

\* Keys, pointer, timer and class freeze and thaw together.
THEOREM ExecutionFreezesTogether == ExecSpec => []FrozenTogether
<1>1. ExecutionInv => FrozenTogether
  BY DEF ExecutionInv
<1>2. QED
  BY <1>1, ExecutionCorrect, PTL

\* The safety half of "the window thaws": whenever it is frozen, a job or a
\* callback that thaws it is on its way.
THEOREM ExecutionIsThawed == ExecSpec => []SomeoneThaws
<1>1. ExecutionInv => SomeoneThaws
  BY DEF ExecutionInv
<1>2. QED
  BY <1>1, ExecutionCorrect, PTL

-----------------------------------------------------------------------------
(* The four together.                                                      *)

\* What is proved of each of the four parts holds of the specification that the
\* runs check: its behaviours are behaviours of each part.
THEOREM LaunchIsItsParts == LaunchSpec => Start!Spec /\ Scope!Spec /\ Spec /\ ExecSpec
<1>1. LaunchInit => Start!Init /\ Scope!Init /\ Init /\ ExecInit
  BY DEF LaunchInit
<1> DEFINE all == <<part, startVars, scopeVars, onceVars, execVars>>
<1>2. [LaunchNext]_all => [Start!Next]_(Start!vars)
  <2>1. UNCHANGED startVars => UNCHANGED Start!vars
    BY Zenon DEF startVars, Start!vars
  <2>2. UNCHANGED all => UNCHANGED startVars
    BY Zenon
  <2> QED BY <2>1, <2>2, Zenon DEF LaunchNext
<1>3. [LaunchNext]_all => [Scope!Next]_(Scope!vars)
  <2>1. UNCHANGED scopeVars => UNCHANGED Scope!vars
    BY Zenon DEF scopeVars, Scope!vars
  <2>2. UNCHANGED all => UNCHANGED scopeVars
    BY Zenon
  <2> QED BY <2>1, <2>2, Zenon DEF LaunchNext
<1>4. [LaunchNext]_all => [Next]_vars
  <2>2. UNCHANGED all => UNCHANGED onceVars
    BY Zenon
  <2> QED BY <2>2, Zenon DEF LaunchNext, onceVars
<1>5. [LaunchNext]_all => [ExecNext]_execVars
  BY Zenon DEF LaunchNext
<1>6. LaunchSpec => LaunchInit /\ [][LaunchNext]_all
  BY PTL DEF LaunchSpec
<1> QED BY <1>1, <1>2, <1>3, <1>4, <1>5, <1>6, PTL DEF Start!Spec, Scope!Spec, Spec, ExecSpec

\* Types of all four, with the answers that processes wait for, the socket's
\* queue of the service, the signals and replies under way to the launches, and the
\* callbacks that thaw the window.
THEOREM LaunchTyped == LaunchSpec => []Types
<1>1. StartInv => Start!TypeOK
  BY DEF StartInv
<1>2. ScopeInv => Scope!TypeOK
  BY DEF ScopeInv
<1>3. OnceInv => TypeOK
  BY DEF OnceInv
<1>4. Start!Spec => []Start!TypeOK
  BY StartInit, StartNext, <1>1, PTL DEF Start!Spec
<1>5. Scope!Spec => []Scope!TypeOK
  BY ScopeInit, ScopeNext, <1>2, PTL DEF Scope!Spec
<1>6. Spec => []TypeOK
  BY SpecInv, <1>3, PTL
<1>7. ExecutionInv => ExecTypes
  BY DEF ExecutionInv
<1>8. Start!TypeOK /\ Scope!TypeOK /\ TypeOK /\ ExecTypes => Types
  BY DEF Types
<1> QED BY LaunchIsItsParts, ExecutionCorrect, <1>4, <1>5, <1>6, <1>7, <1>8, PTL
=============================================================================
