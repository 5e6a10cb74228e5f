------------------------------ MODULE MCLaunch ------------------------------
(* What processes, threads and the window wait for: the start of the         *)
(* service, a program on its way into its scope, one-time initialisation,    *)
(* and the jobs that execute a match.  They share no variable; a behaviour   *)
(* is about one of them, and the others stay as they were.                   *)
EXTENDS OnceInit, Execution

CONSTANTS
    Proc, Unit, Backlog,  \* of module Startup
    Launch, MaxNoise,     \* of module ScopeLaunch
    None                  \* no process, and no launch

VARIABLES
    part,
    pc, child, service, want, code, bound, backlog, sync, ready, shown, clean,
    handled, quits,
    step, mode, told, base, serial, wire, mail, job, waits, noise, shared, lost

startVars == <<pc, child, service, want, code, bound, backlog, sync, ready, shown, clean,
               handled, quits>>
scopeVars == <<step, mode, told, base, serial, wire, mail, job, waits, noise, shared, lost>>
onceVars == vars

Start == INSTANCE Startup WITH visible <- shown
Scope == INSTANCE ScopeLaunch WITH Nobody <- None

ASSUME StartAssumption == Unit \notin Proc /\ None \notin Proc \cup {Unit}

ASSUME ScopeAssumption == None \notin Launch /\ MaxNoise \in Nat

LaunchInit ==
    /\ part \in {"start", "scope", "once", "window"}
    /\ Start!Init /\ Scope!Init /\ Init /\ ExecInit

\* Bound: when a signal about another job comes in between, the two launches
\* follow each other.
InTurnWithNoise ==
    noise' > 0 => \E l \in Launch : step'[l] \in {"idle", "running", "ended"}

LaunchNext ==
    /\ UNCHANGED part
    /\ \/ part = "start" /\ Start!Next /\ UNCHANGED <<scopeVars, onceVars, execVars>>
       \/ part = "scope" /\ Scope!Next /\ InTurnWithNoise
          /\ UNCHANGED <<startVars, onceVars, execVars>>
       \/ part = "once" /\ Next /\ UNCHANGED <<startVars, scopeVars, execVars>>
       \/ part = "window" /\ ExecNext /\ UNCHANGED <<startVars, scopeVars, onceVars>>

\* The fairness of the four modules, each for the behaviours about it.  Of a job
\* of Execution: its action returns, and the main loop runs its idle callbacks;
\* nothing is asked of the timers, nor of the user.
LaunchSpec ==
    /\ LaunchInit /\ [][LaunchNext]_<<part, startVars, scopeVars, onceVars, execVars>>
    /\ \A p \in Start!AnyProc :
          /\ WF_startVars(part = "start" /\ Start!Step(p))
          /\ WF_startVars(part = "start" /\ Start!ChildSend(p))
    /\ \A l \in Launch :
          /\ WF_scopeVars(part = "scope" /\ Scope!ForkedStep(l))
          /\ WF_scopeVars(part = "scope" /\ Scope!EndJob(l))
    /\ \A t \in Caller : WF_onceVars(part = "once" /\ Step(t))
    /\ \A j \in Job : /\ WF_execVars(part = "window" /\ Finish(j))
                      /\ WF_execVars(part = "window" /\ Post(j))
    /\ WF_execVars(part = "window" /\ (HandleError \/ LayoutIdle \/ HideWindow))

Types == Start!TypeOK /\ Scope!TypeOK /\ TypeOK /\ ExecTypes

StartedAsAsked == Start!StartedAsAsked
EveryoneLeaves == Start!EveryoneLeaves
ScopedWhenAlone == Scope!ScopedWhenAlone
LaunchSettles == Scope!LaunchSettles
EverythingGetsItsScope == Scope!EverythingGetsItsScope
=============================================================================
