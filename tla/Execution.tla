----------------------------- MODULE Execution -----------------------------
(***************************************************************************)
(* Executing a match: the is_executing flag of controller.c, which freezes *)
(* the keys, the can_target property of the window, which freezes the      *)
(* pointer, the two timers and the two CSS classes that show it, and the   *)
(* jobs on the thread pool that thaw all of it from idle callbacks.        *)
(*                                                                         *)
(* There is one flag for all jobs.  The window can be hidden and shown     *)
(* again while a job is under way, so a job may find the flag of a later   *)
(* one, or clear it.                                                       *)
(***************************************************************************)
EXTENDS Naturals, Sequences

CONSTANT Job   \* the calls of controller_execute_async

VARIABLES
    visible,         \* the window is shown
    is_executing,
    can_target,      \* the window takes pointer events
    execute_timeout, \* the source of add_execute_class is pending
    error_timeout,   \* the source of remove_error_class is pending
    classes,         \* the CSS classes of the window
    state,           \* where each job is
    idle             \* the idle callbacks posted, oldest first

execVars == <<visible, is_executing, can_target, execute_timeout, error_timeout,
          classes, state, idle>>

Outcome == {"error", "hide", "layout"}

\* A job runs the action, looks at the flag, and posts its outcome.
JobState == {"none", "running"} \cup Outcome \cup {"over"}

ExecTypes ==
    /\ visible \in BOOLEAN
    /\ is_executing \in BOOLEAN
    /\ can_target \in BOOLEAN
    /\ execute_timeout \in BOOLEAN
    /\ error_timeout \in BOOLEAN
    /\ classes \subseteq {"executing", "execute-error"}
    /\ state \in [Job -> JobState]
    /\ idle \in Seq(Outcome)

ExecInit ==
    /\ visible = FALSE
    /\ is_executing = FALSE
    /\ can_target = TRUE
    /\ execute_timeout = FALSE
    /\ error_timeout = FALSE
    /\ classes = {}
    /\ state = [j \in Job |-> "none"]
    /\ idle = <<>>

-----------------------------------------------------------------------------
(* Main thread.                                                            *)

\* Faulty variant: a pending timer is forgotten, not removed.
RemoveIsExecuting_KeepsTimer(cs) ==
    /\ UNCHANGED execute_timeout
    /\ classes' = cs \ {"executing"}
    /\ is_executing' = FALSE
    /\ can_target' = TRUE

\* remove_is_executing, on a window with the given classes: either the timer
\* is pending and is removed, or it has fired and its class is.
RemoveIsExecuting(cs) ==
    /\ execute_timeout' = FALSE
    /\ classes' = IF execute_timeout THEN cs ELSE cs \ {"executing"}
    /\ is_executing' = FALSE
    /\ can_target' = TRUE

\* Faulty variant: the flag is raised after the job has been handed to the
\* pool, which may already have run it.
Execute_LateFlag(j) ==
    /\ visible
    /\ ~ is_executing \/ can_target
    /\ state[j] = "none"
    /\ state' = [state EXCEPT ![j] = "over"]
    /\ is_executing' = TRUE
    /\ execute_timeout' = TRUE
    /\ can_target' = FALSE
    /\ UNCHANGED <<visible, error_timeout, classes, idle>>

\* The end of controller_execute, with add_is_executing: from a key, for which
\* the flag must be clear, or from a click, which needs the pointer only.
Execute(j) ==
    /\ visible
    /\ ~ is_executing \/ can_target
    /\ state[j] = "none"
    /\ state' = [state EXCEPT ![j] = "running"]
    /\ is_executing' = TRUE
    /\ execute_timeout' = TRUE
    /\ can_target' = IF execute_timeout THEN can_target ELSE FALSE
    /\ UNCHANGED <<visible, error_timeout, classes, idle>>

\* add_execute_class
ExecuteTimeout ==
    /\ execute_timeout
    /\ execute_timeout' = FALSE
    /\ classes' = classes \cup {"executing"}
    /\ UNCHANGED <<visible, is_executing, can_target, error_timeout, state, idle>>

\* remove_error_class
ErrorTimeout ==
    /\ error_timeout
    /\ error_timeout' = FALSE
    /\ classes' = classes \ {"execute-error"}
    /\ UNCHANGED <<visible, is_executing, can_target, execute_timeout, state, idle>>

\* Hiding the window ends in controller_reset.
Hide ==
    /\ visible
    /\ visible' = FALSE
    /\ RemoveIsExecuting(classes)
    /\ UNCHANGED <<error_timeout, state, idle>>

Show ==
    /\ ~ visible
    /\ visible' = TRUE
    /\ UNCHANGED <<is_executing, can_target, execute_timeout, error_timeout,
                   classes, state, idle>>

\* Faulty variant: the running timer of an earlier error is left to end this one.
HandleError_NoTimer ==
    /\ idle # <<>> /\ Head(idle) = "error"
    /\ idle' = Tail(idle)
    /\ RemoveIsExecuting(classes \cup {"execute-error"})
    /\ UNCHANGED <<visible, state, error_timeout>>

\* handle_error_ui
HandleError ==
    /\ idle # <<>> /\ Head(idle) = "error"
    /\ idle' = Tail(idle)
    /\ RemoveIsExecuting(classes \cup {"execute-error"})
    /\ error_timeout' = TRUE
    /\ UNCHANGED <<visible, state>>

\* state_update_layout_idle
LayoutIdle ==
    /\ idle # <<>> /\ Head(idle) = "layout"
    /\ idle' = Tail(idle)
    /\ RemoveIsExecuting(classes)
    /\ UNCHANGED <<visible, error_timeout, state>>

\* bob_launcher_app_hide_window
HideWindow ==
    /\ idle # <<>> /\ Head(idle) = "hide"
    /\ idle' = Tail(idle)
    /\ visible' = FALSE
    /\ is_executing' = FALSE
    /\ can_target' = TRUE
    /\ execute_timeout' = FALSE
    \* A visible window is reset on the way, so a second remove_is_executing
    \* finds no timer and removes the class, which is then not there.
    /\ classes' = classes \ {"executing"}
    /\ UNCHANGED <<error_timeout, state>>

-----------------------------------------------------------------------------
(* controller_execute_async on the thread pool.                            *)

\* Faulty variant: a job that fails says nothing.
Finish_SilentError(j) ==
    /\ state[j] = "running"
    /\ \E o \in Outcome :
          state' = [state EXCEPT ![j] = IF is_executing /\ o # "error" THEN o ELSE "over"]
    /\ UNCHANGED <<visible, is_executing, can_target, execute_timeout, error_timeout,
                   classes, idle>>

\* The action has returned and the flag is loaded.
Finish(j) ==
    /\ state[j] = "running"
    /\ \E o \in Outcome :
          state' = [state EXCEPT ![j] = IF is_executing THEN o ELSE "over"]
    /\ UNCHANGED <<visible, is_executing, can_target, execute_timeout, error_timeout,
                   classes, idle>>

\* g_idle_add_full
Post(j) ==
    /\ state[j] \in Outcome
    /\ state' = [state EXCEPT ![j] = "over"]
    /\ idle' = Append(idle, state[j])
    /\ UNCHANGED <<visible, is_executing, can_target, execute_timeout, error_timeout, classes>>

ExecNext ==
    \/ \E j \in Job : Execute(j) \/ Finish(j) \/ Post(j)
    \/ ExecuteTimeout \/ ErrorTimeout
    \/ Hide \/ Show
    \/ HandleError \/ LayoutIdle \/ HideWindow

ExecSpec == ExecInit /\ [][ExecNext]_execVars

-----------------------------------------------------------------------------
(* Properties.                                                             *)

\* Keys and pointer freeze and thaw together, and the signs of a running job
\* (the timer, then the class) are there only while they are frozen, although
\* four handlers and a timer set and clear the four of them.
FrozenTogether ==
    /\ is_executing <=> ~ can_target
    /\ execute_timeout \/ "executing" \in classes <=> is_executing
    /\ ~ (execute_timeout /\ "executing" \in classes)

\* The error class is shown exactly as long as its timer runs.
ErrorShownWhileTimed == error_timeout <=> "execute-error" \in classes

\* Whenever the window is frozen, some job or callback is on its way that will
\* thaw it.
SomeoneThaws ==
    is_executing => \/ idle # <<>>
                    \/ \E j \in Job : state[j] \in {"running"} \cup Outcome

ExecutionInv ==
    /\ ExecTypes
    /\ FrozenTogether
    /\ ErrorShownWhileTimed
    /\ SomeoneThaws

\* The window does not stay frozen.
Thaws == is_executing ~> ~ is_executing

=============================================================================
