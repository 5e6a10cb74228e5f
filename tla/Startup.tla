------------------------------ MODULE Startup ------------------------------
(***************************************************************************)
(* How a started process becomes the service or hands its request over to  *)
(* it: main.c, the readiness socket and transient unit of                  *)
(* systemd_service*.c, and the requests in app.c.                          *)
(*                                                                         *)
(* A process that finds nobody listening binds the abstract socket itself, *)
(* and a forked grandchild sends the request of its command line; one      *)
(* called as bob-launcher.service starts a unit instead, whose process     *)
(* sends a plain "A", and then sends what makes up for that.               *)
(*                                                                         *)
(* connect and the write that follows are one step.  The user does not     *)
(* type into the window meanwhile: clean stands for                        *)
(* state_is_in_initial_state.  A process that is over is not started       *)
(* again, nor is the unit.  A command that does not fit the buffer is not  *)
(* modelled.                                                               *)
(***************************************************************************)
EXTENDS Naturals, Sequences, FiniteSets

CONSTANTS
    Proc,    \* the processes the user starts
    Unit,    \* the process that systemd starts
    Backlog, \* connections that wait in listen(2)
    None

\* Toggle, do nothing, select a plugin, select one the service does not have
\* (the code sends "P" for both), open files.
Request == {"A", "H", "P", "U", "O"}
AnyProc == Proc \cup {Unit}

VARIABLES
    pc,       \* where each process is in main
    child,    \* whether the grandchild of each process has its request to send, or
              \* could not be forked
    service,  \* called as SERVICE_NAME
    want,     \* the request of its command line
    code,     \* exit codes
    bound,    \* the process that is bound to SOCKET_NAME
    backlog,  \* requests that wait to be accepted, with who sent them
    sync,     \* the process that is bound to SYNC_SOCKET_NAME
    ready,    \* the ready byte has been sent to it
    visible,
    clean,
    handled,  \* the first sender whose request was handled
    quits     \* a service has ended

vars == <<pc, child, service, want, code, bound, backlog, sync, ready, visible, clean,
          handled, quits>>

socketVars == <<bound, backlog, sync, ready>>
windowVars == <<visible, clean, handled>>

PC == {"idle", "connect", "sync", "unit", "wait", "again",
       "bind", "fork", "init", "serving", "over"}

TypeOK ==
    /\ pc \in [AnyProc -> PC]
    /\ child \in [AnyProc -> {"no", "yes", "lost"}]
    /\ service \in [AnyProc -> BOOLEAN]
    /\ want \in [AnyProc -> Request]
    /\ code \in [AnyProc -> {0, 1}]
    /\ bound \in AnyProc \cup {None}
    /\ backlog \in Seq([from : AnyProc, own : BOOLEAN, what : Request])
    /\ sync \in Proc \cup {None}
    /\ sync # None => pc[sync] \in {"unit", "wait"}
    /\ ready \in BOOLEAN
    /\ visible \in BOOLEAN /\ clean \in BOOLEAN /\ quits \in BOOLEAN
    /\ handled \in AnyProc \cup {None}

Init ==
    /\ pc = [p \in AnyProc |-> "idle"]
    /\ child = [p \in AnyProc |-> "no"]
    /\ service = [p \in AnyProc |-> FALSE]
    /\ want = [p \in AnyProc |-> "A"]
    /\ code = [p \in AnyProc |-> 0]
    /\ bound = None /\ backlog = <<>> /\ sync = None /\ ready = FALSE
    /\ visible = FALSE /\ clean = TRUE /\ handled = None /\ quits = FALSE

Goto(p, label) == pc' = [pc EXCEPT ![p] = label]

\* The process ends, and with it the sockets it holds and what waits in them.
Exit(p, result) ==
    /\ Goto(p, "over")
    /\ code' = [code EXCEPT ![p] = result]
    /\ IF bound = p THEN bound' = None /\ backlog' = <<>> ELSE UNCHANGED <<bound, backlog>>
    /\ IF sync = p THEN sync' = None /\ ready' = FALSE ELSE UNCHANGED <<sync, ready>>
    /\ quits' = (quits \/ pc[p] = "serving")

\* Between bind and listen a connection is refused.
Listening == bound # None /\ pc[bound] \in {"init", "serving"}

\* connect_abstract_blocking and send_command_with_socket; connect waits while
\* the backlog is full.
Send(p, own, what) ==
    /\ Len(backlog) < Backlog
    /\ backlog' = Append(backlog, [from |-> p, own |-> own, what |-> what])
    /\ UNCHANGED bound

-----------------------------------------------------------------------------
(* main                                                                    *)

\* The user starts a process, under either name and with any request.
Start(p) ==
    /\ p \in Proc
    /\ pc[p] = "idle"
    /\ Goto(p, "connect")
    /\ \E called \in BOOLEAN, w \in Request :
          /\ service' = [service EXCEPT ![p] = called]
          /\ want' = [want EXCEPT ![p] = w]
    /\ UNCHANGED <<child, code, socketVars, windowVars, quits>>

Connect(p) ==
    /\ pc[p] = "connect"
    /\ \/ /\ Listening
          /\ Send(p, FALSE, want[p])
          /\ Goto(p, "over")
       \/ /\ ~ Listening
          /\ Goto(p, IF service[p] THEN "sync" ELSE "bind")
          /\ UNCHANGED <<bound, backlog>>
    /\ UNCHANGED <<child, service, want, code, sync, ready, windowVars, quits>>

\* create_sync_socket; only one process can be waiting for a unit.
CreateSync(p) ==
    /\ pc[p] = "sync"
    /\ IF sync # None THEN Exit(p, 1)
       ELSE /\ sync' = p /\ Goto(p, "unit")
            /\ UNCHANGED <<code, bound, backlog, ready, quits>>
    /\ UNCHANGED <<child, service, want, windowVars>>

\* start_as_systemd_service, in mode "fail": the unit may exist already, or the
\* call fail.
StartUnit(p) ==
    /\ pc[p] = "unit"
    /\ \/ /\ pc[Unit] = "idle"
          /\ pc' = [pc EXCEPT ![p] = "wait", ![Unit] = "connect"]
          /\ UNCHANGED <<code, socketVars, quits>>
       \/ Exit(p, 1)
    /\ UNCHANGED <<child, service, want, windowVars>>

\* Faulty variant: the socket is not closed.
Ready_KeepsSocket(p) ==
    /\ pc[p] = "wait" /\ ready
    /\ Goto(p, "again")
    /\ ready' = FALSE
    /\ UNCHANGED <<sync, child, service, want, code, bound, backlog, windowVars, quits>>

\* wait_for_ready_signal
Ready(p) ==
    /\ pc[p] = "wait" /\ ready
    /\ Goto(p, "again")
    /\ sync' = None /\ ready' = FALSE
    /\ UNCHANGED <<child, service, want, code, bound, backlog, windowVars, quits>>

\* Faulty variant: the socket has no SO_RCVTIMEO.
Timeout_Never(p) == pc[p] = "never" /\ UNCHANGED vars

\* SO_RCVTIMEO, five seconds.
Timeout(p) ==
    /\ pc[p] = "wait"
    /\ Exit(p, 1)
    /\ UNCHANGED <<child, service, want, windowVars>>

\* Faulty variant: the hidden flag is passed on as it is.
Reversed_Same(what) == what

\* "reverse the hide": the unit's own request has shown the window.
Reversed(what) == CASE what = "A" -> "H" [] what = "H" -> "A" [] OTHER -> what

ConnectAgain(p) ==
    /\ pc[p] = "again"
    /\ \/ /\ Listening
          /\ Send(p, FALSE, Reversed(want[p]))
          /\ Goto(p, "over")
          /\ UNCHANGED <<code, sync, ready, quits>>
       \/ ~ Listening /\ Exit(p, 1)
    /\ UNCHANGED <<child, service, want, windowVars>>

\* bind of create_listening_socket
Bind(p) ==
    /\ pc[p] = "bind"
    /\ IF bound # None THEN Exit(p, 1)
       ELSE /\ bound' = p /\ Goto(p, "fork")
            /\ UNCHANGED <<code, backlog, sync, ready, quits>>
    /\ UNCHANGED <<child, service, want, windowVars>>

\* listen, and the two forks.  When the second fails, only the first child ends
\* in an error, which nobody looks at: the process serves, and its own request
\* is never sent.
Fork(p) ==
    /\ pc[p] = "fork"
    /\ \/ /\ Goto(p, "init")
          /\ \E forked \in {"yes", "lost"} : child' = [child EXCEPT ![p] = forked]
          /\ UNCHANGED <<code, socketVars, quits>>
       \/ Exit(p, 1) /\ UNCHANGED child
    /\ UNCHANGED <<service, want, windowVars>>

\* The grandchild connects to its grandparent, or to whom it finds.
ChildSend(p) ==
    /\ child[p] = "yes"
    /\ child' = [child EXCEPT ![p] = "no"]
    /\ \/ Listening /\ Send(p, TRUE, want[p])
       \/ ~ Listening /\ UNCHANGED <<bound, backlog>>
    /\ UNCHANGED <<pc, service, want, code, sync, ready, windowVars, quits>>

\* The byte goes to whoever is bound to the socket, if anybody is.
signal_ready_if_needed == ready' = (ready \/ sync # None)

\* dlopen, and initialize of app.c, which ends with the signal.
Initialize(p) ==
    /\ pc[p] = "init"
    /\ \/ /\ Goto(p, "serving")
          /\ signal_ready_if_needed
          /\ UNCHANGED <<code, bound, backlog, sync, quits>>
       \/ Exit(p, 1)
    /\ UNCHANGED <<child, service, want, windowVars>>

\* on_incoming_connection with handle_connection
Accept(p) ==
    /\ pc[p] = "serving" /\ backlog # <<>>
    /\ backlog' = Tail(backlog)
    /\ LET m == Head(backlog) IN
          /\ handled' = IF handled = None THEN m.from ELSE handled
          /\ \/ /\ m.what = "A"
                /\ visible' = ~ visible
                /\ clean' = (clean \/ visible)   \* hiding resets the panes
             \/ /\ m.what = "P"                  \* select_plugin
                /\ visible' = clean
                /\ clean' = ~ clean
             \/ /\ m.what = "U"                  \* the same: nothing to show
                /\ visible' = FALSE
                /\ clean' = (clean \/ visible)
             \/ m.what \in {"H", "O"} /\ UNCHANGED <<visible, clean>>
    /\ UNCHANGED <<pc, child, service, want, code, bound, sync, ready, quits>>

\* SIGTERM, or the window is closed.
Quit(p) ==
    /\ pc[p] = "serving"
    /\ Exit(p, 0)
    /\ UNCHANGED <<child, service, want, windowVars>>

Step(p) ==
    \/ Connect(p) \/ CreateSync(p) \/ StartUnit(p) \/ Ready(p) \/ Timeout(p)
    \/ ConnectAgain(p) \/ Bind(p) \/ Fork(p) \/ Initialize(p) \/ Accept(p)

Next == \E p \in AnyProc : Start(p) \/ Step(p) \/ ChildSend(p) \/ Quit(p)

Spec == Init /\ [][Next]_vars

\* Started processes are scheduled, the timeout runs out, and the service
\* accepts; nobody has to start or to quit anything.
Fairness == \A p \in AnyProc : WF_vars(Step(p)) /\ WF_vars(ChildSend(p))

-----------------------------------------------------------------------------
(* Properties.                                                             *)

Quiet ==
    /\ \A p \in AnyProc : pc[p] \in {"idle", "serving", "over"} /\ child[p] # "yes"
    /\ backlog = <<>>

\* What the window is to be when process p alone was started.  Shown, but for
\* --hidden and a plugin that is unknown; on the way over a unit, which toggles
\* the window itself, as well.  Three things come in between.  A plugin request
\* may overtake the unit's toggle, which then undoes what it did: nothing but
\* the time that initialisation takes prevents it.  If p serves itself and the
\* second fork failed, nothing was asked; and if that happened to the unit, what
\* makes up for its toggle is all that was.
Expected(p) ==
    CASE child[p] = "lost" -> FALSE
      [] child[Unit] = "lost" -> want[p] \in {"H", "P"}
      [] OTHER -> IF service[p] /\ handled = p /\ want[p] \in {"P", "U"}
                  THEN want[p] = "U"
                  ELSE want[p] \notin {"H", "U"}

\* When one process was started, ended well and all is quiet, the window is as
\* its command line asked, on either way to a service: the extra toggle of the
\* unit is made up for, and where a fork failed, a request overtook or a plugin is
\* unknown, it is as described above.
StartedAsAsked ==
    \A p \in Proc :
        (/\ Quiet /\ ~ quits
         /\ pc[p] # "idle" /\ code[p] = 0
         /\ \A q \in Proc \ {p} : pc[q] = "idle"
         /\ want[p] # "O")
            => visible = Expected(p)

\* Every started process ends or becomes the service, however many start at
\* once, one of them fails, or the service ends under them: nobody waits for a
\* ready signal or a connection for ever.
EveryoneLeaves ==
    \A p \in Proc : pc[p] = "connect" ~> pc[p] \in {"serving", "over"}

=============================================================================
