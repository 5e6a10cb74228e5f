---------------------------- MODULE ScopeLaunch ----------------------------
(***************************************************************************)
(* Launching a program in a systemd scope of its own: systemd-launcher.c    *)
(* from launch_wrapper_internal on, and create_systemd_scope_lowlevel.      *)
(*                                                                         *)
(* The launcher forks; the (grand)child asks systemd for a scope that holds *)
(* it, waits until the job of that scope is removed, and executes the       *)
(* program.  The child calls dbus_bus_get, which returns the connection     *)
(* that the service opened before the fork (launch-context.c keeps it): all *)
(* children and the service read from ONE socket, and each process goes on  *)
(* counting serials from where the fork left them.                          *)
(*                                                                         *)
(* From libdbus: a blocking call reads until the reply to its serial is     *)
(* there, leaving the other messages queued; read_write_dispatch hands the  *)
(* first queued message to the filters, of which there are none, and only   *)
(* reads when nothing is queued; every call has a timeout.                  *)
(***************************************************************************)
EXTENDS Naturals, Sequences

CONSTANTS
    Launch,   \* the launches
    MaxNoise, \* signals about the jobs of others
    Nobody

VARIABLES
    step,   \* where the process of a launch is
    mode,   \* how it was launched
    told,   \* what the caller got: "nothing", "ok", "error"
    base,   \* the last serial that the service used
    serial, \* the last serial that each process used
    wire,   \* messages in the socket
    mail,   \* messages that a process has read and not yet looked at
    job,    \* the job of each scope, as systemd sees it
    waits,  \* the job each process waits for
    noise,
    shared, \* launches that had company on the socket
    lost    \* launches whose JobRemoved was dropped or read by another process

vars == <<step, mode, told, base, serial, wire, mail, job, waits, noise, shared, lost>>

Step == {"idle", "activate", "forked", "match", "call", "loop", "exec", "running", "ended"}

\* Steps that read the socket.
Reads == {"activate", "match", "call", "loop"}

\* A reply (to # 0) to a call, about a job in the case of StartTransientUnit, or
\* a JobRemoved; ok when the call or the job succeeded.
Message == [to : Nat, job : Launch \cup {Nobody}, ok : BOOLEAN]

TypeOK ==
    /\ step \in [Launch -> Step]
    /\ mode \in [Launch -> {"none", "activate", "blocking", "detached"}]
    /\ told \in [Launch -> {"nothing", "ok", "error"}]
    /\ base \in Nat /\ noise \in 0 .. MaxNoise
    /\ serial \in [Launch -> Nat]
    /\ wire \in Seq(Message)
    /\ mail \in [Launch -> Seq(Message)]
    /\ job \in [Launch -> {"none", "asked", "queued", "done", "failed"}]
    /\ waits \in [Launch -> Launch \cup {Nobody}]
    /\ shared \in SUBSET Launch /\ lost \in SUBSET Launch

Init ==
    /\ step = [l \in Launch |-> "idle"]
    /\ mode = [l \in Launch |-> "none"]
    /\ told = [l \in Launch |-> "nothing"]
    /\ base = 0 /\ noise = 0
    /\ serial = [l \in Launch |-> 0]
    /\ wire = <<>>
    /\ mail = [l \in Launch |-> <<>>]
    /\ job = [l \in Launch |-> "none"]
    /\ waits = [l \in Launch |-> Nobody]
    /\ shared = {} /\ lost = {}

bus == <<wire, mail, job, waits, noise, shared, lost>>

Goto(l, label) == step' = [step EXCEPT ![l] = label]
Tell(l, answer) == told' = [told EXCEPT ![l] = answer]

\* Who else reads the socket, or has called and may still be answered.
Company(l) ==
    {m \in Launch \ {l} :
        \/ step[m] \in Reads
        \/ job[m] \in {"asked", "queued"}
        \/ mode[m] = "activate" /\ job[m] = "none"}
Mix(l) ==
    shared' = IF Company(l) = {} /\ wire = <<>> THEN shared
              ELSE shared \cup {l} \cup Company(l)

\* The process ends; a blocking launch returns its exit status.
End(l) ==
    /\ Goto(l, "ended")
    /\ Tell(l, IF mode[l] = "detached" THEN told[l] ELSE "error")

\* try_activate: the application is on the bus, and is called.
try_activate(l) ==
    /\ Goto(l, "activate")
    /\ mode' = [mode EXCEPT ![l] = "activate"]
    /\ base' = base + 1
    /\ serial' = [serial EXCEPT ![l] = base + 1]
    /\ Mix(l)
    /\ UNCHANGED told

\* launch_with_systemd_scope_internal: a fork, or two when nobody waits for the
\* program; the first child of two has left before the caller goes on.
Forks(l, m) ==
    /\ Goto(l, "forked")
    /\ mode' = [mode EXCEPT ![l] = m]
    /\ serial' = [serial EXCEPT ![l] = base]
    /\ IF m = "detached" THEN Tell(l, "ok") ELSE UNCHANGED told
    /\ UNCHANGED <<base, shared>>

\* launch_wrapper_internal and launch_command: whether the application is on the
\* bus, and how it is called, is open.  There may be no command line, and fork
\* may fail.
Begin(l) ==
    /\ step[l] = "idle"
    /\ \/ /\ Goto(l, "ended") /\ Tell(l, "error")
          /\ UNCHANGED <<mode, base, serial, shared>>
       \/ try_activate(l)
       \/ \E m \in {"blocking", "detached"} : Forks(l, m)
    /\ UNCHANGED <<wire, mail, job, waits, noise, lost>>

\* dbus_bus_add_match
AddMatch(l) ==
    /\ step[l] = "forked"
    /\ Goto(l, "match")
    /\ serial' = [serial EXCEPT ![l] = @ + 1]
    /\ wire' = Append(wire, [to |-> serial[l] + 1, job |-> Nobody, ok |-> TRUE])
    /\ Mix(l)
    /\ UNCHANGED <<mode, told, base, mail, job, waits, noise, lost>>

\* The application answers Activate.
Activated(l) ==
    /\ mode[l] = "activate" /\ job[l] = "none"
    /\ job' = [job EXCEPT ![l] = "done"]
    /\ \E ok \in BOOLEAN :
          wire' = Append(wire, [to |-> serial[l], job |-> Nobody, ok |-> ok])
    /\ UNCHANGED <<step, mode, told, base, serial, mail, waits, noise, shared, lost>>

-----------------------------------------------------------------------------
(* systemd                                                                 *)

StartJob(l) ==
    /\ job[l] = "asked"
    /\ \E ok \in BOOLEAN :
          /\ job' = [job EXCEPT ![l] = IF ok THEN "queued" ELSE "failed"]
          /\ wire' = Append(wire, [to |-> serial[l], job |-> l, ok |-> ok])
    /\ UNCHANGED <<step, mode, told, base, serial, mail, waits, noise, shared, lost>>

EndJob(l) ==
    /\ job[l] = "queued"
    /\ \E ok \in BOOLEAN :
          /\ job' = [job EXCEPT ![l] = IF ok THEN "done" ELSE "failed"]
          /\ wire' = Append(wire, [to |-> 0, job |-> l, ok |-> ok])
    /\ UNCHANGED <<step, mode, told, base, serial, mail, waits, noise, shared, lost>>

\* A job of another unit is removed, while somebody listens.
OtherJob ==
    /\ noise < MaxNoise
    /\ \E l \in Launch : step[l] \in {"call", "loop"}
    /\ noise' = noise + 1
    /\ wire' = Append(wire, [to |-> 0, job |-> Nobody, ok |-> TRUE])
    /\ UNCHANGED <<step, mode, told, base, serial, mail, job, waits, shared, lost>>

-----------------------------------------------------------------------------
(* The process                                                             *)

IsReply(l, m) == m.to = serial[l]
HasReply(l) == \E i \in 1 .. Len(mail[l]) : IsReply(l, mail[l][i])

\* Whose removal is among the messages s, other than for l itself.
RemovalsIn(s) == {s[i].job : i \in {i \in 1 .. Len(s) : s[i].to = 0}} \ {Nobody}

\* A blocking call reads whatever is there.
Read(l) ==
    /\ step[l] \in {"activate", "match", "call"}
    /\ ~ HasReply(l)
    /\ \E n \in 1 .. Len(wire) :
          /\ mail' = [mail EXCEPT ![l] = @ \o SubSeq(wire, 1, n)]
          /\ wire' = SubSeq(wire, n + 1, Len(wire))
          /\ lost' = lost \cup (RemovalsIn(SubSeq(wire, 1, n)) \ {l})
    /\ UNCHANGED <<step, mode, told, base, serial, job, waits, noise, shared>>

\* The blocking call returns with the first reply to its serial.
TakeReply(l) ==
    /\ step[l] \in {"activate", "match", "call"}
    /\ \E i \in 1 .. Len(mail[l]) :
          /\ IsReply(l, mail[l][i])
          /\ \A k \in 1 .. i - 1 : ~ IsReply(l, mail[l][k])
          /\ LET m == mail[l][i] IN
             /\ mail' = [mail EXCEPT ![l] = SubSeq(@, 1, i - 1) \o SubSeq(@, i + 1, Len(@))]
             /\ \/ /\ step[l] = "activate"
                   /\ Goto(l, "ended") /\ Tell(l, IF m.ok THEN "ok" ELSE "error")
                   /\ UNCHANGED <<serial, job, waits>>
                \/ /\ step[l] = "match" /\ m.ok   \* and StartTransientUnit is sent
                   /\ Goto(l, "call")
                   /\ serial' = [serial EXCEPT ![l] = @ + 1]
                   /\ job' = [job EXCEPT ![l] = "asked"]
                   /\ UNCHANGED <<told, waits>>
                \/ /\ step[l] = "call" /\ m.ok /\ m.job # Nobody
                   /\ Goto(l, "loop")
                   /\ waits' = [waits EXCEPT ![l] = m.job]
                   /\ UNCHANGED <<told, serial, job>>
                \/ /\ step[l] # "activate"
                   /\ ~ m.ok \/ (step[l] = "call" /\ m.job = Nobody)
                   /\ End(l)
                   /\ UNCHANGED <<serial, job, waits>>
    /\ UNCHANGED <<mode, base, wire, noise, shared, lost>>

\* Faulty variant: the calls wait for ever.
Timeout_Never(l) == step[l] = "never" /\ UNCHANGED vars

\* Activate is given a second, the others the default of libdbus.
Timeout(l) ==
    /\ step[l] \in {"activate", "match", "call"} /\ ~ HasReply(l)
    /\ End(l)
    /\ UNCHANGED <<mode, base, serial, bus>>

\* Faulty variant: any JobRemoved will do.
IsOwn_Any(l, m) == m.to = 0

IsOwn(l, m) == m.to = 0 /\ m.job # Nobody /\ m.job = waits[l]

\* What pop_message returned is looked at and dropped.
Look(l, m) ==
    IF IsOwn(l, m)
    THEN IF m.ok THEN Goto(l, "exec") /\ UNCHANGED told ELSE End(l)
    ELSE UNCHANGED <<step, told>>

\* One turn of the loop.  With messages queued the first of them is dispatched,
\* that is dropped, and the next one, if there is one, is looked at.
Turn(l) ==
    /\ step[l] = "loop"
    /\ \/ /\ mail[l] = <<>>
          /\ \E n \in 1 .. Len(wire) :
                /\ mail' = [mail EXCEPT ![l] = SubSeq(wire, 2, n)]
                /\ wire' = SubSeq(wire, n + 1, Len(wire))
                /\ lost' = lost \cup (RemovalsIn(SubSeq(wire, 1, n)) \ {l})
          /\ Look(l, wire[1])
       \/ /\ mail[l] # <<>>
          /\ lost' = lost \cup RemovalsIn(<<mail[l][1]>>)
          /\ \/ /\ Len(mail[l]) = 1
                /\ mail' = [mail EXCEPT ![l] = <<>>]
                /\ UNCHANGED <<step, told>>
             \/ /\ Len(mail[l]) > 1
                /\ mail' = [mail EXCEPT ![l] = SubSeq(@, 3, Len(@))]
                /\ Look(l, mail[l][2])
          /\ UNCHANGED wire
    /\ UNCHANGED <<mode, base, serial, job, waits, noise, shared>>

\* The inherited descriptors are closed, and execvp may fail.
Exec(l) ==
    /\ step[l] = "exec"
    /\ \/ Goto(l, "running") /\ UNCHANGED told
       \/ End(l)
    /\ UNCHANGED <<mode, base, serial, bus>>

\* The program exits by itself, with any status.
Finish(l) ==
    /\ step[l] = "running"
    /\ Goto(l, "ended")
    /\ \/ /\ mode[l] = "blocking"
          /\ \E answer \in {"ok", "error"} : Tell(l, answer)
       \/ mode[l] # "blocking" /\ UNCHANGED told
    /\ UNCHANGED <<mode, base, serial, bus>>

Next ==
    \/ OtherJob
    \/ \E l \in Launch :
          \/ Begin(l) \/ AddMatch(l) \/ Activated(l) \/ StartJob(l) \/ EndJob(l)
          \/ Read(l) \/ TakeReply(l) \/ Timeout(l) \/ Turn(l) \/ Exec(l) \/ Finish(l)

Spec == Init /\ [][Next]_vars

ForkedStep(l) ==
    AddMatch(l) \/ Read(l) \/ TakeReply(l) \/ Timeout(l) \/ Turn(l) \/ Exec(l)

\* Forked processes run, and systemd ends the jobs it has started; neither it
\* nor an application need answer a call.
Fairness == \A l \in Launch : WF_vars(ForkedStep(l)) /\ WF_vars(EndJob(l))

-----------------------------------------------------------------------------
(* Properties.                                                             *)

Alone(l) == l \notin shared

\* A program that was launched while no other launch used the connection is
\* executed in a scope of its own: the job of its scope has succeeded, not just
\* any job.
ScopedWhenAlone ==
    \A l \in Launch :
        Alone(l) /\ step[l] \in {"exec", "running"} => job[l] = "done" /\ waits[l] = l

\* "Everything launched gets its own scope" (README.md:34): no program runs whose
\* scope systemd failed to set up.  Two launches at once can take each other's
\* replies and signals, since both read one socket and count serials from the
\* same number.
EverythingGetsItsScope ==
    \A l \in Launch : step[l] = "running" => job[l] # "failed"

\* A launch that has the connection to itself comes to an end, whether or not
\* systemd or the application answers its calls, unless it threw its JobRemoved
\* away because another message was queued with it.
LaunchSettles ==
    \A l \in Launch :
        step[l] \in {"activate", "forked"} ~> \/ step[l] \in {"running", "ended"}
                                              \/ l \in lost \/ ~ Alone(l)

=============================================================================
