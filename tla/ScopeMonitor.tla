---------------------------- MODULE ScopeMonitor ----------------------------
(***************************************************************************)
(* The thread that keeps the table of applications on the session bus:     *)
(* dbus-scope-monitor.c, and on_dbus_event of systemd-launcher.c.           *)
(*                                                                         *)
(* The table maps a name to the object path of its application; a path is   *)
(* identified with the connection (unique name) that exports it.  Signals   *)
(* wait in the monitor's private connection while it makes blocking calls.  *)
(* Names are the well-known ones; unique names are never used again.        *)
(* The monitor lives as long as the process: nothing frees the launcher.    *)
(***************************************************************************)
EXTENDS Naturals, Sequences

CONSTANTS
    Name,       \* well-known bus names
    Owner,      \* connections of applications
    None,
    MaxChanges  \* events on the bus

VARIABLES
    owner,    \* who owns each name
    exported, \* connections that export org.freedesktop.Application
    left,     \* connections that are closed
    changes,  \* events so far
    signals,  \* signals that wait to be dispatched
    phase,    \* where the thread is: "start", "scan", "asking", "reporting", "loop"
    toScan,   \* names that ListNames returned and that are not looked at yet
    asked,    \* the name and the connection that is introspected
    found,    \* the answer
    pending,  \* pending_connections
    table,    \* dbus_name_to_object_path
    slow,     \* connections that did not answer within a second
    odd       \* connections that had two names in pending, or gave up one that was

vars == <<owner, exported, left, changes, signals, phase, toScan, asked, found, pending,
          table, slow, odd>>
busVars == <<owner, exported, left, changes>>

Maybe(S) == S \cup {None}
Pair == [name : Name, owner : Owner]

TypeOK ==
    /\ owner \in [Name -> Maybe(Owner)]
    /\ exported \in SUBSET Owner /\ left \in SUBSET Owner /\ slow \in SUBSET Owner
    /\ changes \in 0 .. MaxChanges
    /\ signals \in Seq([name : Maybe(Name), old : Maybe(Owner), new : Maybe(Owner)])
    /\ phase \in {"start", "scan", "asking", "reporting", "loop"}
    /\ toScan \in SUBSET Name /\ odd \in SUBSET Owner
    /\ asked \in Maybe(Pair) /\ found \in BOOLEAN
    /\ pending \in Seq(Pair)
    /\ table \in [Name -> Maybe(Owner)]

\* The applications that were there before, each with at most one name.
Init ==
    /\ owner \in {o \in [Name -> Maybe(Owner)] :
                    \A n, m \in Name : n # m /\ o[n] # None => o[n] # o[m]}
    /\ exported \in SUBSET {owner[n] : n \in Name} \ {None}
    /\ exported \subseteq Owner
    /\ left = {} /\ changes = 0 /\ signals = <<>>
    /\ phase = "start" /\ toScan = {} /\ asked = None /\ found = FALSE
    /\ pending = <<>>
    /\ table = [n \in Name |-> None]
    /\ slow = {} /\ odd = {}

-----------------------------------------------------------------------------
(* The bus and the applications.                                           *)

\* Signals reach the monitor once it has its matches.
Emit(s) == signals' = IF phase = "start" THEN signals ELSE Append(signals, s)

Happens ==
    /\ changes < MaxChanges
    /\ changes' = changes + 1
    /\ UNCHANGED <<phase, toScan, asked, found, pending, table, slow, odd>>

\* A name is requested, handed over or released.
Change(n, o) ==
    /\ Happens
    /\ o # owner[n] /\ o \notin left
    /\ owner' = [owner EXCEPT ![n] = o]
    /\ Emit([name |-> n, old |-> owner[n], new |-> o])
    /\ UNCHANGED <<exported, left>>

\* A connection without a name is closed.
Leave(o) ==
    /\ Happens
    /\ o \notin left /\ \A n \in Name : owner[n] # o
    /\ left' = left \cup {o}
    /\ exported' = exported \ {o}
    /\ UNCHANGED <<owner, signals>>

\* The application interface appears; ObjectManager announces it.
Export(o) ==
    /\ Happens
    /\ o \notin left \cup exported
    /\ exported' = exported \cup {o}
    /\ Emit([name |-> None, old |-> o, new |-> None])
    /\ UNCHANGED <<owner, left>>

-----------------------------------------------------------------------------
(* The thread.                                                             *)

\* add_match, three times, and ListNames.
StartScan ==
    /\ phase = "start"
    /\ phase' = "scan"
    /\ toScan' = {n \in Name : owner[n] # None}
    /\ UNCHANGED <<busVars, signals, asked, found, pending, table, slow, odd>>

\* GetNameOwner
ScanName(n) ==
    /\ phase = "scan" /\ n \in toScan
    /\ toScan' = toScan \ {n}
    /\ \/ /\ owner[n] = None
          /\ UNCHANGED <<phase, asked>>
       \/ /\ owner[n] # None
          /\ phase' = "asking"
          /\ asked' = [name |-> n, owner |-> owner[n]]
    /\ UNCHANGED <<busVars, signals, found, pending, table, slow, odd>>

EndScan ==
    /\ phase = "scan" /\ toScan = {}
    /\ phase' = "loop"
    /\ UNCHANGED <<busVars, signals, toScan, asked, found, pending, table, slow, odd>>

\* find_app_recursive: a closed connection answers with an error, and one that
\* takes more than a second might as well.
Introspect ==
    /\ phase = "asking"
    /\ phase' = "reporting"
    /\ \/ found' = (asked.owner \in exported) /\ UNCHANGED slow
       \/ found' = FALSE /\ slow' = slow \cup {asked.owner}
    /\ UNCHANGED <<busVars, signals, toScan, asked, pending, table, odd>>

\* Faulty variant: a connection without the interface is not remembered.
Pend_Not == UNCHANGED <<pending, odd>>

\* add_pending_connection
Pend ==
    /\ pending' = Append(pending, asked)
    /\ odd' = IF \E i \in 1 .. Len(pending) : /\ pending[i].owner = asked.owner
                                              /\ pending[i].name # asked.name
              THEN odd \cup {asked.owner} ELSE odd

\* The callback, or else the entry waits for the interface.
Report ==
    /\ phase = "reporting"
    /\ \/ /\ found
          /\ table' = [table EXCEPT ![asked.name] = asked.owner]
          /\ UNCHANGED <<pending, odd>>
       \/ ~ found /\ Pend /\ UNCHANGED table
    /\ phase' = IF toScan = {} THEN "loop" ELSE "scan"
    /\ asked' = None
    /\ UNCHANGED <<busVars, signals, toScan, found, slow>>

\* The places of a name and its connection in pending_connections.
Entries(n, o) == {i \in 1 .. Len(pending) : pending[i] = [name |-> n, owner |-> o]}

\* message_filter on NameOwnerChanged
OwnerChanged ==
    /\ phase = "loop" /\ signals # <<>>
    /\ LET s == Head(signals) IN
          /\ s.name # None
          /\ signals' = Tail(signals)
          /\ table' = IF s.old = None THEN table ELSE [table EXCEPT ![s.name] = None]
          /\ \/ s.new = None /\ UNCHANGED <<phase, asked>>
             \/ /\ s.new # None
                /\ phase' = "asking"
                /\ asked' = [name |-> s.name, owner |-> s.new]
          /\ odd' = IF Entries(s.name, s.old) = {} THEN odd ELSE odd \cup {s.old}
    /\ UNCHANGED <<busVars, toScan, found, pending, slow>>

\* message_filter on InterfacesAdded: the first entry of that sender.
InterfacesAdded ==
    /\ phase = "loop" /\ signals # <<>>
    /\ LET o == Head(signals).old
           mine == {i \in 1 .. Len(pending) : pending[i].owner = o}
       IN /\ Head(signals).name = None
          /\ signals' = Tail(signals)
          /\ \/ /\ mine = {}
                /\ UNCHANGED <<pending, table>>
             \/ \E i \in mine :
                /\ \A k \in mine : i <= k
                /\ table' = [table EXCEPT ![pending[i].name] = o]
                /\ pending' = SubSeq(pending, 1, i - 1)
                                \o SubSeq(pending, i + 1, Len(pending))
    /\ UNCHANGED <<busVars, phase, toScan, asked, found, slow, odd>>

Next ==
    \/ \E n \in Name, o \in Maybe(Owner) : Change(n, o)
    \/ \E o \in Owner : Leave(o) \/ Export(o)
    \/ StartScan \/ EndScan \/ \E n \in Name : ScanName(n)
    \/ Introspect \/ Report \/ OwnerChanged \/ InterfacesAdded

Spec == Init /\ [][Next]_vars

-----------------------------------------------------------------------------
(* Properties.                                                             *)

\* Everything the bus said has been handled.
CaughtUp == phase = "loop" /\ signals = <<>>

\* An entry that the launcher would activate belongs to the present owner of the
\* name, whatever the bus did during the scan.  The exception is a connection that
\* gave the name up while the monitor waited for its interface: its entry stays
\* pending, and the interface, when it comes, overwrites the table.
EntriesAreCurrent ==
    CaughtUp => \A n \in Name : table[n] \in {None, owner[n]} \cup odd

\* No application is missed: neither one that was there before the scan, nor one
\* that appeared during it, nor one whose interface came later than its name.
\* The exceptions, besides the one above, are a connection that was slow to answer
\* and one with two pending names, since its interface settles one of them only.
AppsAreFound ==
    CaughtUp =>
        \A n \in Name :
            owner[n] \in exported \ (slow \cup odd) => table[n] \in {owner[n]} \cup odd

\* The launcher's table and the bus agree once all is handled: neither a stale
\* entry nor a missed application.
TableMirrorsBus == EntriesAreCurrent /\ AppsAreFound

=============================================================================
