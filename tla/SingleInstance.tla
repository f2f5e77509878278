---------------------------- MODULE SingleInstance ----------------------------
(***************************************************************************)
(* One dat0 per user: the pid file and its lock, the socket a second       *)
(* launch hands its paths over, and what an instance does to the directory *)
(* of sessions because it takes itself for the only one.                   *)
(*                                                                         *)
(* A file is known by the launch that made it: the name dat0.pid may be    *)
(* unlinked and made again while a process has the old file open, and a    *)
(* lock is on the file, not on the name.  The same goes for the socket.    *)
(* An instance is a main thread, the task that serves the socket, which    *)
(* owns the lock, and the thread of the boot sweep.                        *)
(***************************************************************************)
CONSTANTS
  Launches,  \* the launches of the program, each a process of its own
  Nobody,    \* no file, no holder
  Hazards    \* what the environment may do to this run, of AllHazards

AllHazards == {"bind",  \* the socket cannot be bound, or its name is too long
               "boot"}  \* a step between the lock and the event loop fails

ASSUME InstanceAssumption == Nobody \notin Launches /\ Hazards \subseteq AllHazards

VARIABLES
  pidfile,   \* the file linked as dat0.pid
  sock,      \* the launch whose socket is linked as dat0.sock
  holder,    \* who has the flock of each pid file
  fd,        \* the pid file each launch has open
  main,      \* each launch's main thread
  serve,     \* each launch's task that serves the socket
  inbox,     \* the launches whose paths an instance has been sent
  due,       \* launches whose boot sweep has yet to run
  shown,     \* launches that have a window on a new session
  dirs,      \* launches whose window's scratch directory, with no record, exists
  released   \* history: an AppLock has been dropped, not only its file closed

files == <<pidfile, sock, holder, fd>>
procs == <<main, serve, inbox, due>>
launchVars == <<files, procs, shown, dirs, released>>

Running == {p \in Launches : main[p] \in {"locked", "running", "stopping"}}
Listens(p) == serve[p] = "bound"

-----------------------------------------------------------------------------
(* Launch. *)

\* Mutant: the socket a crashed instance left is removed before the lock is tried.
MutantClearSock(p) ==
  /\ main[p] = "off"
  /\ pidfile' = IF pidfile = Nobody THEN p ELSE pidfile
  /\ fd' = [fd EXCEPT ![p] = pidfile']
  /\ main' = [main EXCEPT ![p] = "opened"]
  /\ sock' = Nobody
  /\ UNCHANGED <<holder, serve, inbox, due, shown, dirs, released>>

\* try_acquire opens the pid file, creating it if there is none, ...
OpenPid(p) ==
  /\ main[p] = "off"
  /\ pidfile' = IF pidfile = Nobody THEN p ELSE pidfile
  /\ fd' = [fd EXCEPT ![p] = pidfile']
  /\ main' = [main EXCEPT ![p] = "opened"]
  /\ UNCHANGED <<sock, holder, serve, inbox, due, shown, dirs, released>>

\* Mutant: the pid written in the file is trusted, not the lock.
MutantTryLock(p) ==
  /\ main[p] = "opened"
  /\ holder' = [holder EXCEPT ![fd[p]] = p]
  /\ main' = [main EXCEPT ![p] = "locked"]
  /\ due' = due \cup {p}
  /\ UNCHANGED <<pidfile, sock, fd, serve, inbox, shown, dirs, released>>

\* ... and tries its lock.  The winner writes its pid, which may fail and close
\* the file again, and starts the sweep; another closes the file.
TryLock(p) ==
  /\ main[p] = "opened"
  /\ \/ /\ holder[fd[p]] = Nobody
        /\ holder' = [holder EXCEPT ![fd[p]] = p]
        /\ main' = [main EXCEPT ![p] = "locked"]
        /\ due' = due \cup {p}
        /\ UNCHANGED fd
     \/ /\ holder[fd[p]] = Nobody /\ "boot" \in Hazards
        /\ main' = [main EXCEPT ![p] = "failed"]
        /\ fd' = [fd EXCEPT ![p] = Nobody]
        /\ UNCHANGED <<holder, due>>
     \/ /\ holder[fd[p]] # Nobody
        /\ main' = [main EXCEPT ![p] = "lost"]
        /\ fd' = [fd EXCEPT ![p] = Nobody]
        /\ UNCHANGED <<holder, due>>
  /\ UNCHANGED <<pidfile, sock, serve, inbox, shown, dirs, released>>

\* Mutant: a launch that finds no listener waits for one.
MutantForward(p) ==
  /\ main[p] = "lost" /\ sock # Nobody /\ Listens(sock)
  /\ inbox' = [inbox EXCEPT ![sock] = @ \cup {p}]
  /\ main' = [main EXCEPT ![p] = "sent"]
  /\ UNCHANGED <<files, serve, due, shown, dirs, released>>

\* forward_open_window: one connection, to whatever socket has the name; the
\* launch ends, in error where nobody listens.  Its comment has the caller try
\* again where the socket is not bound yet; main does not.
Forward(p) ==
  /\ main[p] = "lost"
  /\ IF sock # Nobody /\ Listens(sock)
     THEN /\ inbox' = [inbox EXCEPT ![sock] = @ \cup {p}]
          /\ main' = [main EXCEPT ![p] = "sent"]
     ELSE main' = [main EXCEPT ![p] = "refused"] /\ UNCHANGED inbox
  /\ UNCHANGED <<files, serve, due, shown, dirs, released>>

\* run_app spawns the task that takes the lock with it; or the crash marker or
\* the runtime cannot be made, and main returns, dropping the lock.
Run(p) ==
  /\ main[p] = "locked"
  /\ \/ /\ main' = [main EXCEPT ![p] = "running"]
        /\ serve' = [serve EXCEPT ![p] = "start"]
     \/ /\ "boot" \in Hazards
        /\ main' = [main EXCEPT ![p] = "stopping"]
        /\ serve' = [serve EXCEPT ![p] = "drop"]
  /\ UNCHANGED <<files, inbox, due, shown, dirs, released>>

-----------------------------------------------------------------------------
(* The task that serves the socket. *)

\* serve removes the socket a crashed instance left, ...
ClearStale(p) ==
  /\ serve[p] = "start"
  /\ sock' = Nobody
  /\ serve' = [serve EXCEPT ![p] = "clear"]
  /\ UNCHANGED <<pidfile, holder, fd, main, inbox, due, shown, dirs, released>>

\* ... and binds its own.  Where it cannot, the task ends and its lock drops.
Bind(p) ==
  /\ serve[p] = "clear"
  /\ \/ sock = Nobody /\ sock' = p /\ serve' = [serve EXCEPT ![p] = "bound"]
     \/ /\ sock # Nobody \/ "bind" \in Hazards
        /\ serve' = [serve EXCEPT ![p] = "drop"] /\ UNCHANGED sock
  /\ UNCHANGED <<pidfile, holder, fd, main, inbox, due, shown, dirs, released>>

\* Drop for AppLock: the name of the pid file, the name of the socket, and
\* only then the file, with its lock.  A process whose main had returned ends.
UnlinkPid(p) ==
  /\ serve[p] = "drop"
  /\ pidfile' = Nobody /\ released' = TRUE
  /\ serve' = [serve EXCEPT ![p] = "nopid"]
  /\ UNCHANGED <<sock, holder, fd, main, inbox, due, shown, dirs>>
UnlinkSock(p) ==
  /\ serve[p] = "nopid"
  /\ sock' = Nobody
  /\ serve' = [serve EXCEPT ![p] = "nosock"]
  /\ UNCHANGED <<pidfile, holder, fd, main, inbox, due, shown, dirs, released>>
Unlock(p) ==
  /\ serve[p] = "nosock"
  /\ holder' = [holder EXCEPT ![fd[p]] = Nobody]
  /\ fd' = [fd EXCEPT ![p] = Nobody]
  /\ serve' = [serve EXCEPT ![p] = "ended"]
  /\ IF main[p] = "stopping"
     THEN main' = [main EXCEPT ![p] = "gone"] /\ due' = due \ {p}
     ELSE UNCHANGED <<main, due>>
  /\ UNCHANGED <<pidfile, sock, inbox, shown, dirs, released>>

\* A connection's lines are read, and a window opens on the paths.
Accept(p, q) ==
  /\ q \in inbox[p]
  /\ inbox' = [inbox EXCEPT ![p] = @ \ {q}]
  /\ UNCHANGED <<files, main, serve, due, shown, dirs, released>>

-----------------------------------------------------------------------------
(* Sessions. *)

\* The instance opens a window on a session, which has recorded nothing yet.
Show(p) ==
  /\ main[p] = "running" /\ p \notin shown
  /\ shown' = shown \cup {p} /\ dirs' = dirs \cup {p}
  /\ UNCHANGED <<files, procs, released>>

\* sweep_scratch removes the sessions with nothing recorded that no window of
\* this process has open.
Sweep(p) ==
  /\ p \in due
  /\ due' = due \ {p}
  /\ dirs' = dirs \cap {p}
  /\ UNCHANGED <<files, main, serve, inbox, shown, released>>

-----------------------------------------------------------------------------
\* The user quits, which drops nothing, or the process is killed: the kernel
\* closes its files.
Die(p) ==
  /\ p \in Running \/ main[p] \in {"opened", "lost"}
  /\ main' = [main EXCEPT ![p] = "gone"]
  /\ serve' = [serve EXCEPT ![p] = "off"]
  /\ holder' = [f \in Launches |-> IF holder[f] = p THEN Nobody ELSE holder[f]]
  /\ fd' = [fd EXCEPT ![p] = Nobody]
  /\ inbox' = [inbox EXCEPT ![p] = {}]
  /\ due' = due \ {p}
  /\ shown' = shown \ {p}
  /\ UNCHANGED <<pidfile, sock, dirs, released>>

LaunchInit ==
  /\ pidfile = Nobody /\ sock = Nobody
  /\ holder = [f \in Launches |-> Nobody]
  /\ fd = [p \in Launches |-> Nobody]
  /\ main = [p \in Launches |-> "off"]
  /\ serve = [p \in Launches |-> "off"]
  /\ inbox = [p \in Launches |-> {}]
  /\ due = {} /\ shown = {} /\ dirs = {} /\ released = FALSE

\* What a process does without the user.
Step(p) ==
  \/ TryLock(p) \/ Forward(p) \/ Run(p)
  \/ ClearStale(p) \/ Bind(p) \/ UnlinkPid(p) \/ UnlinkSock(p) \/ Unlock(p)
  \/ Sweep(p)

LaunchNext == \E p \in Launches :
  \/ OpenPid(p) \/ Step(p) \/ Show(p) \/ Die(p)
  \/ \E q \in Launches : Accept(p, q)

LaunchSpec == LaunchInit /\ [][LaunchNext]_launchVars

\* The system schedules a process that can go on, and the executor a task that
\* has a line to read.  Whether anyone launches or quits is theirs.
Fairness == \A p \in Launches :
  /\ WF_launchVars(Step(p))
  /\ \A q \in Launches : WF_launchVars(Accept(p, q))

FairLaunchSpec == LaunchSpec /\ Fairness

-----------------------------------------------------------------------------
(* Properties. *)

\* The type of every variable, and that a launch about to try the lock has a
\* file to try it on.
LaunchTypeOK ==
  /\ pidfile \in Launches \cup {Nobody} /\ sock \in Launches \cup {Nobody}
  /\ holder \in [Launches -> Launches \cup {Nobody}]
  /\ fd \in [Launches -> Launches \cup {Nobody}]
  /\ main \in [Launches -> {"off", "opened", "locked", "running", "stopping",
                            "lost", "sent", "refused", "failed", "gone"}]
  /\ serve \in [Launches -> {"off", "start", "clear", "bound", "drop", "nopid", "nosock",
                             "ended"}]
  /\ inbox \in [Launches -> SUBSET Launches]
  /\ due \in SUBSET Launches /\ shown \in SUBSET Launches /\ dirs \in SUBSET Launches
  /\ released \in BOOLEAN
  /\ \A p \in Launches : main[p] = "opened" => fd[p] # Nobody

\* However launches, exits and kills interleave, two instances run at once only
\* if an AppLock was dropped: by an instance that could not bind its socket, or
\* by one whose start failed.
OneInstance == ~released => \A p, q \in Running : p = q

\* As long as none was, the socket's name leads to the instance that serves:
\* neither a launch that loses nor one that starts takes it away.
Reachable == ~released => \A p \in Launches : Listens(p) => sock = p

\* A launch comes to run, or to fail in its own start, or it hands its paths to
\* an instance that opens them or ends.  It is refused only while nobody
\* listens, which is so between an instance's lock and its bind.
Answered ==
  /\ \A p \in Launches :
       main[p] = "opened" ~>
         \/ main[p] \in {"running", "failed", "gone", "refused"}
         \/ main[p] = "sent" /\ \A q \in Launches : p \notin inbox[q]
  /\ [][\A p, q \in Launches :
          main[p] = "lost" /\ main'[p] = "refused" => ~Listens(q) \/ released]_launchVars

\* launch.rs: when the sweep runs this is the only instance, and every scratch
\* directory belongs to a window that is gone.
SweepSparesWindows == shown \subseteq dirs
=============================================================================
