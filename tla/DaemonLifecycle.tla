-------------------------- MODULE DaemonLifecycle --------------------------
(***************************************************************************)
(* How a machine comes to run one daemon: tp-daemon processes contend for  *)
(* the pid file (tp-daemon/src/daemon_lock.rs), bind the IPC socket at one *)
(* path and keep its directory entry alive (ipc/server.rs), and give both  *)
(* up when they are told to stop (bin/tp_daemon.rs).  Commands that need a *)
(* daemon probe the socket, start the service or spawn a daemon, and poll  *)
(* (tp-cli/src/ensure_daemon.rs).  Every system call is a step: files can  *)
(* change between any two of them.                                         *)
(*                                                                         *)
(* A file is named by the process that created it, which stands for its    *)
(* inode: a process that created the lock file writes its pid through the  *)
(* descriptor it holds, wherever the path leads by then.  What a process   *)
(* that ended leaves behind is Dead's, so that its name can be used again  *)
(* and pid reuse is left out.  Time-outs of polls are nondeterministic     *)
(* choices.                                                                *)
(***************************************************************************)
EXTENDS Naturals, FiniteSets

CONSTANTS Procs,      \* tp-daemon processes
          Clis,       \* commands that call ensure_daemon
          Nobody,     \* no file, no process
          MaxFaults   \* crashes, signals, lost files and failing calls in one behaviour

\* The owner of what a process that ended has left behind.
Dead == "dead"

\* What a pid file holds: who created it, and the pid written into it.
PidFiles == [by : Procs \cup {Dead}, pid : Procs \cup {Dead, Nobody}]

ASSUME LifecycleAssumption ==
    /\ Nobody \notin Procs \cup {Dead} \cup PidFiles
    /\ Dead \notin Procs
    /\ MaxFaults \in Nat

VARIABLES
    pc,        \* pc[p]: what process p does next
    heal,      \* heal[p]: what the socket heal timer of p does next
    lock,      \* the pid file: Nobody or [by, pid], pid = Nobody while empty
    sock,      \* whose listening socket the path leads to; Nobody: no socket there
    cli,       \* cli[c]: what command c does next
    service,   \* the launchd service: "absent", "loaded", or "unloaded" with its plist
    svc,       \* the process the service manager runs
    faults,    \* crashes, signals and lost files so far
    hinted     \* the marker file of the install prompt exists

fileVars == <<lock, sock, hinted>>
procVars == <<pc, heal>>
daemonVars == <<pc, heal, lock, sock, cli, service, svc, faults, hinted>>

Booting == {"open", "read", "unlink", "open2", "read2", "write", "new", "clear", "bind"}
Accepting == {"boot", "serve", "release", "unlock", "stop"}
Ended == "ended"

Alive(p) == p \in Procs /\ pc[p] # Ended

\* The socket at the path belongs to a process that still accepts.
Reachable == sock \in Procs /\ pc[sock] \in Accepting

\* A pid file left by a daemon of the machine's last run.
StaleLock == [by |-> Dead, pid |-> Dead]

DaemonInit ==
    /\ pc = [p \in Procs |-> Ended]
    /\ heal = [p \in Procs |-> "idle"]
    /\ lock \in {Nobody, StaleLock}
    /\ sock = Nobody
    /\ cli = [c \in Clis |-> "idle"]
    /\ service \in {"absent", "unloaded"}
    /\ svc = Nobody
    /\ faults = 0
    /\ hinted = FALSE

Fault == faults < MaxFaults /\ faults' = faults + 1

Goes(p, where) == pc' = [pc EXCEPT ![p] = where]

\* A process that was not running is executed.
Execs(p) == ~Alive(p) /\ Goes(p, "open") /\ UNCHANGED heal

\* A process ends; its pid file, if it still has one, and its socket stay behind.
Ends(p) ==
    /\ Goes(p, Ended)
    /\ heal' = [heal EXCEPT ![p] = "idle"]
    /\ lock' = IF lock = Nobody \/ lock.by # p THEN lock
               ELSE [by |-> Dead, pid |-> IF lock.pid = p THEN Dead ELSE Nobody]
    /\ sock' = IF sock = p THEN Dead ELSE sock

-----------------------------------------------------------------------------
\* acquire_daemon_lock

\* open(O_CREAT | O_EXCL): the one atomic step of the lock.
CreateLock(p) ==
    /\ pc[p] \in {"open", "open2"}
    /\ IF lock = Nobody
       THEN lock' = [by |-> p, pid |-> Nobody] /\ Goes(p, "write")
       ELSE lock' = lock /\ Goes(p, IF pc[p] = "open" THEN "read" ELSE "read2")
    /\ UNCHANGED <<heal, sock, cli, service, svc, faults, hinted>>

\* The lock names a live process; an empty, missing or dead one is taken for stale.
HeldByLive == lock # Nobody /\ Alive(lock.pid)

\* Mutant: a stale lock is never taken over.
NeverRetries(p) ==
    /\ pc[p] \in {"read", "read2"}
    /\ Goes(p, Ended)
    /\ UNCHANGED <<heal, lock, sock, cli, service, svc, faults, hinted>>

\* After a live holder, or a second collision, the process exits.
ReadLock(p) ==
    /\ pc[p] \in {"read", "read2"}
    /\ Goes(p, IF HeldByLive \/ pc[p] = "read2" THEN Ended ELSE "unlink")
    /\ UNCHANGED <<heal, lock, sock, cli, service, svc, faults, hinted>>

\* remove_file takes whatever is at the path now, not the file that was read.
RemoveLock(p, where) ==
    /\ lock' = Nobody
    /\ Goes(p, where)
    /\ UNCHANGED <<heal, sock, cli, service, svc, faults, hinted>>

RemoveStale(p) == pc[p] = "unlink" /\ RemoveLock(p, "open2")

WritePid(p) ==
    /\ pc[p] = "write"
    /\ lock' = IF lock # Nobody /\ lock.by = p THEN [lock EXCEPT !.pid = p] ELSE lock
    /\ Goes(p, "new")
    /\ UNCHANGED <<heal, sock, cli, service, svc, faults, hinted>>

-----------------------------------------------------------------------------
\* main after the lock: open the store, bind the socket, wait for a signal

\* Daemon::new; a store that cannot be opened releases the lock and exits.
OpenStore(p) ==
    /\ pc[p] = "new"
    /\ \/ Goes(p, "clear") /\ UNCHANGED faults
       \/ Fault /\ Goes(p, "release")
    /\ UNCHANGED <<heal, lock, sock, cli, service, svc, hinted>>

UnlinkSocket(p) ==
    /\ pc[p] = "clear"
    /\ sock' = Nobody
    /\ Goes(p, "bind")
    /\ UNCHANGED <<heal, lock, cli, service, svc, faults, hinted>>

\* bind fails when another daemon's socket is at the path again.
BindSocket(p) ==
    /\ pc[p] = "bind"
    /\ IF sock = Nobody THEN sock' = p /\ Goes(p, "boot")
                        ELSE sock' = sock /\ Goes(p, "release")
    /\ UNCHANGED <<heal, lock, cli, service, svc, faults, hinted>>

\* start_auto_cleanup, the reconnect task and the signal handlers.
Boot(p) ==
    /\ pc[p] = "boot"
    /\ Goes(p, "serve")
    /\ UNCHANGED <<heal, fileVars, cli, service, svc, faults>>

\* release_daemon_lock reads the pid first and removes only its own ...
ReleaseReads(p) ==
    /\ pc[p] = "release"
    /\ Goes(p, IF lock # Nobody /\ lock.pid = p THEN "unlock" ELSE "stop")
    /\ UNCHANGED <<heal, fileVars, cli, service, svc, faults>>

ReleaseRemoves(p) == pc[p] = "unlock" /\ RemoveLock(p, "stop")

\* ... and Daemon::stop ends the heal timer and the listener, and leaves the
\* socket's directory entry behind.
Stop(p) ==
    /\ pc[p] = "stop"
    /\ Ends(p)
    /\ UNCHANGED <<cli, service, svc, faults, hinted>>

\* Mutant: no heal timer.
HealNever(p) == FALSE

\* The heal timer: a path that is no socket is bound again.  A socket of another
\* daemon, even a dead one, counts as healthy.
HealChecks(p) ==
    /\ pc[p] \in Accepting /\ heal[p] = "idle" /\ sock = Nobody
    /\ heal' = [heal EXCEPT ![p] = "unlink"]
    /\ UNCHANGED <<pc, fileVars, cli, service, svc, faults>>

\* What is at the path is removed and the path bound; a failure of either leaves it
\* to the next tick.
Rebind(p) ==
    /\ pc[p] \in Accepting
    /\ \/ /\ heal[p] = "unlink" /\ sock' = Nobody
          /\ heal' = [heal EXCEPT ![p] = "bind"] /\ UNCHANGED faults
       \/ /\ heal[p] = "unlink" /\ Fault
          /\ heal' = [heal EXCEPT ![p] = "idle"] /\ UNCHANGED sock
       \/ /\ heal[p] = "bind" /\ UNCHANGED faults
          /\ sock' = IF sock = Nobody THEN p ELSE sock
          /\ heal' = [heal EXCEPT ![p] = "idle"]
    /\ UNCHANGED <<pc, lock, cli, service, svc, hinted>>

-----------------------------------------------------------------------------
\* ensure_daemon

CliGoes(c, where) == cli' = [cli EXCEPT ![c] = where]

EnsureDaemon(c) ==
    /\ cli[c] = "idle"
    /\ CliGoes(c, IF Reachable THEN "ok" ELSE "start")
    /\ UNCHANGED <<procVars, fileVars, service, svc, faults>>

\* An installed service is kickstarted, which starts a loaded one that does not run;
\* the result is not looked at.
StartService(c) ==
    /\ cli[c] = "start"
    /\ service # "absent"
    /\ CliGoes(c, "wait")
    /\ IF service = "loaded" /\ ~Alive(svc)
       THEN \E p \in Procs : Execs(p) /\ svc' = p
       ELSE UNCHANGED <<svc, procVars>>
    /\ UNCHANGED <<fileVars, service, faults>>

\* Without a service, or when the service brought no daemon in time, one is spawned.
SpawnBackgroundDaemon(c) ==
    /\ \/ cli[c] = "start" /\ service = "absent"
       \/ cli[c] = "late"
    /\ CliGoes(c, "wait2")
    /\ \E p \in Procs \ {svc} : Execs(p)
    /\ UNCHANGED <<fileVars, service, svc, faults>>

\* wait_for_daemon_ready polls until a connect succeeds or the time is over.
PollSucceeds(c) ==
    /\ cli[c] \in {"wait", "wait2"} /\ Reachable
    /\ CliGoes(c, IF cli[c] = "wait" THEN "ok" ELSE "hint")
    /\ UNCHANGED <<procVars, fileVars, service, svc, faults>>

PollTimesOut(c) ==
    /\ cli[c] \in {"wait", "wait2"} /\ ~Reachable
    /\ CliGoes(c, IF cli[c] = "wait" THEN "late" ELSE "failed")
    /\ UNCHANGED <<procVars, fileVars, service, svc, faults>>

\* show_install_hint, after a successful spawn: a terminal is asked, anything else gets
\* one line and the marker, and neither when the marker or a service is there.
PromptMode(tty) ==
    IF hinted \/ service # "absent" THEN "skip" ELSE IF tty THEN "prompt" ELSE "hint"

ShowInstallHint(c) ==
    /\ cli[c] = "hint"
    /\ \E tty \in BOOLEAN :
          /\ CliGoes(c, IF PromptMode(tty) = "prompt" THEN "asked" ELSE "ok")
          /\ hinted' = (hinted \/ PromptMode(tty) = "hint")
    /\ UNCHANGED <<procVars, lock, sock, service, svc, faults>>

\* The answer stamps the marker, and an accepted offer installs the service.
AnswerPrompt(c) ==
    /\ cli[c] = "asked"
    /\ hinted' = TRUE
    /\ \E accepted \in BOOLEAN : CliGoes(c, IF accepted THEN "install" ELSE "ok")
    /\ UNCHANGED <<procVars, lock, sock, service, svc, faults>>

\* install_darwin writes the plist and bootstraps the service, once the old one is gone ...
Bootstrap ==
    /\ service # "loaded" /\ ~Alive(svc)
    /\ service' = "loaded"
    /\ \E p \in Procs : Execs(p) /\ svc' = p

\* ... and returns false when the plist cannot be written or launchctl refuses.
InstallFails ==
    /\ service' \in {service, IF service = "absent" THEN "unloaded" ELSE service}
    /\ UNCHANGED <<procVars, svc>>

InstallFromPrompt(c) ==
    /\ cli[c] = "install"
    /\ CliGoes(c, "ok")
    /\ Bootstrap \/ InstallFails
    /\ UNCHANGED <<fileVars, faults>>

\* The command has its answer; a later command asks again.
CliDone(c) ==
    /\ cli[c] \in {"ok", "failed"}
    /\ CliGoes(c, "idle")
    /\ UNCHANGED <<procVars, fileVars, service, svc, faults>>

-----------------------------------------------------------------------------
\* signals, the service manager, and what happens to a machine

\* SIGTERM ends a process that has not installed its handlers, and makes a daemon
\* that has leave its main loop.
Signalled(p) ==
    \/ pc[p] \in Booting \cup {"boot"} /\ Ends(p)
    \/ pc[p] = "serve" /\ Goes(p, "release") /\ UNCHANGED <<heal, lock, sock>>
    \/ pc[p] \in {"release", "unlock", "stop"} /\ UNCHANGED <<procVars, lock, sock>>

\* launchctl bootout, the first half of tp daemon stop, install and uninstall.
Bootout ==
    /\ Fault /\ service = "loaded"
    /\ service' = "unloaded"
    /\ IF Alive(svc) THEN Signalled(svc) ELSE UNCHANGED <<procVars, lock, sock>>
    /\ UNCHANGED <<cli, svc, hinted>>

\* tp daemon stop signals the process the pid file names.
StopDaemon ==
    /\ Fault /\ HeldByLive
    /\ Signalled(lock.pid)
    /\ UNCHANGED <<cli, service, svc, hinted>>

\* tp daemon install.
InstallDarwin ==
    /\ Bootstrap \/ InstallFails
    /\ UNCHANGED <<fileVars, cli, faults>>

\* tp daemon uninstall removes the plist after the bootout.
UninstallDarwin ==
    /\ service = "unloaded"
    /\ service' = "absent"
    /\ UNCHANGED <<procVars, fileVars, cli, svc, faults>>

\* KeepAlive.
KeepAlive ==
    /\ service = "loaded" /\ ~Alive(svc)
    /\ \E p \in Procs : Execs(p) /\ svc' = p
    /\ UNCHANGED <<fileVars, cli, service, faults>>

Crash(p) ==
    /\ Fault /\ Alive(p)
    /\ Ends(p)
    /\ UNCHANGED <<cli, service, svc, hinted>>

\* The directory entry is unlinked under a live daemon.
SocketLost ==
    /\ Fault /\ sock # Nobody
    /\ sock' = Nobody
    /\ UNCHANGED <<procVars, lock, cli, service, svc, hinted>>

-----------------------------------------------------------------------------
MainStep(p) ==
    \/ CreateLock(p) \/ ReadLock(p) \/ RemoveStale(p) \/ WritePid(p)
    \/ OpenStore(p) \/ UnlinkSocket(p) \/ BindSocket(p) \/ Boot(p)
    \/ ReleaseReads(p) \/ ReleaseRemoves(p) \/ Stop(p)

HealStep(p) == HealChecks(p) \/ Rebind(p)

CliStep(c) == EnsureDaemon(c) \/ StartService(c) \/ SpawnBackgroundDaemon(c)
              \/ PollSucceeds(c) \/ PollTimesOut(c)
              \/ ShowInstallHint(c) \/ AnswerPrompt(c) \/ InstallFromPrompt(c) \/ CliDone(c)

DaemonNext ==
    \/ \E p \in Procs : MainStep(p) \/ HealStep(p) \/ Crash(p)
    \/ \E c \in Clis : CliStep(c)
    \/ Bootout \/ StopDaemon \/ InstallDarwin \/ UninstallDarwin \/ KeepAlive \/ SocketLost

\* A process has got the lock and has not begun to give it up.
Holding(p) == pc[p] \in {"write", "new", "clear", "bind", "boot", "serve"}

\* No two processes hold the lock: daemon_lock.rs says of its exclusive create that "no two
\* concurrent callers can both succeed".  The removal of a stale file takes whatever is at
\* the path by then, so they can.
OneDaemon == \A p, q \in Procs : Holding(p) /\ Holding(q) => p = q

\* A command that spawned a daemon comes to see one, whoever else is starting, as long
\* as no process is stopped or crashes (ensure_daemon, try_acquire's retry).
SpawnIsReached ==
    \A c \in Clis : (cli[c] = "wait2" /\ faults = 0) ~> (Reachable \/ faults > 0)

\* A daemon whose socket was unlinked under it comes to see a socket at the path again
\* (IpcServer::start_heal_timer).
SocketHeals ==
    \A p \in Procs : (pc[p] = "serve" /\ sock = Nobody) ~> (sock # Nobody \/ pc[p] # "serve")

=============================================================================
