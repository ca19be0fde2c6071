------------------------------- MODULE Runner --------------------------------
(***************************************************************************)
(* A runner process (rust/tp-runner): one select loop between the daemon's *)
(* socket, the hook socket, the terminal that claude runs in, and signals. *)
(*                                                                         *)
(* The runtime has a single thread, so what the code does between two      *)
(* awaits is one action, and a blocking write to the terminal stops the    *)
(* loop and the tasks of the connection alike.  The terminal's reader and  *)
(* waiter are threads of their own.  An arm of the select that is not      *)
(* taken is dropped with its future: the close notification that a future  *)
(* had received goes with it.                                              *)
(***************************************************************************)
EXTENDS Naturals, Sequences, SequencesExt

CONSTANTS
    Chunks,         \* bound: chunks of output claude writes
    MaxHooks,       \* bound: hook events
    MaxInbound,     \* bound: messages the daemon sends
    OUTBOUND_CAPACITY,
    DataCapacity    \* of the channel from the terminal's reader

ASSUME RunnerAssumption ==
    {Chunks, MaxHooks, MaxInbound, OUTBOUND_CAPACITY, DataCapacity} \subseteq Nat

VARIABLES
    pc,             \* "start", "loop", "writing" (input to the terminal),
                    \* "closing" (bye queued, 20 ms left), "over"
    socket,         \* the daemon's connection: "none", "open", "shut"
    reader, writer, \* do the two tasks of the connection run?
    out,            \* frames queued for the writer
    wire,           \* frames written to the socket
    inbound,        \* messages from the reader
    notified,       \* the loop's current closed() future has been woken
    hooks,          \* hook events queued for the loop
    child,          \* claude: "none", "alive", "dead"
    tty,            \* chunks written and not read yet
    data,           \* chunks read and queued for the loop
    readerDone,     \* the reader thread has ended
    exited,         \* the flag that Pty::kill looks at
    exit,           \* the waiter has queued the exit code
    signal,         \* SIGINT or SIGTERM has arrived
    made, hooked, told,   \* counts of chunks, hook events, daemon messages
    lost            \* history: output was lost before the loop got it

connVars == <<socket, reader, writer, wire, inbound>>
ptyVars == <<child, tty, data, readerDone, exited, exit>>
counts == <<made, hooked, told>>
vars == <<pc, connVars, out, notified, hooks, ptyVars, signal, counts, lost>>

Life == INSTANCE RunnerLife WITH over <- (pc = "over")

Init ==
    /\ pc = "start" /\ socket = "none" /\ child = "none"
    /\ reader = FALSE /\ writer = FALSE
    /\ out = << >> /\ wire = << >> /\ inbound = << >> /\ tty = << >> /\ data = << >>
    /\ notified = FALSE /\ readerDone = FALSE /\ exited = FALSE /\ exit = FALSE
    /\ signal = FALSE /\ lost = FALSE
    /\ hooks = 0 /\ made = 0 /\ hooked = 0 /\ told = 0

-----------------------------------------------------------------------------
(* Start.  After the connection is made nothing is awaited until the loop. *)

Connected ==
    /\ socket' = "open"
    /\ reader' = TRUE /\ writer' = TRUE

\* Pty::spawn: claude on a new terminal, a reader and a waiter thread.
SpawnPty == child' = "alive"

\* HookReceiver::start and stop; what is queued when the loop ends is dropped.
StartHooks == hooks' = 0
StopHooks == hooks' = 0

\* run: connect, hello, hook receiver, settings, claude, and into the loop.
Start ==
    /\ pc = "start" /\ ~signal
    /\ Connected /\ StartHooks /\ SpawnPty
    /\ out' = <<Life!Hello>>
    /\ pc' = "loop"
    /\ UNCHANGED <<wire, inbound, notified, tty, data, readerDone, exited, exit, signal, counts,
                   lost>>

\* No daemon, a hook socket that cannot be bound, a malformed configuration, a
\* command that cannot be spawned: run returns before the writer task has run, so
\* the hello it may have queued is not written.
StartFails ==
    /\ pc = "start"
    /\ pc' = "over"
    /\ UNCHANGED <<connVars, out, notified, hooks, ptyVars, signal, counts, lost>>

\* wait_for_signal installs its handlers when the loop first polls it; a signal
\* that comes during a write is only noted.
Signal ==
    /\ pc \in {"loop", "writing"} /\ ~signal
    /\ signal' = TRUE
    /\ UNCHANGED <<pc, connVars, out, notified, hooks, ptyVars, counts, lost>>

-----------------------------------------------------------------------------
(* The connection's tasks.                                                 *)

\* notify_waiters keeps nothing for later: it wakes the future that exists now.
NotifyWaiters == notified' = (pc = "loop")

\* from_ipc: acks, which change nothing, are resizes here.
Inbound == {"input", "resize"}

\* The runtime's one thread is free for the connection's tasks.
Polling == pc \notin {"writing", "over"}

DaemonSends(m) ==
    /\ socket = "open" /\ reader /\ told < MaxInbound /\ Polling
    /\ told' = told + 1
    /\ inbound' = Append(inbound, m)    \* from_ipc drops everything else
    /\ UNCHANGED <<pc, socket, reader, writer, wire, out, notified, hooks, ptyVars, signal,
                   made, hooked, lost>>

\* The daemon closes or dies, or the network layer fails.
DaemonCloses ==
    /\ socket = "open"
    /\ socket' = "shut"
    /\ UNCHANGED <<pc, reader, writer, wire, inbound, out, notified, hooks, ptyVars, signal,
                   counts, lost>>

\* The reader task ends at the end of the stream; a frame that cannot be decoded
\* ends it too, with the socket still open for writing.
ReaderEnds ==
    /\ reader /\ socket # "none" /\ Polling
    /\ reader' = FALSE
    /\ NotifyWaiters
    /\ UNCHANGED <<pc, socket, writer, wire, inbound, out, hooks, ptyVars, signal, counts, lost>>

\* The writer task: a frame that cannot be written ends it, and the queue with it.
Write ==
    /\ writer /\ out # << >> /\ Polling
    /\ IF socket = "open"
       THEN /\ wire' = Append(wire, Head(out))
            /\ out' = Tail(out)
            /\ UNCHANGED <<writer, notified>>
       ELSE /\ writer' = FALSE
            /\ out' = << >>
            /\ NotifyWaiters
            /\ UNCHANGED wire
    /\ UNCHANGED <<pc, socket, reader, inbound, hooks, ptyVars, signal, counts, lost>>

-----------------------------------------------------------------------------
(* Claude and the threads of its terminal.                                 *)

ClaudeWrites ==
    /\ child = "alive" /\ made < Chunks
    /\ made' = made + 1
    /\ tty' = Append(tty, made + 1)
    /\ UNCHANGED <<pc, connVars, out, notified, hooks, child, data, readerDone, exited, exit,
                   signal, hooked, told, lost>>

ClaudeExits ==
    /\ child = "alive"
    /\ child' = "dead"
    /\ UNCHANGED <<pc, connVars, out, notified, hooks, tty, data, readerDone, exited, exit,
                   signal, counts, lost>>

\* handle_conn: an event of the allowlist, complete and below the size limit.
HookArrives ==
    /\ child = "alive" /\ pc = "loop" /\ hooked < MaxHooks
    /\ hooked' = hooked + 1
    /\ hooks' = hooks + 1
    /\ UNCHANGED <<pc, connVars, out, notified, ptyVars, signal, made, told, lost>>

\* on_data: a chunk that finds the channel full is dropped.
ReadTty ==
    /\ ~readerDone /\ tty # << >> /\ pc # "over"
    /\ tty' = Tail(tty)
    /\ IF Len(data) < DataCapacity
       THEN data' = Append(data, Head(tty)) /\ UNCHANGED lost
       ELSE lost' = TRUE /\ UNCHANGED data
    /\ UNCHANGED <<pc, connVars, out, notified, hooks, child, readerDone, exited, exit, signal,
                   counts>>

\* The end of the terminal: not before claude is dead, and later when a process
\* that claude started still holds it.
ReaderThreadEnds ==
    /\ ~readerDone /\ child = "dead" /\ tty = << >>
    /\ readerDone' = TRUE
    /\ UNCHANGED <<pc, connVars, out, notified, hooks, child, tty, data, exited, exit, signal,
                   counts, lost>>

WaiterReaps ==
    /\ child = "dead" /\ ~exited
    /\ exited' = TRUE
    /\ UNCHANGED <<pc, connVars, out, notified, hooks, child, tty, data, readerDone, exit,
                   signal, counts, lost>>

\* Mutant: the waiter joins the reader instead of waiting READER_DRAIN_GRACE.
ReportWhenRead == readerDone

\* READER_DRAIN_GRACE: the reader is waited for, but not for ever.
MayReport == TRUE

WaiterReports ==
    /\ exited /\ ~exit /\ pc # "over"
    /\ MayReport
    /\ exit' = TRUE
    /\ lost' = (lost \/ tty # << >>)
    /\ UNCHANGED <<pc, connVars, out, notified, hooks, child, tty, data, readerDone, exited,
                   signal, counts>>

-----------------------------------------------------------------------------
(* The select loop.                                                        *)

\* try_send of frames one after the other, until one finds no room or no writer.
Queued(frames) ==
    LET room == IF writer THEN OUTBOUND_CAPACITY - Len(out) ELSE 0
    IN  SubSeq(frames, 1, IF Len(frames) <= room THEN Len(frames) ELSE room)

SendFails(frames) == Queued(frames) # frames

\* Pty::kill: nothing once the waiter has seen the exit.
KillPty == child' = IF exited THEN child ELSE "dead"

\* Mutant: the bye overtakes what the exit arm drains.
ByeFirst(frames, reason) == Queued(<<Life!Bye(reason)>> \o frames)

\* What a breaking loop still queues.
Farewell(frames, reason) == Queued(frames \o <<Life!Bye(reason)>>)

\* The loop's break and all that follows up to the last sleep: bye, kill, stop.
Break(frames, reason) ==
    /\ pc' = "closing"
    /\ out' = out \o Farewell(frames, reason)
    /\ KillPty
    /\ StopHooks

\* The loop goes round: the futures of the other arms are dropped.
Continue(frames) ==
    /\ out' = out \o frames
    /\ UNCHANGED <<pc, child>>

Forward(frame) ==
    IF SendFails(<<frame>>) THEN Break(<<frame>>, "signal") ELSE Continue(<<frame>>) /\ UNCHANGED hooks

\* Input is written to the terminal, a resize applied.
RecvInbound ==
    /\ pc = "loop" /\ inbound # << >>
    /\ inbound' = Tail(inbound)
    /\ pc' = IF Head(inbound) = "input" THEN "writing" ELSE pc
    /\ notified' = FALSE
    /\ UNCHANGED <<socket, reader, writer, wire, out, hooks, ptyVars, signal, counts, lost>>

\* write_shared: write_all and flush on a blocking descriptor.  They return when
\* whoever has the terminal has read enough of it, or has closed it.
PtyWritten ==
    /\ pc = "writing"
    /\ pc' = "loop"
    /\ UNCHANGED <<connVars, out, notified, hooks, ptyVars, signal, counts, lost>>

\* "inbound channel closed; ipc.closed() will fire"
RecvNone ==
    /\ pc = "loop" /\ inbound = << >> /\ ~reader
    /\ notified' = FALSE
    /\ UNCHANGED <<pc, connVars, out, hooks, ptyVars, signal, counts, lost>>

RecvHook ==
    /\ pc = "loop" /\ hooks > 0
    /\ notified' = FALSE
    /\ IF SendFails(<<Life!Event>>)
       THEN Break(<<Life!Event>>, "signal")
       ELSE Continue(<<Life!Event>>) /\ hooks' = hooks - 1
    /\ UNCHANGED <<connVars, tty, data, readerDone, exited, exit, signal, counts, lost>>

RecvData ==
    /\ pc = "loop" /\ data # << >>
    /\ data' = Tail(data)
    /\ notified' = FALSE
    /\ Forward(Life!Io(Head(data)))
    /\ UNCHANGED <<connVars, tty, readerDone, exited, exit, signal, counts, lost>>

\* Mutant: what is queued when the exit code arrives is not sent.
NoDrain == << >>

\* The chunks the exit arm finds queued.
Drained == [i \in DOMAIN data |-> Life!Io(data[i])]

RecvExit ==
    /\ pc = "loop" /\ exit
    /\ data' = << >>
    /\ notified' = FALSE
    /\ Break(Drained, "exit")
    /\ UNCHANGED <<connVars, tty, readerDone, exited, exit, signal, counts, lost>>

RecvClosed ==
    /\ pc = "loop" /\ notified
    /\ notified' = FALSE
    /\ Break(<< >>, "signal")
    /\ UNCHANGED <<connVars, tty, data, readerDone, exited, exit, signal, counts, lost>>

RecvSignal ==
    /\ pc = "loop" /\ signal
    /\ notified' = FALSE
    /\ Break(<< >>, "signal")
    /\ UNCHANGED <<connVars, tty, data, readerDone, exited, exit, signal, counts, lost>>

\* The process ends 20 ms after the bye was queued, written or not.
Leave ==
    /\ pc = "closing"
    /\ pc' = "over"
    /\ socket' = "shut" /\ reader' = FALSE /\ writer' = FALSE
    /\ out' = << >>
    /\ UNCHANGED <<wire, inbound, notified, hooks, ptyVars, signal, counts, lost>>

\* SIGKILL, or a signal before the handlers are installed.
Killed ==
    /\ pc # "over"
    /\ pc' = "over"
    /\ socket' = "shut" /\ reader' = FALSE /\ writer' = FALSE
    /\ out' = << >>
    /\ UNCHANGED <<wire, inbound, notified, hooks, ptyVars, signal, counts, lost>>

-----------------------------------------------------------------------------

Arms == RecvInbound \/ RecvHook \/ RecvData \/ RecvExit \/ RecvClosed \/ RecvSignal

Tasks == Write \/ (socket = "shut" /\ ReaderEnds)

Next ==
    \/ Start \/ StartFails \/ Signal \/ Killed
    \/ (\E m \in Inbound : DaemonSends(m)) \/ DaemonCloses \/ ReaderEnds \/ Write
    \/ ClaudeWrites \/ ClaudeExits \/ HookArrives
    \/ ReadTty \/ ReaderThreadEnds \/ WaiterReaps \/ WaiterReports
    \/ Arms \/ RecvNone \/ PtyWritten \/ Leave

Spec == Init /\ [][Next]_vars

\* The runtime polls its tasks and the arms that are ready, the threads run, and
\* sleeps end.  Nothing is assumed of the daemon, of claude, of signals, of when
\* the terminal's last user closes it, or that anybody reads what is written to
\* it: a write is known to return only once the terminal has been closed.
FairSpec ==
    /\ Spec
    /\ WF_vars(RecvExit) /\ WF_vars(RecvClosed) /\ WF_vars(RecvSignal)
    /\ WF_vars(RecvInbound \/ RecvNone) /\ WF_vars(RecvHook) /\ WF_vars(RecvData)
    /\ WF_vars(Tasks) /\ WF_vars(WaiterReaps) /\ WF_vars(WaiterReports) /\ WF_vars(ReadTty)
    /\ WF_vars(Leave) /\ WF_vars(readerDone /\ PtyWritten)

-----------------------------------------------------------------------------
(* Properties.                                                             *)

\* The runner keeps its promise to the daemon: what it writes to the socket is a
\* hello, records with the chunks in order, and at most one bye at the end, in
\* whatever order output, hooks, exit, close and signals reach the loop.
RunnerKeepsPromise == Life!Spec

\* A bye that reports claude's own exit comes after all of claude's output, except
\* for what the terminal's reader dropped or read too late: the exit code and the
\* last chunks come on two channels (runner.rs, the exit arm).
OutputBeforeExit ==
    \A i \in DOMAIN (wire \o out) :
        (wire \o out)[i] = Life!Bye("exit") /\ ~lost
            => LET before == SubSeq(wire \o out, 1, i)
               IN  Life!ChunksIn(before) = 1 .. made /\ Life!InOrder(before)

\* The runner's one thread is in a write to a terminal that is still open.
InTerminalWrite == pc = "writing" /\ ~readerDone

\* A runner whose claude has ended, or that got a signal, ends, whatever the daemon
\* does and even when a process that claude left behind holds the terminal open,
\* unless its loop stays for ever in a write to that terminal, which nobody reads.
RunnerEnds == (child = "dead" \/ signal) ~> (pc = "over" \/ []InTerminalWrite)
=============================================================================
