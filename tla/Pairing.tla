------------------------------ MODULE Pairing -----------------------------
(***************************************************************************)
(* Pairing a daemon with an application: `tp pair new` (tp-cli pair.rs),   *)
(* the daemon's handlers and watcher tasks (daemon.rs), the orchestrator's *)
(* single pending slot (orchestrator.rs, pending_pairing.rs), the stored   *)
(* rows (store.rs) and the pool of relay clients (relay_manager.rs).  The  *)
(* daemon's tasks run in parallel: an action is what one task does under   *)
(* one lock.  The orchestrator's lock is held across awaits, so it is a    *)
(* variable.  A relay client is named by its daemon id and by who made it; *)
(* what a client does on its socket is DaemonClient's subject.             *)
(***************************************************************************)
EXTENDS Naturals, FiniteSets, Sequences

CONSTANTS
    Ids,            \* daemon ids, one per pairing
    Clis,           \* runs of `tp pair new`
    Removers,       \* tasks that may be removing a pairing
    MaxFaults,      \* bounds restarts and failed saves of a promotion
    None

(* A relay client: its daemon id, and the command, or the start, that made it. *)
Saved == "saved"
AllClients == Ids \X (Clis \cup {Saved})

(* What the slot holds: its client, whether a command got the QR code, and *)
(* whether an application has joined.                                      *)
PendingPairings == [client : AllClients, shown : BOOLEAN, joined : BOOLEAN]

ASSUME PairingAssumption ==
    /\ MaxFaults \in Nat
    /\ None \notin Ids \cup Clis \cup AllClients \cup PendingPairings
    /\ Saved \notin Clis

VARIABLES
    rows,       \* stored pairings
    pool,       \* the relay manager's clients
    up,         \* clients not disposed of
    removing,   \* removing_daemon_ids
    pending,    \* the slot: None or [client, shown, joined]
    lock,       \* who holds the orchestrator: None or a cli's task
    queue,      \* the begins waiting for it, first come first served
    owner,      \* the connection that began the pending pairing
    task,       \* cli -> where its handle_pair_begin task stands
    cancels,    \* spawned cancel tasks: the client meant, or None for any
    remover,    \* removal tasks: [pc, id, client]
    adder,      \* reconnect_saved: [pc, id, todo, skipped]
    conn,       \* connections the daemon has not seen close
    cli,        \* cli -> [pc, id]
    saved,      \* cli -> the client whose pairing its watcher stored (history)
    faults

slotVars == <<pending, lock, owner, queue>>
cliVars == <<conn, cli>>
vars == <<rows, pool, up, removing, pending, lock, queue, owner, task, cancels,
          remover, adder, conn, cli, saved, faults>>

Mine(c) == <<cli[c].id, c>>
IdleRemover == [pc |-> "idle", id |-> None, client |-> None]
Gone == [pc |-> "out", id |-> None]
NoAdder == [pc |-> "done", id |-> None, todo |-> {}, skipped |-> {}]

(* A daemon that has just started without stored pairings.                 *)
Init ==
    /\ rows = {} /\ pool = {} /\ up = {} /\ removing = {}
    /\ pending = None /\ lock = None /\ queue = <<>> /\ owner = None
    /\ task = [c \in Clis |-> "none"] /\ cancels = {}
    /\ remover = [r \in Removers \cup Clis |-> IdleRemover]
    /\ adder = NoAdder
    /\ conn = {}
    /\ cli = [c \in Clis |-> Gone]
    /\ saved = [c \in Clis |-> None]
    /\ faults = 0

---------------------------------------------------------------------------
(* The store's pairings: save_pairing() inserts or replaces a row,         *)
(* delete_pairing() takes it out with its confirmations and push tokens.   *)
SavePairing(d) == rows' = rows \cup {d}

DeletePairing(d) == rows' = rows \ {d}

---------------------------------------------------------------------------
(* `tp pair new`: the pair lock is an flock, freed when the process ends   *)
(* however it ends; then PairBegin is sent.  A name is used again when     *)
(* nothing of its last run is left.                                        *)

(* Variant: no pair lock.                                                  *)
PairUnlocked(c) == TRUE

PairLockFree(c) == \A x \in Clis : cli[x].pc = "out"

CliStarts(c, d) ==
    /\ cli[c].pc = "out" /\ c \notin conn /\ task[c] = "none"
    /\ <<d, c>> \notin up \cup pool /\ PairLockFree(c)
    /\ cli' = [cli EXCEPT ![c] = [pc |-> "sent", id |-> d]]
    /\ conn' = conn \cup {c}
    /\ task' = [task EXCEPT ![c] = "begin"]
    /\ queue' = Append(queue, c)
    /\ UNCHANGED <<rows, pool, up, removing, cancels, remover, adder, pending, lock, owner,
                   saved, faults>>

(* pair.begin.err, pair.completed, pair.cancelled or pair.error: the        *)
(* command prints it and exits.  To a command that is gone it is lost.      *)
Tell(c) == cli' = [cli EXCEPT ![c] = Gone]

(* pair.begin.ok: the command shows the QR code and waits.                 *)
ShowQr(c) == cli' = IF cli[c].pc = "sent" THEN [cli EXCEPT ![c].pc = "shown"] ELSE cli

(* pair.cancel is honoured unless the pending pairing has another owner.   *)
HandlePairCancel(c) ==
    cancels' = IF owner \notin {None, c} THEN cancels ELSE cancels \cup {Mine(c)}

(* Ctrl+C with a QR code on the screen, as a signal or as a key read in    *)
(* raw mode: pair.cancel is sent and the command goes on waiting.          *)
CliCancels(c) ==
    /\ cli[c].pc = "shown"
    /\ cli' = [cli EXCEPT ![c].pc = "cancelling"]
    /\ HandlePairCancel(c)
    /\ UNCHANGED <<rows, pool, up, removing, slotVars, task, remover, adder,
                   conn, saved, faults>>

(* Ctrl+C before, or a kill at any time: the socket closes.                *)
CliDies(c) ==
    /\ cli[c].pc # "out"
    /\ cli' = [cli EXCEPT ![c].pc = "out"]
    /\ UNCHANGED <<rows, pool, up, removing, slotVars, task, cancels, remover, adder,
                   conn, saved, faults>>

(* handle_cli_disconnect() *)
Disconnect(c) ==
    /\ c \in conn /\ cli[c].pc = "out"
    /\ conn' = conn \ {c}
    /\ owner' = IF owner = c THEN None ELSE owner
    /\ cancels' = IF owner = c THEN cancels \cup {None} ELSE cancels
    /\ UNCHANGED <<queue, rows, pool, up, removing, pending, lock, task, remover, adder,
                   cli, saved, faults>>

---------------------------------------------------------------------------
(* handle_pair_begin() and PairingOrchestrator::begin(): refused when the  *)
(* slot or the id is taken, or its keys and QR code cannot be made; else   *)
(* the client dials with the lock held.                                    *)
Admitted(c) == lock = None /\ Head(queue) = c /\ queue' = Tail(queue)

AlreadyPending == pending # None
DaemonIdTaken(d) == d \in rows

BeginRefused(c) ==
    /\ task[c] = "begin" /\ Admitted(c)
    /\ \E bundled \in BOOLEAN : AlreadyPending \/ DaemonIdTaken(cli[c].id) \/ ~bundled
    /\ task' = [task EXCEPT ![c] = "none"]
    /\ Tell(c)
    /\ UNCHANGED <<rows, pool, up, removing, pending, lock, owner, cancels, remover, adder,
                   conn, saved, faults>>

BuildRelayClient(c) == up' = up \cup {Mine(c)}

BeginDials(c) ==
    /\ task[c] = "begin" /\ Admitted(c)
    /\ ~AlreadyPending /\ ~DaemonIdTaken(cli[c].id)
    /\ lock' = c
    /\ BuildRelayClient(c)
    /\ task' = [task EXCEPT ![c] = "dial"]
    /\ UNCHANGED <<rows, pool, removing, pending, owner, cancels, remover, adder,
                   cliVars, saved, faults>>

(* The owner is recorded, the QR code sent, whether or not the command is   *)
(* still there, and the task goes on as a watcher.                          *)
BeginOk(c) ==
    /\ owner' = c
    /\ task' = [task EXCEPT ![c] = "watch"]
    /\ ShowQr(c)

(* connect() returns whether or not the relay answered: the slot is set,    *)
(* the lock released, and pair.begin.ok follows without an await.           *)
NewPending(c) == [client |-> Mine(c), shown |-> cli[c].pc = "sent", joined |-> FALSE]

BeginSets(c) ==
    /\ task[c] = "dial"
    /\ pending' = NewPending(c)
    /\ lock' = None
    /\ BeginOk(c)
    /\ UNCHANGED <<queue, rows, pool, up, removing, cancels, remover, adder,
                   conn, saved, faults>>

(* An application that read the QR code completes the key exchange; the    *)
(* client's JoinSignal records it.                                         *)
AppJoins ==
    /\ pending # None /\ ~pending.joined
    /\ pending.shown /\ pending.client \in up
    /\ pending' = [pending EXCEPT !.joined = TRUE]
    /\ UNCHANGED <<queue, rows, pool, up, removing, lock, owner, task, cancels, remover, adder,
                   cliVars, saved, faults>>

ClearOwnerIf(c) == owner' = IF owner = c THEN None ELSE owner

(* watch_pending(): one window under the lock.  A recorded join resolves   *)
(* whatever pairing is in the slot, and promote() begins by saving it.     *)

(* Variant: a window that promotes without a join.                         *)
ResolvedAnyway == pending # None /\ pending.shown

Resolved == pending # None /\ pending.joined

WatchPromotes(c) ==
    /\ task[c] = "watch" /\ lock = None /\ Resolved
    /\ lock' = c
    /\ \/ /\ SavePairing(pending.client[1])
          /\ saved' = [saved EXCEPT ![c] = pending.client]
          /\ task' = [task EXCEPT ![c] = "promote"]
          /\ UNCHANGED faults
       \/ /\ faults < MaxFaults
          /\ faults' = faults + 1
          /\ task' = [task EXCEPT ![c] = "promoteFailed"]
          /\ UNCHANGED <<rows, saved>>
    /\ UNCHANGED <<queue, pool, up, removing, pending, owner, cancels, remover, adder,
                   cliVars>>

SaveFailed(c) == task[c] = "promoteFailed"

(* promote() goes on: the client moves to the pool and the slot is freed.  *)
(* The lock is released and, without an await, the owner is cleared and a  *)
(* store error of save_pairing() is taken out of last_save_error; no other *)
(* promotion, which needs a QR code to be read, fits in between.           *)
Promote(c) ==
    /\ task[c] \in {"promote", "promoteFailed"}
    /\ pool' = pool \cup {pending.client}
    /\ pending' = None /\ lock' = None
    /\ ClearOwnerIf(c)
    /\ task' = [task EXCEPT ![c] = IF SaveFailed(c) THEN "failed" ELSE "report"]
    /\ UNCHANGED <<queue, rows, up, removing, cancels, remover, adder,
                   cliVars, saved, faults>>

Report(c) ==
    /\ task[c] = "report"
    /\ task' = [task EXCEPT ![c] = "none"]
    /\ saved' = [saved EXCEPT ![c] = None]
    /\ Tell(c)
    /\ UNCHANGED <<slotVars, rows, pool, up, removing, cancels, remover, adder, conn, faults>>

(* When saving failed, remove_pairing() of this watcher's own id runs in    *)
(* this task.                                                               *)
Undo(c) ==
    /\ task[c] = "failed"
    /\ task' = [task EXCEPT ![c] = "undo"]
    /\ IF cli[c].id \in removing
       THEN /\ DeletePairing(cli[c].id)
            /\ UNCHANGED <<removing, remover>>
       ELSE /\ removing' = removing \cup {cli[c].id}
            /\ remover' = [remover EXCEPT ![c] =
                              [pc |-> "find", id |-> cli[c].id, client |-> None]]
            /\ rows' = rows
    /\ UNCHANGED <<slotVars, pool, up, cancels, adder, cliVars, saved, faults>>

(* clear_pending(), whoever's pairing is in the slot by now.                *)
ClearPending ==
    /\ up' = IF pending = None THEN up ELSE up \ {pending.client}
    /\ pending' = None

(* The slot is cleared and pair.error sent.                                 *)
ReportFailure(c) ==
    /\ task[c] = "undo" /\ remover[c].pc = "idle" /\ lock = None
    /\ task' = [task EXCEPT ![c] = "none"]
    /\ ClearPending
    /\ Tell(c)
    /\ UNCHANGED <<queue, rows, pool, removing, lock, owner, cancels, remover, adder,
                   conn, saved, faults>>

WatchCancelled(c) ==
    /\ task[c] = "watch" /\ lock = None /\ pending = None
    /\ task' = [task EXCEPT ![c] = "none"]
    /\ ClearOwnerIf(c)
    /\ Tell(c)
    /\ UNCHANGED <<queue, rows, pool, up, removing, pending, lock, cancels, remover, adder,
                   conn, saved, faults>>

(* A spawned PairingOrchestrator::cancel().                                *)
CancelRuns(x) ==
    /\ x \in cancels /\ lock = None
    /\ cancels' = cancels \ {x}
    /\ IF pending # None /\ x \in {None, pending.client}
       THEN pending' = None /\ up' = up \ {pending.client}
       ELSE UNCHANGED <<pending, up>>
    /\ UNCHANGED <<queue, rows, pool, removing, lock, owner, task, remover, adder,
                   cliVars, saved, faults>>

---------------------------------------------------------------------------
(* remove_pairing(): asked for by `tp pair delete` (PairRemove), or by the *)
(* application's control.unpair on a client, of the pool or still pending. *)
(* A second caller only deletes the row.                                   *)
UnpairReceived(d) == \E p \in up : p[1] = d

RemovePairing(r, d) ==
    /\ remover[r].pc = "idle"
    /\ d \in rows \/ UnpairReceived(d)
    /\ IF d \in removing
       THEN DeletePairing(d) /\ UNCHANGED <<removing, remover>>
       ELSE /\ removing' = removing \cup {d}
            /\ remover' = [remover EXCEPT ![r] = [pc |-> "find", id |-> d, client |-> None]]
            /\ rows' = rows
    /\ UNCHANGED <<pool, up, slotVars, task, cancels, adder, cliVars, saved, faults>>

(* remove_pairing_inner(): find the client (and notify its applications),  *)
(* delete the row, dispose of the client, take that client out of the pool. *)
RemoveFinds(r) ==
    /\ remover[r].pc = "find"
    /\ LET found == {p \in pool : p[1] = remover[r].id} IN
       \E p \in IF found = {} THEN {None} ELSE found :
           remover' = [remover EXCEPT ![r].pc = "delete", ![r].client = p]
    /\ UNCHANGED <<rows, pool, up, removing, slotVars, task, cancels, adder, cliVars, saved, faults>>

RemoveDeletes(r) ==
    /\ remover[r].pc = "delete"
    /\ DeletePairing(remover[r].id)
    /\ remover' = [remover EXCEPT ![r].pc = "dispose"]
    /\ UNCHANGED <<pool, up, removing, slotVars, task, cancels, adder, cliVars, saved, faults>>

RemoveDisposes(r) ==
    /\ remover[r].pc = "dispose"
    /\ up' = up \ {remover[r].client}
    /\ remover' = [remover EXCEPT ![r].pc = "drop"]
    /\ UNCHANGED <<rows, pool, removing, slotVars, task, cancels, adder, cliVars, saved, faults>>

(* Variant: the pool is searched by daemon id again.                       *)
DropById(r) == {p \in pool : p[1] = remover[r].id}

Dropped(r) == {remover[r].client}

RemoveDrops(r) ==
    /\ remover[r].pc = "drop"
    /\ pool' = pool \ Dropped(r)
    /\ removing' = removing \ {remover[r].id}
    /\ remover' = [remover EXCEPT ![r] = IdleRemover]
    /\ UNCHANGED <<rows, up, slotVars, task, cancels, adder, cliVars, saved, faults>>

---------------------------------------------------------------------------
(* The daemon stops or crashes and starts again: the rows are read, and    *)
(* while the IPC server already serves, add_client() connects, saves and   *)
(* registers a client for each (reconnect_saved).                          *)
LoadPairings == [pc |-> "next", id |-> None, todo |-> rows, skipped |-> {}]

EmptyManager == pool' = {} /\ up' = {} /\ removing' = {}

NothingPending == pending' = None /\ lock' = None /\ owner' = None /\ queue' = <<>>

DaemonRestarts ==
    /\ faults < MaxFaults
    /\ faults' = faults + 1
    /\ EmptyManager /\ NothingPending
    /\ cancels' = {} /\ conn' = {}
    /\ task' = [c \in Clis |-> "none"]
    /\ remover' = [r \in Removers \cup Clis |-> IdleRemover]
    /\ adder' = LoadPairings
    /\ cli' = [c \in Clis |-> Gone]
    /\ saved' = [c \in Clis |-> None]
    /\ UNCHANGED rows

AddConnects(d) ==
    /\ adder.pc = "next" /\ d \in adder.todo
    /\ adder' = [adder EXCEPT !.pc = "save", !.id = d, !.todo = @ \ {d}]
    /\ up' = up \cup {<<d, Saved>>}
    /\ UNCHANGED <<rows, pool, removing, slotVars, task, cancels, remover, cliVars, saved, faults>>

AddSaves ==
    /\ adder.pc = "save"
    /\ \/ /\ SavePairing(adder.id)
          /\ adder' = [adder EXCEPT !.pc = "push"]
          /\ up' = up
       \/ /\ up' = up \ {<<adder.id, Saved>>}
          /\ adder' = [adder EXCEPT !.pc = "next", !.id = None, !.skipped = @ \cup {adder.id}]
          /\ rows' = rows
    /\ UNCHANGED <<pool, removing, slotVars, task, cancels, remover, cliVars, saved, faults>>

AddRegisters ==
    /\ adder.pc = "push"
    /\ pool' = pool \cup {<<adder.id, Saved>>}
    /\ adder' = [adder EXCEPT !.pc = "next", !.id = None]
    /\ UNCHANGED <<rows, up, removing, slotVars, task, cancels, remover, cliVars, saved, faults>>

AddsDone ==
    /\ adder.pc = "next" /\ adder.todo = {}
    /\ adder' = [adder EXCEPT !.pc = "done"]
    /\ UNCHANGED <<rows, pool, up, removing, slotVars, task, cancels, remover, cliVars, saved, faults>>

---------------------------------------------------------------------------
TaskRuns(c) == \/ BeginRefused(c) \/ BeginDials(c) \/ BeginSets(c)
               \/ WatchPromotes(c) \/ Promote(c) \/ Report(c) \/ Undo(c) \/ ReportFailure(c)
               \/ WatchCancelled(c)
RemoverRuns(r) == RemoveFinds(r) \/ RemoveDeletes(r) \/ RemoveDisposes(r) \/ RemoveDrops(r)
AdderRuns == (\E d \in Ids : AddConnects(d)) \/ AddSaves \/ AddRegisters \/ AddsDone

Next ==
    \/ \E c \in Clis : \/ \E d \in Ids : CliStarts(c, d)
                       \/ CliCancels(c) \/ CliDies(c) \/ Disconnect(c) \/ TaskRuns(c)
    \/ AppJoins
    \/ \E x \in cancels : CancelRuns(x)
    \/ \E r \in Removers, d \in Ids : RemovePairing(r, d)
    \/ \E r \in Removers \cup Clis : RemoverRuns(r)
    \/ AdderRuns
    \/ DaemonRestarts

Spec == Init /\ [][Next]_vars

---------------------------------------------------------------------------
Quiet == /\ adder.pc = "done" /\ lock = None
         /\ \A r \in Removers \cup Clis : remover[r].pc = "idle"
         /\ \A c \in Clis : task[c] \notin {"report", "failed", "undo"}

(* Every variable keeps its type; in particular a task in its critical     *)
(* section holds the orchestrator's lock, alone.                           *)
PairingTypeOK ==
    /\ rows \subseteq Ids /\ pool \subseteq AllClients /\ up \subseteq AllClients
    /\ pending # None => pending.client \in AllClients
    /\ \A c \in Clis : task[c] \in {"dial", "promote", "promoteFailed"} <=> lock = c
    /\ lock # None => (pending = None <=> task[lock] = "dial")

(* A stored pairing is served: when nothing is in progress, every row has  *)
(* a live client in the pool, also when a pairing was removed while the    *)
(* same id was being paired again (RelayConnectionManager).  A row that    *)
(* could not be saved again at the start waits for the next one.           *)
RowHasClient ==
    Quiet => \A d \in rows \ adder.skipped : \E p \in pool \cap up : p[1] = d

(* A command that is told "Paired" has a stored pairing behind it: the one *)
(* it began, saved without error (watch_pending, and the pair lock that    *)
(* keeps a second command from the slot while the first still waits).      *)
CompletedIsStored ==
    \A c \in Clis : task[c] = "report" /\ cli[c].pc # "out" => saved[c] = Mine(c)

(* From the moment the row is saved the offer is taken.                    *)
Promoting == lock # None /\ task[lock] # "dial"

Contract == INSTANCE PairingContract WITH
    offer <- IF pending = None \/ Promoting THEN None
             ELSE pending.client[1],
    joined <- pending # None /\ pending.joined /\ ~Promoting,
    stored <- rows,
    restoring <- adder.todo \cup (IF adder.pc = "save" THEN {adder.id} ELSE {})

(* The daemon keeps what pairing promises: rows appear by an accepted      *)
(* offer or by taking up what was stored at the start, and in no other way. *)
PairingKeepsContract == Contract!Spec
=============================================================================
