------------------------------- MODULE Intake -------------------------------
(***************************************************************************)
(* The webhooks of Sonarr and Radarr: an event is written to the table     *)
(* webhook_intake, answered, and its file queued when a timer fires.  The  *)
(* timers are asyncio tasks and die with the process; the rows do not.     *)
(*                                                                         *)
(* What queueing does to the library is Library's business.                *)
(***************************************************************************)
EXTENDS Naturals, FiniteSets

CONSTANTS
    Paths,          \* translated paths
    MaxEvents,      \* bounds on the events received,
    MaxStops        \* and on the stops of the process

ASSUME IntakeBounds == MaxEvents \in Nat /\ MaxStops \in Nat

VARIABLES
    up,         \* whether the process runs
    rows,       \* webhook_intake: the id of the path's row, 0 for none
    lastRow,    \* the table's AUTOINCREMENT counter
    handlers,   \* webhooks written and not yet answered: [n, path, row]
    tasks,      \* _delayed_queue: [id, path, row, at]
    pending,    \* _pending: the id of the path's task, 0 for none
    threads,    \* _queue_sync: [id, path, row, at]
    owed,       \* paths whose file no attempt has looked at since an event on disk
    events, stops

intakeVars ==
    <<up, rows, lastRow, handlers, tasks, pending, threads, owed, events, stops>>

-----------------------------------------------------------------------------
IntakeInit ==
    /\ up = TRUE
    /\ rows = [p \in Paths |-> 0] /\ lastRow = 0
    /\ handlers = {} /\ tasks = {} /\ threads = {}
    /\ pending = [p \in Paths |-> 0]
    /\ owed = {}
    /\ events = 0 /\ stops = 0

\* Variant: one more than the largest id in the table once the old row is gone.
LargestAndOne(p) ==
    LET others == {rows[q] : q \in Paths \ {p}} \cup {0}
    IN  1 + CHOOSE r \in others : \A s \in others : s <= r

\* The new row's id is one no row has had.
NewRow(p) == lastRow + 1

\* _remember_sync, in the handler of a Download or a Rename.
Receive(p) ==
    /\ up /\ events < MaxEvents
    /\ events' = events + 1
    /\ rows' = [rows EXCEPT ![p] = NewRow(p)]
    /\ lastRow' = NewRow(p)
    /\ owed' = owed \cup {p}
    /\ handlers' = handlers \cup {[n |-> events + 1, path |-> p, row |-> NewRow(p)]}
    /\ UNCHANGED <<up, tasks, pending, threads, stops>>

\* The row cannot be written: rolled back, the timer is armed without it.
ReceiveUnwritten(p) ==
    /\ up /\ events < MaxEvents
    /\ events' = events + 1
    /\ handlers' = handlers \cup {[n |-> events + 1, path |-> p, row |-> 0]}
    /\ UNCHANGED <<up, rows, lastRow, tasks, pending, threads, owed, stops>>

Cancelled(t) == IF t.id = pending[t.path] THEN [t EXCEPT !.at = "cancelled"] ELSE t

\* _arm
Arm(h) ==
    /\ tasks' = {IF t.path = h.path THEN Cancelled(t) ELSE t : t \in tasks}
                    \cup {[id |-> h.n, path |-> h.path, row |-> h.row, at |-> "waiting"]}
    /\ pending' = [pending EXCEPT ![h.path] = h.n]
    /\ handlers' = handlers \ {h}
    /\ UNCHANGED <<up, rows, lastRow, threads, owed, events, stops>>

Moves(t, at) == tasks' = (tasks \ {t}) \cup {[t EXCEPT !.at = at]}

\* The debounce is over; the library paths are read.
Fire(t) ==
    /\ t.at = "waiting" /\ Moves(t, "firing")
    /\ UNCHANGED <<up, rows, lastRow, handlers, pending, threads, owed, events, stops>>

\* A thread takes the file over.
Attempt(t) ==
    /\ t.at = "firing" /\ Moves(t, "queueing")
    /\ threads' = threads \cup
                     {[id |-> t.id, path |-> t.path, row |-> t.row, at |-> "begun"]}
    /\ UNCHANGED <<up, rows, lastRow, handlers, pending, owed, events, stops>>

\* queue_single_file looks at the file, which no cancellation prevents any more.
\* With no library path set the row is cleared all the same.
Look(th) ==
    /\ th.at = "begun"
    /\ threads' = (threads \ {th}) \cup {[th EXCEPT !.at = "looked"]}
    /\ owed' = owed \ {th.path}
    /\ UNCHANGED <<up, rows, lastRow, handlers, tasks, pending, events, stops>>

\* Variant: the path's row, whichever it is.
ForgetsPath(th) == [p \in Paths |-> IF p = th.path THEN 0 ELSE rows[p]]

\* _forget_sync: the row the timer was armed with.
Forgets(th) == [p \in Paths |-> IF th.row # 0 /\ rows[p] = th.row THEN 0 ELSE rows[p]]

\* The thread ends; its task goes on unless it has been cancelled.
Forget(th) ==
    /\ th.at = "looked"
    /\ rows' = Forgets(th)
    /\ threads' = threads \ {th}
    /\ tasks' = {IF t.id = th.id /\ t.at = "queueing" THEN [t EXCEPT !.at = "done"] ELSE t :
                    t \in tasks}
    /\ UNCHANGED <<up, lastRow, handlers, pending, owed, events, stops>>

\* Variant: whatever task is registered for the path is dropped.
PoppedAlways(t) == [pending EXCEPT ![t.path] = 0]

\* The entry goes only if it is still this task's.
Popped(t) == IF pending[t.path] = t.id THEN [pending EXCEPT ![t.path] = 0] ELSE pending

\* The finally of _delayed_queue, some time after the task was cancelled.
Unwind(t) ==
    /\ t.at \in {"cancelled", "done"}
    /\ tasks' = tasks \ {t}
    /\ pending' = Popped(t)
    /\ UNCHANGED <<up, rows, lastRow, handlers, threads, owed, events, stops>>

\* A clean stop or a crash.
Stop ==
    /\ up /\ stops < MaxStops
    /\ up' = FALSE /\ stops' = stops + 1
    /\ handlers' = {} /\ tasks' = {} /\ threads' = {}
    /\ pending' = [p \in Paths |-> 0]
    /\ UNCHANGED <<rows, lastRow, owed, events>>

\* Variant: the rows are left for a scan to find their files.
NotReplayed == {}

\* _intake_rows_sync
Replayed == {p \in Paths : rows[p] # 0}

\* replay_webhook_intake, before the first request is served.
Restart ==
    /\ ~up /\ up' = TRUE
    /\ tasks' = {[id |-> MaxEvents + rows[p], path |-> p, row |-> rows[p], at |-> "waiting"] :
                    p \in Replayed}
    /\ pending' = [p \in Paths |-> IF p \in Replayed THEN MaxEvents + rows[p] ELSE 0]
    /\ UNCHANGED <<rows, lastRow, handlers, threads, owed, events, stops>>

Goes == \/ \E h \in handlers : Arm(h)
        \/ \E t \in tasks : Fire(t) \/ Attempt(t) \/ Unwind(t)
        \/ \E th \in threads : Look(th) \/ Forget(th)
        \/ Restart

IntakeNext ==
    \/ \E p \in Paths : Receive(p) \/ ReceiveUnwritten(p)
    \/ Goes \/ Stop

\* The event loop runs what is ready, and the process is started again.
IntakeSpec == IntakeInit /\ [][IntakeNext]_intakeVars /\ WF_intakeVars(Goes)

-----------------------------------------------------------------------------
Positions == {"waiting", "firing", "queueing", "done", "cancelled"}

IntakeTypeOK ==
    /\ up \in BOOLEAN
    /\ rows \in [Paths -> Nat] /\ lastRow \in Nat
    /\ handlers \subseteq [n : Nat, path : Paths, row : Nat]
    /\ tasks \subseteq [id : Nat, path : Paths, row : Nat, at : Positions]
    /\ pending \in [Paths -> Nat]
    /\ threads \subseteq [id : Nat, path : Paths, row : Nat, at : {"begun", "looked"}]
    /\ owed \subseteq Paths
    /\ events \in 0 .. MaxEvents /\ stops \in 0 .. MaxStops

\* An event that was answered and whose file nobody has looked at since is on
\* disk, however the attempt for an earlier event of the same path ends
\* (webhooks.py, "Surviving a stop").
RowBacked == \A p \in owed : rows[p] # 0

\* A path has one timer at most that can still fire, the one a further event
\* would cancel (webhooks.py, _delayed_queue's finally).
OneTimer == \A t \in tasks : t.at \in {"waiting", "firing"} => pending[t.path] = t.id

\* An event on disk gets its attempt, over stops and whatever comes meanwhile.
AcceptedLands == \A p \in Paths : p \in owed ~> p \notin owed
=============================================================================
