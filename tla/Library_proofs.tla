--------------------------- MODULE Library_proofs ----------------------------
(***************************************************************************)
(* What is proved of Intake and of Library, which extends it: for any      *)
(* paths, events and stops, the webhooks' rows and timers; for any files   *)
(* and any number of scans, jobs, moves and mounts, the types with the     *)
(* scan flag, that the library's webhooks are those of Intake, and, with   *)
(* no gaps in a cleanup, that a file which stays where it is keeps its     *)
(* record.                                                                 *)
(***************************************************************************)
EXTENDS Library, TLAPS

-----------------------------------------------------------------------------
(* The webhooks, for any paths, events and stops: an accepted event keeps   *)
(* its row until its file has been looked at, and a path has one timer that *)
(* can fire.                                                                *)

\* Whoever holds the id of a row.
Holders == handlers \cup tasks \cup threads

\* No id in use is larger than the counter, and a row's id names one path: the
\* path of whoever holds the id.
RowsKnown ==
    /\ \A p \in Paths : rows[p] <= lastRow
    /\ \A x \in Holders : x.row <= lastRow
    /\ \A p, q \in Paths : rows[p] = rows[q] /\ rows[p] # 0 => p = q
    /\ \A x \in Holders : \A q \in Paths : rows[q] = x.row /\ x.row # 0 => q = x.path

\* What a thread is about to remove is no longer owed an attempt.
LookedAt ==
    \A th \in threads :
        th.at = "looked" /\ rows[th.path] = th.row /\ th.row # 0 => th.path \notin owed

IInv == IntakeTypeOK /\ RowsKnown /\ LookedAt /\ RowBacked

-----------------------------------------------------------------------------
\* The variables keep their types.
LEMMA TypeInit == IntakeInit => IntakeTypeOK
  BY IntakeBounds DEF IntakeInit, IntakeTypeOK

LEMMA TypeStep == IntakeTypeOK /\ [IntakeNext]_intakeVars => IntakeTypeOK'
<1> SUFFICES ASSUME IntakeTypeOK, [IntakeNext]_intakeVars PROVE IntakeTypeOK'
    OBVIOUS
<1> USE IntakeBounds DEF IntakeTypeOK
<1>1. ASSUME NEW p \in Paths, Receive(p) PROVE IntakeTypeOK'
  BY <1>1 DEF Receive, NewRow
<1>2. ASSUME NEW p \in Paths, ReceiveUnwritten(p) PROVE IntakeTypeOK'
  BY <1>2 DEF ReceiveUnwritten
<1>3. ASSUME NEW h \in handlers, Arm(h) PROVE IntakeTypeOK'
  <2>1. \A t \in tasks : Cancelled(t) \in [id : Nat, path : Paths, row : Nat, at : Positions]
    BY DEF Cancelled, Positions
  <2>2. tasks' \subseteq [id : Nat, path : Paths, row : Nat, at : Positions]
    BY <1>3, <2>1 DEF Arm, Positions
  <2> QED BY <1>3, <2>2 DEF Arm
<1>4. ASSUME NEW t \in tasks, Fire(t) PROVE IntakeTypeOK'
  BY <1>4 DEF Fire, Moves, Positions
<1>5. ASSUME NEW t \in tasks, Attempt(t) PROVE IntakeTypeOK'
  BY <1>5 DEF Attempt, Moves, Positions
<1>6. ASSUME NEW t \in tasks, Unwind(t) PROVE IntakeTypeOK'
  BY <1>6 DEF Unwind, Popped
<1>7. ASSUME NEW th \in threads, Forget(th) PROVE IntakeTypeOK'
  <2>1. rows' \in [Paths -> Nat]
    BY <1>7 DEF Forget, Forgets
  <2>2. tasks' \subseteq [id : Nat, path : Paths, row : Nat, at : Positions]
    BY <1>7 DEF Forget, Positions
  <2> QED BY <1>7, <2>1, <2>2 DEF Forget
<1>11. ASSUME NEW th \in threads, Look(th) PROVE IntakeTypeOK'
  BY <1>11 DEF Look
<1>8. CASE Restart
  <2>1. tasks' \subseteq [id : Nat, path : Paths, row : Nat, at : Positions]
    BY <1>8 DEF Restart, Replayed, Positions
  <2>2. pending' \in [Paths -> Nat]
    BY <1>8 DEF Restart, Replayed
  <2> QED BY <1>8, <2>1, <2>2 DEF Restart
<1>9. CASE Stop
  <2>1. stops < MaxStops /\ stops' = stops + 1
    BY <1>9 DEF Stop
  <2>2. up' \in BOOLEAN
    BY <1>9, Zenon DEF Stop
  <2>3. /\ stops' \in 0 .. MaxStops
        /\ pending' \in [Paths -> Nat]
        /\ handlers' = {} /\ tasks' = {} /\ threads' = {}
        /\ UNCHANGED <<rows, lastRow, owed, events>>
    BY <1>9, <2>1 DEF Stop
  <2> QED BY <2>2, <2>3
<1>10. CASE UNCHANGED intakeVars
  BY <1>10 DEF intakeVars
<1> QED
  BY <1>1, <1>2, <1>3, <1>4, <1>5, <1>6, <1>7, <1>8, <1>9, <1>10, <1>11 DEF IntakeNext, Goes

\* THEOREM: every variable of the intake has its type.
THEOREM TypeCorrect == IntakeSpec => []IntakeTypeOK
  BY TypeInit, TypeStep, PTL DEF IntakeSpec
-----------------------------------------------------------------------------
\* What the row ids stand for survives every step.
LEMMA KnownInit == IntakeInit => IInv
  BY TypeInit DEF IntakeInit, IInv, RowsKnown, LookedAt, RowBacked, Holders

\* A row just written has an id nobody holds, so it is of its path alone.
LEMMA KnownReceive ==
  ASSUME IInv, NEW p \in Paths, Receive(p)
  PROVE  RowsKnown' /\ LookedAt' /\ RowBacked'
<1> USE DEF IInv, IntakeTypeOK
<1>1. /\ rows' = [rows EXCEPT ![p] = lastRow + 1] /\ lastRow' = lastRow + 1
      /\ owed' = owed \cup {p}
      /\ tasks' = tasks /\ threads' = threads
      /\ handlers' = handlers \cup {[n |-> events + 1, path |-> p, row |-> lastRow + 1]}
  BY DEF Receive, NewRow
<1>2. \A x \in Holders : x.row \in Nat
  BY DEF Holders
<1>3. \A x \in Holders' : x \in Holders \/ (x.path = p /\ x.row = lastRow + 1)
  BY <1>1 DEF Holders
<1>4. RowsKnown'
  BY <1>1, <1>2, <1>3 DEF RowsKnown
<1>5. LookedAt'
  BY <1>1 DEF LookedAt, RowsKnown, Holders
<1>6. RowBacked'
  BY <1>1 DEF RowBacked
<1> QED BY <1>4, <1>5, <1>6

\* A thread that removes its row removes it from a path that is owed nothing.
LEMMA KnownForget ==
  ASSUME IInv, NEW th \in threads, Forget(th)
  PROVE  RowsKnown' /\ LookedAt' /\ RowBacked'
<1> USE DEF IInv, IntakeTypeOK
<1>1. /\ rows' = [q \in Paths |-> IF th.row # 0 /\ rows[q] = th.row THEN 0 ELSE rows[q]]
      /\ lastRow' = lastRow /\ owed' = owed /\ handlers' = handlers
      /\ threads' = threads \ {th}
      /\ th.at = "looked"
  BY DEF Forget, Forgets
<1>2. \A t2 \in tasks' : \E t \in tasks : t2.row = t.row /\ t2.path = t.path
  BY DEF Forget
<1>3. \A x2 \in Holders' : \E x \in Holders : x2.row = x.row /\ x2.path = x.path
  BY <1>1, <1>2 DEF Holders
<1>4. RowsKnown'
  BY <1>1, <1>3 DEF RowsKnown
<1>5. LookedAt'
  BY <1>1 DEF LookedAt
<1>6. \A q \in Paths : rows[q] = th.row /\ th.row # 0 => q = th.path /\ q \notin owed
  BY <1>1 DEF RowsKnown, LookedAt, Holders
<1>7. RowBacked'
  BY <1>1, <1>6 DEF RowBacked
<1> QED BY <1>4, <1>5, <1>7

\* A thread that has just begun has nothing to remove yet.
LEMMA KnownAttempt ==
  ASSUME IInv, NEW t \in tasks, Attempt(t)
  PROVE  RowsKnown' /\ LookedAt' /\ RowBacked'
<1> USE DEF IInv, IntakeTypeOK
<1>1. /\ UNCHANGED <<rows, lastRow, handlers, owed>>
      /\ threads' = threads \cup
                       {[id |-> t.id, path |-> t.path, row |-> t.row, at |-> "begun"]}
      /\ tasks' = (tasks \ {t}) \cup {[t EXCEPT !.at = "queueing"]}
  BY DEF Attempt, Moves
<1>2. \A x2 \in Holders' : \E x \in Holders : x2.row = x.row /\ x2.path = x.path
  BY <1>1 DEF Holders
<1>3. RowsKnown'
  BY <1>1, <1>2 DEF RowsKnown
<1>4. LookedAt' /\ RowBacked'
  BY <1>1 DEF LookedAt, RowBacked
<1> QED BY <1>3, <1>4

\* What a thread has looked at is owed no attempt.
LEMMA KnownLook ==
  ASSUME IInv, NEW th \in threads, Look(th)
  PROVE  RowsKnown' /\ LookedAt' /\ RowBacked'
<1> USE DEF IInv, IntakeTypeOK
<1>1. /\ UNCHANGED <<rows, lastRow, handlers, tasks>> /\ owed' = owed \ {th.path}
      /\ threads' = (threads \ {th}) \cup {[th EXCEPT !.at = "looked"]}
  BY DEF Look
<1>2. \A x2 \in Holders' : \E x \in Holders : x2.row = x.row /\ x2.path = x.path
  BY <1>1 DEF Holders
<1>3. RowsKnown'
  BY <1>1, <1>2 DEF RowsKnown
<1>4. LookedAt' /\ RowBacked'
  BY <1>1 DEF LookedAt, RowBacked
<1> QED BY <1>3, <1>4

\* The timers a start arms hold the ids of the rows they are armed for.
LEMMA KnownRestart ==
  ASSUME IInv, Restart
  PROVE  RowsKnown' /\ LookedAt' /\ RowBacked'
<1> USE DEF IInv, IntakeTypeOK
<1>1. /\ UNCHANGED <<rows, lastRow, handlers, threads, owed>>
      /\ tasks' = {[id |-> MaxEvents + rows[p], path |-> p, row |-> rows[p], at |-> "waiting"] :
                      p \in Replayed}
  BY DEF Restart
<1>2. \A x \in Holders' : x \in Holders \/ \E p \in Paths : x.path = p /\ x.row = rows[p]
  BY <1>1 DEF Holders, Replayed
<1>3. RowsKnown'
  BY <1>1, <1>2 DEF RowsKnown
<1>4. LookedAt' /\ RowBacked'
  BY <1>1 DEF LookedAt, RowBacked
<1> QED BY <1>3, <1>4

\* The other steps write no row and look at no file.
LEMMA KnownQuiet ==
  ASSUME IInv, rows' = rows, lastRow' = lastRow, owed' = owed, threads' \subseteq threads,
         \A x2 \in Holders' : x2.row = 0 \/ \E x \in Holders : x2.row = x.row /\ x2.path = x.path
  PROVE  RowsKnown' /\ LookedAt' /\ RowBacked'
<1> USE DEF IInv, IntakeTypeOK
<1>1. RowsKnown'
  BY DEF RowsKnown
<1>2. LookedAt' /\ RowBacked'
  BY DEF LookedAt, RowBacked
<1> QED BY <1>1, <1>2

LEMMA KnownStep == IInv /\ [IntakeNext]_intakeVars => IInv'
<1> SUFFICES ASSUME IInv, [IntakeNext]_intakeVars PROVE IInv'
    OBVIOUS
<1>1. IntakeTypeOK'
  BY TypeStep DEF IInv
<1> DEFINE Known == RowsKnown' /\ LookedAt' /\ RowBacked'
           From == \A x2 \in Holders' :
                      x2.row = 0 \/ \E x \in Holders : x2.row = x.row /\ x2.path = x.path
<1>2. ASSUME NEW p \in Paths, ReceiveUnwritten(p) PROVE Known
  <2>1. From
    BY <1>2 DEF ReceiveUnwritten, Holders
  <2> QED BY <1>2, <2>1, KnownQuiet DEF ReceiveUnwritten
<1>3. ASSUME NEW h \in handlers, Arm(h) PROVE Known
  <2>1. \A t \in tasks : Cancelled(t).row = t.row /\ Cancelled(t).path = t.path
    BY DEF Cancelled, IInv, IntakeTypeOK
  <2>2. From
    BY <1>3, <2>1 DEF Arm, Holders
  <2> QED BY <1>3, <2>2, KnownQuiet DEF Arm
<1>4. ASSUME NEW t \in tasks, Fire(t) PROVE Known
  <2>1. From
    BY <1>4 DEF Fire, Moves, Holders, IInv, IntakeTypeOK
  <2> QED BY <1>4, <2>1, KnownQuiet DEF Fire
<1>5. ASSUME NEW t \in tasks, Unwind(t) PROVE Known
  <2>1. From
    BY <1>5 DEF Unwind, Holders
  <2> QED BY <1>5, <2>1, KnownQuiet DEF Unwind
<1>6. ASSUME Stop PROVE Known
  <2>1. From
    BY <1>6 DEF Stop, Holders
  <2>2. rows' = rows /\ lastRow' = lastRow /\ owed' = owed /\ threads' = {}
    BY <1>6 DEF Stop
  <2> QED BY <2>1, <2>2, KnownQuiet
<1>7. ASSUME UNCHANGED intakeVars PROVE Known
  <2>1. From
    BY <1>7 DEF intakeVars, Holders
  <2>2. rows' = rows /\ lastRow' = lastRow /\ owed' = owed /\ threads' = threads
    BY <1>7 DEF intakeVars
  <2> QED BY <2>1, <2>2, KnownQuiet
<1>8. Known
  BY <1>2, <1>3, <1>4, <1>5, <1>6, <1>7,
     KnownReceive, KnownForget, KnownAttempt, KnownLook, KnownRestart DEF IntakeNext, Goes
<1> QED BY <1>1, <1>8 DEF IInv

\* THEOREM: an accepted event whose file nobody has looked at is on disk.
THEOREM AcceptedBacked == IntakeSpec => []RowBacked
<1>1. IInv => RowBacked
  BY DEF IInv
<1> QED BY KnownInit, KnownStep, <1>1, PTL DEF IntakeSpec

-----------------------------------------------------------------------------
\* A task's id, the event's number or one above all of them after a restart, is
\* its own.
IdsUnique ==
    /\ \A h \in handlers : h.n <= events
    /\ \A h1, h2 \in handlers : h1.n = h2.n => h1 = h2
    /\ \A h \in handlers : \A t \in tasks : h.n # t.id
    /\ \A t \in tasks : t.id <= events \/ t.id > MaxEvents
    /\ \A t1, t2 \in tasks : t1.id = t2.id => t1 = t2

TInv == IInv /\ IdsUnique /\ OneTimer

LEMMA TimerInit == IntakeInit => TInv
  BY KnownInit DEF IntakeInit, TInv, IdsUnique, OneTimer

\* A new event's number is no task's.
LEMMA TimerEvent ==
  ASSUME TInv, events < MaxEvents, events' = events + 1, UNCHANGED <<tasks, pending>>,
         NEW p \in Paths, NEW r \in Nat,
         handlers' = handlers \cup {[n |-> events + 1, path |-> p, row |-> r]}
  PROVE  IdsUnique' /\ OneTimer'
<1> USE IntakeBounds DEF TInv, IInv, IntakeTypeOK
<1>1. IdsUnique'
  BY DEF IdsUnique
<1>2. OneTimer'
  BY DEF OneTimer
<1> QED BY <1>1, <1>2

\* A timer armed for a path is the one that can fire: the one before is cancelled.
LEMMA TimerArm ==
  ASSUME TInv, NEW h \in handlers, Arm(h)
  PROVE  IdsUnique' /\ OneTimer'
<1> USE DEF TInv, IInv, IntakeTypeOK
<1> DEFINE new == [id |-> h.n, path |-> h.path, row |-> h.row, at |-> "waiting"]
           Left(t) == IF t.path = h.path THEN Cancelled(t) ELSE t
<1>1. /\ tasks' = {Left(t) : t \in tasks} \cup {new}
      /\ pending' = [pending EXCEPT ![h.path] = h.n]
      /\ handlers' = handlers \ {h} /\ events' = events
  BY DEF Arm
<1>2. \A t \in tasks : /\ Left(t).id = t.id /\ Left(t).path = t.path
                       /\ t.path = h.path => Left(t).at \notin {"waiting", "firing"}
                       /\ t.path # h.path => Left(t) = t
  BY DEF Cancelled, OneTimer, Positions
<1>3. \A t2 \in tasks' : t2 = new \/ \E t \in tasks : t2 = Left(t)
  BY <1>1
<1>4. IdsUnique'
  <2> HIDE DEF Left
  <2>1. new.id = h.n
    OBVIOUS
  <2> HIDE DEF new
  <2>2. ASSUME NEW t2 \in tasks' PROVE t2.id = h.n \/ \E t \in tasks : t2 = Left(t) /\ t2.id = t.id
    BY <1>2, <1>3, <2>1
  <2>3. ASSUME NEW t2 \in tasks' PROVE t2.id <= events' \/ t2.id > MaxEvents
    BY <1>1, <2>2 DEF IdsUnique
  <2>4. ASSUME NEW t1 \in tasks', NEW t2 \in tasks', t1.id = t2.id PROVE t1 = t2
    <3>1. t1.id # h.n => t1 = t2
      BY <1>2, <1>3, <2>1, <2>4 DEF IdsUnique
    <3>2. ASSUME NEW t \in tasks PROVE Left(t).id # h.n
      BY <1>2 DEF IdsUnique
    <3> QED BY <1>3, <2>4, <3>1, <3>2
  <2>5. ASSUME NEW g \in handlers', NEW t2 \in tasks' PROVE g.n # t2.id
    BY <1>1, <2>2 DEF IdsUnique
  <2> QED BY <1>1, <2>3, <2>4, <2>5 DEF IdsUnique
<1>5. OneTimer'
  <2> HIDE DEF Left
  <2>1. new.id = h.n /\ new.path = h.path
    OBVIOUS
  <2>2. ASSUME NEW t \in tasks, Left(t).at \in {"waiting", "firing"}
        PROVE  pending'[Left(t).path] = Left(t).id
    BY <1>1, <1>2, <2>2 DEF OneTimer
  <2> QED BY <1>1, <1>3, <2>1, <2>2 DEF OneTimer
<1> QED BY <1>4, <1>5

\* A task that moves on keeps its id, its path and what is registered.
LEMMA TimerMoves ==
  ASSUME TInv, NEW t \in tasks, NEW at \in Positions, Moves(t, at),
         t.at \in {"waiting", "firing"}, UNCHANGED <<handlers, pending, events>>
  PROVE  IdsUnique' /\ OneTimer'
<1> USE DEF TInv, IInv, IntakeTypeOK
<1>1. \A t2 \in tasks' : \/ t2 \in tasks /\ t2 # t
                         \/ t2 = [t EXCEPT !.at = at]
  BY DEF Moves
<1>2. LET u == [t EXCEPT !.at = at] IN u.id = t.id /\ u.path = t.path
  OBVIOUS
<1>3. IdsUnique'
  BY <1>1, <1>2 DEF IdsUnique
<1>4. OneTimer'
  BY <1>1, <1>2 DEF OneTimer
<1> QED BY <1>3, <1>4

\* A finally block takes out its own entry or none.
LEMMA TimerUnwind ==
  ASSUME TInv, NEW t \in tasks, Unwind(t)
  PROVE  IdsUnique' /\ OneTimer'
<1> USE DEF TInv, IInv, IntakeTypeOK
<1>1. /\ tasks' = tasks \ {t} /\ UNCHANGED <<handlers, events>>
      /\ pending' = IF pending[t.path] = t.id THEN [pending EXCEPT ![t.path] = 0] ELSE pending
  BY DEF Unwind, Popped
<1>2. IdsUnique'
  BY <1>1 DEF IdsUnique
<1>3. OneTimer'
  BY <1>1 DEF OneTimer, IdsUnique
<1> QED BY <1>2, <1>3

\* A thread that ends lets its task go on, which has fired.
LEMMA TimerForget ==
  ASSUME TInv, NEW th \in threads, Forget(th)
  PROVE  IdsUnique' /\ OneTimer'
<1> USE DEF TInv, IInv, IntakeTypeOK
<1> DEFINE Left(t) == IF t.id = th.id /\ t.at = "queueing" THEN [t EXCEPT !.at = "done"] ELSE t
<1>1. tasks' = {Left(t) : t \in tasks} /\ UNCHANGED <<handlers, pending, events>>
  BY DEF Forget
<1>2. \A t \in tasks : /\ Left(t).id = t.id /\ Left(t).path = t.path
                       /\ Left(t).at \in {"waiting", "firing"} => Left(t) = t
  OBVIOUS
<1>3. \A t2 \in tasks' : \E t \in tasks : t2 = Left(t)
  BY <1>1
<1> HIDE DEF Left
<1>4. IdsUnique'
  BY <1>1, <1>2, <1>3 DEF IdsUnique
<1>5. OneTimer'
  BY <1>1, <1>2, <1>3 DEF OneTimer
<1> QED BY <1>4, <1>5

\* After a start every path has the timer of its row, and nothing else.
LEMMA TimerRestart ==
  ASSUME TInv, Restart
  PROVE  IdsUnique' /\ OneTimer'
<1> USE IntakeBounds DEF TInv, IInv, IntakeTypeOK
<1>1. /\ UNCHANGED <<handlers, events, rows>>
      /\ tasks' = {[id |-> MaxEvents + rows[p], path |-> p, row |-> rows[p], at |-> "waiting"] :
                      p \in Replayed}
      /\ pending' = [p \in Paths |-> IF p \in Replayed THEN MaxEvents + rows[p] ELSE 0]
  BY DEF Restart
<1>2. \A t \in tasks' : \E p \in Replayed :
        t = [id |-> MaxEvents + rows[p], path |-> p, row |-> rows[p], at |-> "waiting"]
  BY <1>1
<1>3. \A p \in Replayed : p \in Paths /\ rows[p] \in Nat /\ rows[p] # 0
  BY DEF Replayed
<1>4. IdsUnique'
  BY <1>1, <1>2, <1>3 DEF IdsUnique, RowsKnown
<1>5. OneTimer'
  BY <1>1, <1>2, <1>3 DEF OneTimer
<1> QED BY <1>4, <1>5

LEMMA TimerStep == TInv /\ [IntakeNext]_intakeVars => TInv'
<1> SUFFICES ASSUME TInv, [IntakeNext]_intakeVars PROVE TInv'
    OBVIOUS
<1> DEFINE Timers == IdsUnique' /\ OneTimer'
<1>1. IInv'
  BY KnownStep DEF TInv
<1>2. ASSUME NEW p \in Paths, Receive(p) PROVE Timers
  <2>1. lastRow + 1 \in Nat
    BY DEF TInv, IInv, IntakeTypeOK
  <2> QED BY <1>2, <2>1, TimerEvent DEF Receive, NewRow
<1>3. ASSUME NEW p \in Paths, ReceiveUnwritten(p) PROVE Timers
  BY <1>3, TimerEvent DEF ReceiveUnwritten
<1>4. ASSUME NEW t \in tasks, Fire(t) PROVE Timers
  BY <1>4, TimerMoves DEF Fire, Positions
<1>5. ASSUME NEW t \in tasks, Attempt(t) PROVE Timers
  BY <1>5, TimerMoves DEF Attempt, Positions
<1>6. ASSUME Stop PROVE Timers
  <2>1. handlers' = {} /\ tasks' = {} /\ events' = events
    BY <1>6 DEF Stop
  <2> QED BY <2>1 DEF IdsUnique, OneTimer
<1>7. ASSUME UNCHANGED intakeVars PROVE Timers
  BY <1>7 DEF intakeVars, TInv, IdsUnique, OneTimer
<1>9. ASSUME NEW th \in threads, Look(th) PROVE Timers
  BY <1>9 DEF Look, TInv, IdsUnique, OneTimer
<1>8. Timers
  BY <1>2, <1>3, <1>4, <1>5, <1>6, <1>7, <1>9,
     TimerArm, TimerUnwind, TimerForget, TimerRestart DEF IntakeNext, Goes
<1> QED BY <1>1, <1>8 DEF TInv

\* THEOREM: of a path's timers only the registered one can still fire.
THEOREM SingleTimer == IntakeSpec => []OneTimer
<1>1. TInv => OneTimer
  BY DEF TInv
<1> QED BY TimerInit, TimerStep, <1>1, PTL DEF IntakeSpec

-----------------------------------------------------------------------------
(* The library: its invariant.                                              *)

\* The two threads, by where they are.
JobShaped ==
    IF job.pc = "idle" THEN job = Idle
    ELSE job \in [pc : {"running", "swapped"}, id : 1 .. used.records,
                  from : Paths, to : Paths, file : Files \ {NoFile}]

Candidates == [id : Nat, path : Paths]
ScanShaped ==
    /\ scan.pc = "idle" => scan = Idle
    /\ scan.pc = "starting" => scan = [pc |-> "starting"]
    /\ scan.pc = "walking" =>
          scan \in [pc : {"walking"}, todo : SUBSET Paths, held : SUBSET Candidates]
    /\ scan.pc = "cleaning" =>
          scan \in [pc : {"cleaning"}, left : SUBSET Candidates,
                    listed : {"no", "yes", "empty"}, doomed : 0 .. used.records]

Bounded ==
    /\ used \in [records : Nat, scans : Nat, jobs : Nat, moves : Nat, mounts : Nat]
    /\ renames \subseteq Paths \X Paths /\ cancel \in BOOLEAN

\* A record is of a file that was there.
RecordsReal == \A p \in Paths : record[p].id # 0 => record[p].file # NoFile

\* Nothing happens to a job's output before its record is written.
OutputWaits == job.pc = "swapped" => disk[job.to] = job.file

Shape == TypeOK /\ JobShaped /\ ScanShaped /\ Bounded /\ RecordsReal /\ OutputWaits

\* The folder was there when the cleanup looked, and is; the record it is about
\* to remove is of no file.
DoomedGone ==
    scan.pc = "cleaning" =>
        /\ scan.listed = "yes" => mounted
        /\ scan.doomed # 0 => \A p \in Paths : record[p].id = scan.doomed => disk[p] = NoFile

\* The parts of TypeOK that steps of the library may break.
RecordTyped == record \in [Paths -> [id : 0 .. used.records, file : Files \cup {NoFile}]]
OneRecord == \A p, q \in Paths : record[p].id = record[q].id /\ record[p].id # 0 => p = q
DiskTyped == disk \in [Paths -> Files \cup {NoFile}] /\ mounted \in BOOLEAN
ScanFlagged == running <=> scan # Idle
Placed == /\ job.pc \in {"idle", "running", "swapped"}
          /\ scan.pc \in {"idle", "starting", "walking", "cleaning"}

\* TypeOK by its parts, so that a step can be asked about one of them.
LEMMA TypeParts ==
    TypeOK <=> /\ IntakeTypeOK /\ RecordTyped /\ OneRecord /\ DiskTyped
               /\ ScanFlagged /\ Placed
  BY DEF TypeOK, RecordTyped, OneRecord, DiskTyped, ScanFlagged, Placed

-----------------------------------------------------------------------------
(* The webhooks are those of Intake.                                       *)

\* What a step of the library does to the webhooks' state is a step of Intake, or
\* nothing.
LEMMA IntakeSteps == ASSUME Bounded, [Next]_vars PROVE [IntakeNext]_intakeVars
  <1>1. CASE UNCHANGED vars
    BY <1>1 DEF vars
  <1>2. ASSUME NEW p \in Paths, Import(p) PROVE IntakeNext
    BY <1>2 DEF Import, IntakeNext
  <1>3. ASSUME NEW r \in renames, Announce(r) PROVE IntakeNext
    <2>1. r[2] \in Paths
      BY DEF Bounded
    <2> QED BY <1>3, <2>1 DEF Announce, IntakeNext
  <1>4. CASE WebhookGoes
    BY <1>4 DEF WebhookGoes, IntakeNext, Goes
  <1>5. ASSUME NEW th \in threads, LookEvaluates(th) PROVE IntakeNext
    BY <1>5 DEF LookEvaluates, IntakeNext, Goes
  <1>6. CASE StopAll
    BY <1>6 DEF StopAll, IntakeNext
  <1>7. CASE Launch \/ CancelScan \/ ScanGoes
    BY <1>7 DEF Launch, CancelScan, ScanGoes, StartScan, ListRecords, EndScan, WalkFile,
       LookAt,
                RemoveRecord
  <1>8. CASE \/ \E p, q \in Paths : StartJob(p, q) \/ RenameFile(p, q)
             \/ \E p \in Paths, f \in Files \cup {NoFile} : ReplaceFile(p, f)
             \/ SwapJob \/ FinishJob \/ ShareMoves
    BY <1>8 DEF StartJob, RenameFile, ReplaceFile, Moved, SwapJob, FinishJob, ShareMoves
  <1> QED BY <1>1, <1>2, <1>3, <1>4, <1>5, <1>6, <1>7, <1>8 DEF Next

-----------------------------------------------------------------------------
(* The steps.  Those of Intake's variables are Intake's.                   *)

\* At first there is no record, no job and no scan.
LEMMA InitFits == ASSUME Init PROVE Shape /\ DoomedGone
  <1>1. IntakeTypeOK
    BY TypeInit DEF Init
  <1>2. RecordTyped /\ OneRecord /\ RecordsReal
    BY DEF Init, RecordTyped, OneRecord, RecordsReal, NoRecord
  <1>3. DiskTyped /\ ScanFlagged /\ Placed
    BY DEF Init, DiskTyped, ScanFlagged, Placed, Idle
  <1>4. JobShaped /\ ScanShaped /\ Bounded /\ OutputWaits /\ DoomedGone
    BY DEF Init, JobShaped, ScanShaped, Bounded, OutputWaits, DoomedGone, Idle
  <1> QED BY <1>1, <1>2, <1>3, <1>4, TypeParts DEF Shape

\* An evaluation gives a file that is there a record of its own, with an id no
\* record has had.
LEMMA EvaluatedFits ==
    ASSUME Shape, NEW p \in Paths, Evaluated(p)
    PROVE  /\ RecordTyped' /\ OneRecord' /\ RecordsReal'
           /\ used' \in [records : Nat, scans : Nat, jobs : Nat, moves : Nat, mounts : Nat]
           /\ used'.records \in {used.records, used.records + 1}
           /\ \A q \in Paths : \/ record'[q] = record[q]
                              \/ /\ q = p /\ Visible(p) /\ record'[p].file = disk[p]
                                 /\ \/ record'[p].id = record[p].id /\ record[p].id # 0
                                    \/ record'[p].id = used.records + 1
  <1>1. /\ record \in [Paths -> [id : 0 .. used.records, file : Files \cup {NoFile}]]
        /\ used.records \in Nat /\ disk \in [Paths -> Files \cup {NoFile}]
    BY TypeParts DEF Shape, Bounded, RecordTyped, DiskTyped
  <1>2. CASE ~Visible(p)
    <2>1. record' = record /\ used' = used
      BY <1>2 DEF Evaluated
    <2> QED BY <2>1, TypeParts DEF Shape, Bounded, RecordTyped, OneRecord, RecordsReal
  <1>3. CASE Visible(p) /\ record[p].id = 0
    <2>1. used' = [used EXCEPT !.records = used.records + 1]
      BY <1>3 DEF Evaluated
    <2>2. record' = [record EXCEPT ![p] = [id |-> used.records + 1, file |-> disk[p]]]
      BY <1>1, <1>3 DEF Evaluated
    <2>3. /\ used' \in [records : Nat, scans : Nat, jobs : Nat, moves : Nat, mounts : Nat]
          /\ used'.records = used.records + 1
      BY <2>1 DEF Shape, Bounded
    <2>4. \A q \in Paths : record'[q] = IF q = p THEN [id |-> used.records + 1, file |-> disk[p]]
                                                ELSE record[q]
      BY <1>1, <2>2
    <2>5. RecordTyped'
      BY <1>1, <2>2, <2>3 DEF RecordTyped
    <2>6. \A q \in Paths : record[q].id # used.records + 1
      BY <1>1
    <2>7. OneRecord'
      BY <2>4, <2>6, TypeParts DEF Shape, OneRecord
    <2>8. RecordsReal'
      BY <1>3, <2>4 DEF Shape, RecordsReal, Visible
    <2> QED BY <1>1, <1>3, <2>3, <2>4, <2>5, <2>7, <2>8
  <1>4. CASE Visible(p) /\ record[p].id # 0
    <2>1. used' = used
      BY <1>4 DEF Evaluated
    <2>2. record' = [record EXCEPT ![p] = [id |-> record[p].id, file |-> disk[p]]]
      BY <1>1, <1>4 DEF Evaluated
    <2>4. \A q \in Paths : record'[q] = IF q = p THEN [id |-> record[p].id, file |-> disk[p]]
                                                ELSE record[q]
      BY <1>1, <2>2
    <2>5. RecordTyped'
      BY <1>1, <2>1, <2>2 DEF RecordTyped
    <2>7. OneRecord'
      BY <2>4, TypeParts DEF Shape, OneRecord
    <2>8. RecordsReal'
      BY <1>4, <2>4 DEF Shape, RecordsReal, Visible
    <2> QED BY <1>1, <1>4, <2>1, <2>4, <2>5, <2>7, <2>8 DEF Shape, Bounded
  <1> QED BY <1>2, <1>3, <1>4

-----------------------------------------------------------------------------
(* One lemma for each action.                                              *)

\* A cancel is asked for while a scan has the flag.
LEMMA CancelScanFits == ASSUME Shape, CancelScan, IntakeTypeOK' PROVE Shape'
  <1>1. RecordTyped'
    BY TypeParts DEF CancelScan, Shape, Bounded, RecordTyped, JobShaped
  <1>2. OneRecord'
    BY TypeParts DEF CancelScan, Shape, OneRecord, RecordTyped
  <1>3. DiskTyped'
    BY TypeParts DEF CancelScan, Shape, DiskTyped, JobShaped
  <1>4. ScanFlagged'
    BY TypeParts DEF CancelScan, Shape, ScanFlagged, ScanShaped, Placed
  <1>5. Placed'
    BY TypeParts DEF CancelScan, Shape, Placed, JobShaped, ScanShaped
  <1>6. JobShaped'
    BY TypeParts DEF CancelScan, Shape, JobShaped, Bounded, RecordTyped, DiskTyped
  <1>7. ScanShaped'
    BY TypeParts DEF CancelScan, Shape, ScanShaped, Candidates, Placed, Bounded,
       RecordTyped
  <1>8. Bounded'
    BY DEF CancelScan, Shape, Bounded
  <1>9. RecordsReal'
    BY TypeParts DEF CancelScan, Shape, RecordsReal, JobShaped, RecordTyped
  <1>10. OutputWaits'
    BY TypeParts DEF CancelScan, Shape, OutputWaits, DiskTyped, JobShaped
  <1> QED BY <1>1, <1>2, <1>3, <1>4, <1>5, <1>6, <1>7, <1>8, <1>9, <1>10, TypeParts
             DEF Shape, TypeOK,
             RecordTyped, OneRecord, DiskTyped, ScanFlagged, Placed

\* The flag is set when a thread starts, and only then.
LEMMA LaunchFits == ASSUME Shape, Launch, IntakeTypeOK' PROVE Shape'
  <1>1. RecordTyped'
    BY TypeParts DEF Launch, FlagAfter, Idle, Count, Shape, Bounded, RecordTyped,
       JobShaped
  <1>2. OneRecord'
    BY TypeParts DEF Launch, FlagAfter, Idle, Count, Shape, OneRecord, RecordTyped
  <1>3. DiskTyped'
    BY TypeParts DEF Launch, FlagAfter, Idle, Count, Shape, DiskTyped, JobShaped
  <1>4. ScanFlagged'
    BY TypeParts DEF Launch, FlagAfter, Idle, Count, Shape, ScanFlagged, ScanShaped,
       Placed
  <1>5. Placed'
    BY TypeParts DEF Launch, FlagAfter, Idle, Count, Shape, Placed, JobShaped, ScanShaped
  <1>6. JobShaped'
    BY TypeParts DEF Launch, FlagAfter, Idle, Count, Shape, JobShaped, Bounded,
       RecordTyped, DiskTyped
  <1>7. ScanShaped'
    BY TypeParts DEF Launch, FlagAfter, Idle, Count, Shape, ScanShaped, Candidates,
       Placed, Bounded, RecordTyped
  <1>8. Bounded'
    BY DEF Launch, FlagAfter, Idle, Count, Shape, Bounded
  <1>9. RecordsReal'
    BY TypeParts DEF Launch, FlagAfter, Idle, Count, Shape, RecordsReal, JobShaped,
       RecordTyped
  <1>10. OutputWaits'
    BY TypeParts DEF Launch, FlagAfter, Idle, Count, Shape, OutputWaits, DiskTyped,
       JobShaped
  <1> QED BY <1>1, <1>2, <1>3, <1>4, <1>5, <1>6, <1>7, <1>8, <1>9, <1>10, TypeParts
             DEF Shape, TypeOK,
             RecordTyped, OneRecord, DiskTyped, ScanFlagged, Placed

\* The walk lists what can be seen.
LEMMA StartScanFits == ASSUME Shape, StartScan, IntakeTypeOK' PROVE Shape'
  <1>1. RecordTyped'
    BY TypeParts DEF StartScan, Idle, Shape, Bounded, RecordTyped, JobShaped
  <1>2. OneRecord'
    BY TypeParts DEF StartScan, Idle, Shape, OneRecord, RecordTyped
  <1>3. DiskTyped'
    BY TypeParts DEF StartScan, Idle, Shape, DiskTyped, JobShaped
  <1>4. ScanFlagged'
    BY TypeParts DEF StartScan, Idle, Shape, ScanFlagged, ScanShaped, Placed
  <1>5. Placed'
    BY TypeParts DEF StartScan, Idle, Shape, Placed, JobShaped, ScanShaped
  <1>6. JobShaped'
    BY TypeParts DEF StartScan, Idle, Shape, JobShaped, Bounded, RecordTyped, DiskTyped
  <1>7. ScanShaped'
    BY TypeParts DEF StartScan, Idle, Shape, ScanShaped, Candidates, Placed, Bounded,
       RecordTyped
  <1>8. Bounded'
    BY DEF StartScan, Idle, Shape, Bounded
  <1>9. RecordsReal'
    BY TypeParts DEF StartScan, Idle, Shape, RecordsReal, JobShaped, RecordTyped
  <1>10. OutputWaits'
    BY TypeParts DEF StartScan, Idle, Shape, OutputWaits, DiskTyped, JobShaped
  <1> QED BY <1>1, <1>2, <1>3, <1>4, <1>5, <1>6, <1>7, <1>8, <1>9, <1>10, TypeParts
             DEF Shape, TypeOK,
             RecordTyped, OneRecord, DiskTyped, ScanFlagged, Placed

\* The cleanup begins with nothing looked at.
LEMMA ListFits == ASSUME Shape, ListRecords, IntakeTypeOK' PROVE Shape'
  <1>1. RecordTyped'
    BY TypeParts DEF ListRecords, Idle, Shape, Bounded, RecordTyped, JobShaped
  <1>2. OneRecord'
    BY TypeParts DEF ListRecords, Idle, Shape, OneRecord, RecordTyped
  <1>3. DiskTyped'
    BY TypeParts DEF ListRecords, Idle, Shape, DiskTyped, JobShaped
  <1>4. ScanFlagged'
    BY TypeParts DEF ListRecords, Idle, Shape, ScanFlagged, ScanShaped, Placed
  <1>5. Placed'
    BY TypeParts DEF ListRecords, Idle, Shape, Placed, JobShaped, ScanShaped
  <1>6. JobShaped'
    BY TypeParts DEF ListRecords, Idle, Shape, JobShaped, Bounded, RecordTyped, DiskTyped
  <1>7. ScanShaped'
    BY TypeParts DEF ListRecords, Idle, Shape, ScanShaped, Candidates, Placed, Bounded,
       RecordTyped
  <1>8. Bounded'
    BY DEF ListRecords, Idle, Shape, Bounded
  <1>9. RecordsReal'
    BY TypeParts DEF ListRecords, Idle, Shape, RecordsReal, JobShaped, RecordTyped
  <1>10. OutputWaits'
    BY TypeParts DEF ListRecords, Idle, Shape, OutputWaits, DiskTyped, JobShaped
  <1> QED BY <1>1, <1>2, <1>3, <1>4, <1>5, <1>6, <1>7, <1>8, <1>9, <1>10, TypeParts
             DEF Shape, TypeOK,
             RecordTyped, OneRecord, DiskTyped, ScanFlagged, Placed

\* A row looked at is doomed only when the folder is there and its file is not.
LEMMA LookFits ==
  ASSUME NEW c \in [id : 1 .. used.records, path : Paths], Shape, LookAt(c), IntakeTypeOK'
  PROVE  Shape'
  <1>1. RecordTyped'
    BY TypeParts DEF LookAt, Idle, Shape, Bounded, RecordTyped, JobShaped
  <1>2. OneRecord'
    BY TypeParts DEF LookAt, Idle, Shape, OneRecord, RecordTyped
  <1>3. DiskTyped'
    BY TypeParts DEF LookAt, Idle, Shape, DiskTyped, JobShaped
  <1>4. ScanFlagged'
    BY TypeParts DEF LookAt, Idle, Shape, ScanFlagged, ScanShaped, Placed
  <1>5. Placed'
    BY TypeParts DEF LookAt, Idle, Shape, Placed, JobShaped, ScanShaped
  <1>6. JobShaped'
    BY TypeParts DEF LookAt, Idle, Shape, JobShaped, Bounded, RecordTyped, DiskTyped
  <1>7. ScanShaped'
    <2> DEFINE missing == ~Visible(c.path) /\ \E p \in Refreshed(c) : ~Visible(p)
               listed == IF missing THEN Shown ELSE scan.listed
               doomed == IF missing /\ Shown = "yes" THEN c.id ELSE 0
    <2>1. scan \in [pc : {"cleaning"}, left : SUBSET Candidates,
                   listed : {"no", "yes", "empty"}, doomed : 0 .. used.records]
      BY DEF LookAt, Shape, ScanShaped
    <2>2. scan' = [scan EXCEPT !.left = scan.left \ {c}, !.listed = listed, !.doomed = doomed]
          /\ used' = used
      BY DEF LookAt
    <2>3. listed \in {"no", "yes", "empty"}
      BY <2>1 DEF Shown
    <2>4. doomed \in 0 .. used.records
      BY DEF Shape, Bounded
    <2>5. scan.left \ {c} \in SUBSET Candidates
      BY <2>1
    <2> HIDE DEF listed, doomed
    <2>6. scan' \in [pc : {"cleaning"}, left : SUBSET Candidates,
                    listed : {"no", "yes", "empty"}, doomed : 0 .. used.records]
      BY <2>1, <2>2, <2>3, <2>4, <2>5
    <2> QED BY <2>2, <2>6 DEF ScanShaped
  <1>8. Bounded'
    BY DEF LookAt, Idle, Shape, Bounded
  <1>9. RecordsReal'
    BY TypeParts DEF LookAt, Idle, Shape, RecordsReal, JobShaped, RecordTyped
  <1>10. OutputWaits'
    BY TypeParts DEF LookAt, Idle, Shape, OutputWaits, DiskTyped, JobShaped
  <1> QED BY <1>1, <1>2, <1>3, <1>4, <1>5, <1>6, <1>7, <1>8, <1>9, <1>10, TypeParts
             DEF Shape, TypeOK,
             RecordTyped, OneRecord, DiskTyped, ScanFlagged, Placed

\* The doomed row goes, unless a job is at it.
LEMMA RemoveFits == ASSUME Shape, RemoveRecord, IntakeTypeOK' PROVE Shape'
  <1>1. RecordTyped'
    BY TypeParts DEF RemoveRecord, Looking, Idle, NoRecord, Shape, Bounded, RecordTyped,
       JobShaped
  <1>2. OneRecord'
    BY TypeParts DEF RemoveRecord, Looking, Idle, NoRecord, Shape, OneRecord, RecordTyped
  <1>3. DiskTyped'
    BY TypeParts DEF RemoveRecord, Looking, Idle, NoRecord, Shape, DiskTyped, JobShaped
  <1>4. ScanFlagged'
    BY TypeParts DEF RemoveRecord, Looking, Idle, NoRecord, Shape, ScanFlagged,
       ScanShaped, Placed
  <1>5. Placed'
    BY TypeParts DEF RemoveRecord, Looking, Idle, NoRecord, Shape, Placed, JobShaped,
       ScanShaped
  <1>6. JobShaped'
    BY TypeParts DEF RemoveRecord, Looking, Idle, NoRecord, Shape, JobShaped, Bounded,
       RecordTyped, DiskTyped
  <1>7. ScanShaped'
    BY TypeParts DEF RemoveRecord, Looking, Idle, NoRecord, Shape, ScanShaped,
       Candidates, Placed, Bounded, RecordTyped
  <1>8. Bounded'
    BY DEF RemoveRecord, Looking, Idle, NoRecord, Shape, Bounded
  <1>9. RecordsReal'
    BY TypeParts DEF RemoveRecord, Looking, Idle, NoRecord, Shape, RecordsReal,
       JobShaped, RecordTyped
  <1>10. OutputWaits'
    BY TypeParts DEF RemoveRecord, Looking, Idle, NoRecord, Shape, OutputWaits,
       DiskTyped, JobShaped
  <1> QED BY <1>1, <1>2, <1>3, <1>4, <1>5, <1>6, <1>7, <1>8, <1>9, <1>10, TypeParts
             DEF Shape, TypeOK,
             RecordTyped, OneRecord, DiskTyped, ScanFlagged, Placed

\* The flag comes back with the end of the scan.
LEMMA EndScanFits == ASSUME Shape, EndScan, IntakeTypeOK' PROVE Shape'
  <1>1. RecordTyped'
    BY TypeParts DEF EndScan, Idle, Shape, Bounded, RecordTyped, JobShaped
  <1>2. OneRecord'
    BY TypeParts DEF EndScan, Idle, Shape, OneRecord, RecordTyped
  <1>3. DiskTyped'
    BY TypeParts DEF EndScan, Idle, Shape, DiskTyped, JobShaped
  <1>4. ScanFlagged'
    BY TypeParts DEF EndScan, Idle, Shape, ScanFlagged, ScanShaped, Placed
  <1>5. Placed'
    BY TypeParts DEF EndScan, Idle, Shape, Placed, JobShaped, ScanShaped
  <1>6. JobShaped'
    BY TypeParts DEF EndScan, Idle, Shape, JobShaped, Bounded, RecordTyped, DiskTyped
  <1>7. ScanShaped'
    BY TypeParts DEF EndScan, Idle, Shape, ScanShaped, Candidates, Placed, Bounded,
       RecordTyped
  <1>8. Bounded'
    BY DEF EndScan, Idle, Shape, Bounded
  <1>9. RecordsReal'
    BY TypeParts DEF EndScan, Idle, Shape, RecordsReal, JobShaped, RecordTyped
  <1>10. OutputWaits'
    BY TypeParts DEF EndScan, Idle, Shape, OutputWaits, DiskTyped, JobShaped
  <1> QED BY <1>1, <1>2, <1>3, <1>4, <1>5, <1>6, <1>7, <1>8, <1>9, <1>10, TypeParts
             DEF Shape, TypeOK,
             RecordTyped, OneRecord, DiskTyped, ScanFlagged, Placed

\* A job begins on a file that is there.
LEMMA StartJobFits ==
  ASSUME NEW p \in Paths, NEW q \in Paths, Shape, StartJob(p, q), IntakeTypeOK'
  PROVE  Shape'
  <1>1. RecordTyped'
    BY TypeParts DEF StartJob, Visible, Count, Shape, Bounded, RecordTyped, JobShaped
  <1>2. OneRecord'
    BY TypeParts DEF StartJob, Visible, Count, Shape, OneRecord, RecordTyped
  <1>3. DiskTyped'
    BY TypeParts DEF StartJob, Visible, Count, Shape, DiskTyped, JobShaped
  <1>4. ScanFlagged'
    BY TypeParts DEF StartJob, Visible, Count, Shape, ScanFlagged, ScanShaped, Placed
  <1>5. Placed'
    BY TypeParts DEF StartJob, Visible, Count, Shape, Placed, JobShaped, ScanShaped
  <1>6. JobShaped'
    BY TypeParts DEF StartJob, Visible, Count, Shape, JobShaped, Bounded, RecordTyped,
       DiskTyped
  <1>7. ScanShaped'
    BY TypeParts DEF StartJob, Visible, Count, Shape, ScanShaped, Candidates, Placed,
       Bounded, RecordTyped
  <1>8. Bounded'
    BY DEF StartJob, Visible, Count, Shape, Bounded
  <1>9. RecordsReal'
    BY TypeParts DEF StartJob, Visible, Count, Shape, RecordsReal, JobShaped, RecordTyped
  <1>10. OutputWaits'
    BY TypeParts DEF StartJob, Visible, Count, Shape, OutputWaits, DiskTyped, JobShaped
  <1> QED BY <1>1, <1>2, <1>3, <1>4, <1>5, <1>6, <1>7, <1>8, <1>9, <1>10, TypeParts
             DEF Shape, TypeOK,
             RecordTyped, OneRecord, DiskTyped, ScanFlagged, Placed

\* The output is at its name once the job has swapped.
LEMMA SwapFits == ASSUME Shape, SwapJob, IntakeTypeOK' PROVE Shape'
  <1>1. RecordTyped'
    BY TypeParts DEF SwapJob, Idle, Looking, Shape, Bounded, RecordTyped, JobShaped
  <1>2. OneRecord'
    BY TypeParts DEF SwapJob, Idle, Looking, Shape, OneRecord, RecordTyped
  <1>3. DiskTyped'
    BY TypeParts DEF SwapJob, Idle, Looking, Shape, DiskTyped, JobShaped
  <1>4. ScanFlagged'
    BY TypeParts DEF SwapJob, Idle, Looking, Shape, ScanFlagged, ScanShaped, Placed
  <1>5. Placed'
    BY TypeParts DEF SwapJob, Idle, Looking, Shape, Placed, JobShaped, ScanShaped
  <1>6. JobShaped'
    BY TypeParts DEF SwapJob, Idle, Looking, Shape, JobShaped, Bounded, RecordTyped,
       DiskTyped
  <1>7. ScanShaped'
    BY TypeParts DEF SwapJob, Idle, Looking, Shape, ScanShaped, Candidates, Placed,
       Bounded, RecordTyped
  <1>8. Bounded'
    BY DEF SwapJob, Idle, Looking, Shape, Bounded
  <1>9. RecordsReal'
    BY TypeParts DEF SwapJob, Idle, Looking, Shape, RecordsReal, JobShaped, RecordTyped
  <1>10. OutputWaits'
    BY TypeParts DEF SwapJob, Idle, Looking, Shape, OutputWaits, DiskTyped, JobShaped
  <1> QED BY <1>1, <1>2, <1>3, <1>4, <1>5, <1>6, <1>7, <1>8, <1>9, <1>10, TypeParts
             DEF Shape, TypeOK,
             RecordTyped, OneRecord, DiskTyped, ScanFlagged, Placed

\* The record goes to the output, which one file has.
LEMMA FinishFits == ASSUME Shape, FinishJob, IntakeTypeOK' PROVE Shape'
  <1>1. RecordTyped'
    BY TypeParts DEF FinishJob, PathsOf, NoRecord, Idle, Looking, Shape, Bounded,
       RecordTyped, JobShaped
  <1>2. OneRecord'
    BY TypeParts DEF FinishJob, PathsOf, NoRecord, Idle, Looking, Shape, OneRecord,
       RecordTyped
  <1>3. DiskTyped'
    BY TypeParts DEF FinishJob, PathsOf, NoRecord, Idle, Looking, Shape, DiskTyped,
       JobShaped
  <1>4. ScanFlagged'
    BY TypeParts DEF FinishJob, PathsOf, NoRecord, Idle, Looking, Shape, ScanFlagged,
       ScanShaped, Placed
  <1>5. Placed'
    BY TypeParts DEF FinishJob, PathsOf, NoRecord, Idle, Looking, Shape, Placed,
       JobShaped, ScanShaped
  <1>6. JobShaped'
    BY TypeParts DEF FinishJob, PathsOf, NoRecord, Idle, Looking, Shape, JobShaped,
       Bounded, RecordTyped, DiskTyped
  <1>7. ScanShaped'
    BY TypeParts DEF FinishJob, PathsOf, NoRecord, Idle, Looking, Shape, ScanShaped,
       Candidates, Placed, Bounded, RecordTyped
  <1>8. Bounded'
    BY DEF FinishJob, PathsOf, NoRecord, Idle, Looking, Shape, Bounded
  <1>9. RecordsReal'
    BY TypeParts DEF FinishJob, PathsOf, NoRecord, Idle, Looking, Shape, RecordsReal,
       JobShaped, RecordTyped
  <1>10. OutputWaits'
    BY TypeParts DEF FinishJob, PathsOf, NoRecord, Idle, Looking, Shape, OutputWaits,
       DiskTyped, JobShaped
  <1> QED BY <1>1, <1>2, <1>3, <1>4, <1>5, <1>6, <1>7, <1>8, <1>9, <1>10, TypeParts
             DEF Shape, TypeOK,
             RecordTyped, OneRecord, DiskTyped, ScanFlagged, Placed

\* A file renamed is not a job's output that waits.
LEMMA RenameFits ==
  ASSUME NEW p \in Paths, NEW q \in Paths, Shape, RenameFile(p, q), IntakeTypeOK'
  PROVE  Shape'
  <1>1. RecordTyped'
    BY TypeParts DEF RenameFile, Moved, Count, Visible, Looking, Shape, Bounded,
       RecordTyped, JobShaped
  <1>2. OneRecord'
    BY TypeParts DEF RenameFile, Moved, Count, Visible, Looking, Shape, OneRecord,
       RecordTyped
  <1>3. DiskTyped'
    BY TypeParts DEF RenameFile, Moved, Count, Visible, Looking, Shape, DiskTyped,
       JobShaped
  <1>4. ScanFlagged'
    BY TypeParts DEF RenameFile, Moved, Count, Visible, Looking, Shape, ScanFlagged,
       ScanShaped, Placed
  <1>5. Placed'
    BY TypeParts DEF RenameFile, Moved, Count, Visible, Looking, Shape, Placed,
       JobShaped, ScanShaped
  <1>6. JobShaped'
    BY TypeParts DEF RenameFile, Moved, Count, Visible, Looking, Shape, JobShaped,
       Bounded, RecordTyped, DiskTyped
  <1>7. ScanShaped'
    BY TypeParts DEF RenameFile, Moved, Count, Visible, Looking, Shape, ScanShaped,
       Candidates, Placed, Bounded, RecordTyped
  <1>8. Bounded'
    BY DEF RenameFile, Moved, Count, Visible, Looking, Shape, Bounded
  <1>9. RecordsReal'
    BY TypeParts DEF RenameFile, Moved, Count, Visible, Looking, Shape, RecordsReal,
       JobShaped, RecordTyped
  <1>10. OutputWaits'
    BY TypeParts DEF RenameFile, Moved, Count, Visible, Looking, Shape, OutputWaits,
       DiskTyped, JobShaped
  <1> QED BY <1>1, <1>2, <1>3, <1>4, <1>5, <1>6, <1>7, <1>8, <1>9, <1>10, TypeParts
             DEF Shape, TypeOK,
             RecordTyped, OneRecord, DiskTyped, ScanFlagged, Placed

\* Nor is a file replaced or deleted.
LEMMA ReplaceFits ==
  ASSUME NEW p \in Paths, NEW f \in Files \cup {NoFile}, Shape, ReplaceFile(p, f), IntakeTypeOK'
  PROVE  Shape'
  <1>1. RecordTyped'
    BY TypeParts DEF ReplaceFile, Moved, Count, Looking, Shape, Bounded, RecordTyped,
       JobShaped
  <1>2. OneRecord'
    BY TypeParts DEF ReplaceFile, Moved, Count, Looking, Shape, OneRecord, RecordTyped
  <1>3. DiskTyped'
    BY TypeParts DEF ReplaceFile, Moved, Count, Looking, Shape, DiskTyped, JobShaped
  <1>4. ScanFlagged'
    BY TypeParts DEF ReplaceFile, Moved, Count, Looking, Shape, ScanFlagged, ScanShaped,
       Placed
  <1>5. Placed'
    BY TypeParts DEF ReplaceFile, Moved, Count, Looking, Shape, Placed, JobShaped,
       ScanShaped
  <1>6. JobShaped'
    BY TypeParts DEF ReplaceFile, Moved, Count, Looking, Shape, JobShaped, Bounded,
       RecordTyped, DiskTyped
  <1>7. ScanShaped'
    BY TypeParts DEF ReplaceFile, Moved, Count, Looking, Shape, ScanShaped, Candidates,
       Placed, Bounded, RecordTyped
  <1>8. Bounded'
    BY DEF ReplaceFile, Moved, Count, Looking, Shape, Bounded
  <1>9. RecordsReal'
    BY TypeParts DEF ReplaceFile, Moved, Count, Looking, Shape, RecordsReal, JobShaped,
       RecordTyped
  <1>10. OutputWaits'
    BY TypeParts DEF ReplaceFile, Moved, Count, Looking, Shape, OutputWaits, DiskTyped,
       JobShaped
  <1> QED BY <1>1, <1>2, <1>3, <1>4, <1>5, <1>6, <1>7, <1>8, <1>9, <1>10, TypeParts
             DEF Shape, TypeOK,
             RecordTyped, OneRecord, DiskTyped, ScanFlagged, Placed

\* The share goes and comes outside a cleanup.
LEMMA ShareFits == ASSUME Shape, ShareMoves, IntakeTypeOK' PROVE Shape'
  <1>1. RecordTyped'
    BY TypeParts DEF ShareMoves, Count, Shape, Bounded, RecordTyped, JobShaped
  <1>2. OneRecord'
    BY TypeParts DEF ShareMoves, Count, Shape, OneRecord, RecordTyped
  <1>3. DiskTyped'
    BY TypeParts DEF ShareMoves, Count, Shape, DiskTyped, JobShaped
  <1>4. ScanFlagged'
    BY TypeParts DEF ShareMoves, Count, Shape, ScanFlagged, ScanShaped, Placed
  <1>5. Placed'
    BY TypeParts DEF ShareMoves, Count, Shape, Placed, JobShaped, ScanShaped
  <1>6. JobShaped'
    BY TypeParts DEF ShareMoves, Count, Shape, JobShaped, Bounded, RecordTyped, DiskTyped
  <1>7. ScanShaped'
    BY TypeParts DEF ShareMoves, Count, Shape, ScanShaped, Candidates, Placed, Bounded,
       RecordTyped
  <1>8. Bounded'
    BY DEF ShareMoves, Count, Shape, Bounded
  <1>9. RecordsReal'
    BY TypeParts DEF ShareMoves, Count, Shape, RecordsReal, JobShaped, RecordTyped
  <1>10. OutputWaits'
    BY TypeParts DEF ShareMoves, Count, Shape, OutputWaits, DiskTyped, JobShaped
  <1> QED BY <1>1, <1>2, <1>3, <1>4, <1>5, <1>6, <1>7, <1>8, <1>9, <1>10, TypeParts
             DEF Shape, TypeOK,
             RecordTyped, OneRecord, DiskTyped, ScanFlagged, Placed

\* A stop takes the scan and the job with it.
LEMMA StopFits == ASSUME Shape, StopAll, IntakeTypeOK' PROVE Shape'
  <1>1. RecordTyped'
    BY TypeParts DEF StopAll, Idle, Shape, Bounded, RecordTyped, JobShaped
  <1>2. OneRecord'
    BY TypeParts DEF StopAll, Idle, Shape, OneRecord, RecordTyped
  <1>3. DiskTyped'
    BY TypeParts DEF StopAll, Idle, Shape, DiskTyped, JobShaped
  <1>4. ScanFlagged'
    BY TypeParts DEF StopAll, Idle, Shape, ScanFlagged, ScanShaped, Placed
  <1>5. Placed'
    BY TypeParts DEF StopAll, Idle, Shape, Placed, JobShaped, ScanShaped
  <1>6. JobShaped'
    BY TypeParts DEF StopAll, Idle, Shape, JobShaped, Bounded, RecordTyped, DiskTyped
  <1>7. ScanShaped'
    BY TypeParts DEF StopAll, Idle, Shape, ScanShaped, Candidates, Placed, Bounded,
       RecordTyped
  <1>8. Bounded'
    BY DEF StopAll, Idle, Shape, Bounded
  <1>9. RecordsReal'
    BY TypeParts DEF StopAll, Idle, Shape, RecordsReal, JobShaped, RecordTyped
  <1>10. OutputWaits'
    BY TypeParts DEF StopAll, Idle, Shape, OutputWaits, DiskTyped, JobShaped
  <1> QED BY <1>1, <1>2, <1>3, <1>4, <1>5, <1>6, <1>7, <1>8, <1>9, <1>10, TypeParts
             DEF Shape, TypeOK,
             RecordTyped, OneRecord, DiskTyped, ScanFlagged, Placed

\* A webhook's evaluation, with the step of its thread.
LEMMA EvaluationFits ==
  ASSUME NEW th \in threads, Shape, LookEvaluates(th), IntakeTypeOK'
  PROVE  Shape'
  <1>1. th.path \in Paths /\ Evaluated(th.path)
    BY TypeParts DEF Shape, IntakeTypeOK, LookEvaluates
  <1>2. UNCHANGED <<disk, mounted, job, running, cancel, scan, renames>>
    BY DEF LookEvaluates
  <1>3. /\ RecordTyped' /\ OneRecord' /\ RecordsReal'
        /\ used' \in [records : Nat, scans : Nat, jobs : Nat, moves : Nat, mounts : Nat]
        /\ used'.records \in {used.records, used.records + 1} /\ used.records \in Nat
    BY <1>1, EvaluatedFits DEF Shape, Bounded
  <1>4. \A n \in Nat : n <= used.records => n <= used'.records
    BY <1>3
  <1>5. JobShaped'
    BY <1>2, <1>3, <1>4 DEF Shape, JobShaped
  <1>6. ScanShaped'
    BY <1>2, <1>3, <1>4 DEF Shape, ScanShaped
  <1>7. DiskTyped' /\ ScanFlagged' /\ Placed' /\ Bounded' /\ OutputWaits'
    BY <1>2, <1>3, TypeParts DEF Shape, DiskTyped, ScanFlagged, Placed, Bounded,
       OutputWaits
  <1> QED BY <1>3, <1>5, <1>6, <1>7, TypeParts DEF Shape, TypeOK, RecordTyped, OneRecord,
             DiskTyped, ScanFlagged, Placed

\* The walk's, with the scan going on or cancelled.
LEMMA WalkFits ==
  ASSUME NEW p \in Paths, Shape, WalkFile(p), IntakeTypeOK'
  PROVE  Shape'
  <1>1. /\ scan.pc = "walking" /\ Evaluated(p)
        /\ UNCHANGED <<disk, mounted, job, cancel, renames>> /\ running' = ~cancel
    BY DEF WalkFile
  <1>2. /\ RecordTyped' /\ OneRecord' /\ RecordsReal'
        /\ used' \in [records : Nat, scans : Nat, jobs : Nat, moves : Nat, mounts : Nat]
        /\ used'.records \in {used.records, used.records + 1} /\ used.records \in Nat
    BY <1>1, EvaluatedFits DEF Shape, Bounded
  <1>3. \A n \in Nat : n <= used.records => n <= used'.records
    BY <1>2
  <1>4. JobShaped'
    BY <1>1, <1>2, <1>3 DEF Shape, JobShaped
  <1>5. \/ cancel /\ scan' = Idle
        \/ ~cancel /\ scan' \in [pc : {"walking"}, todo : SUBSET Paths, held : SUBSET Candidates]
    <2>1. scan \in [pc : {"walking"}, todo : SUBSET Paths, held : SUBSET Candidates]
      BY <1>1 DEF Shape, ScanShaped
    <2>2. record'[p].id \in Nat
      BY <1>2 DEF RecordTyped
    <2> DEFINE held == IF record'[p].id = 0 THEN {} ELSE {[id |-> record'[p].id, path |-> p]}
    <2>3. held \in SUBSET Candidates
      BY <2>2 DEF Candidates
    <2>4. scan' = IF cancel THEN Idle ELSE [scan EXCEPT !.todo = scan.todo \ {p}, !.held = held]
      BY DEF WalkFile
    <2> HIDE DEF held
    <2> QED BY <2>1, <2>3, <2>4
  <1>6. ScanShaped' /\ ScanFlagged' /\ Placed'
    <2>1. job.pc \in {"idle", "running", "swapped"} /\ job' = job /\ cancel \in BOOLEAN
      BY <1>1, TypeParts DEF Shape, Placed, Bounded
    <2>2. CASE cancel
      <3>1. scan' = [pc |-> "idle"] /\ running' = FALSE
        BY <1>1, <1>5, <2>2 DEF Idle
      <3> QED BY <2>1, <3>1 DEF ScanShaped, ScanFlagged, Placed, Idle
    <2>3. CASE ~cancel
      <3>1. /\ scan' \in [pc : {"walking"}, todo : SUBSET Paths, held : SUBSET Candidates]
            /\ running' = TRUE
        BY <1>1, <1>5, <2>3
      <3>2. scan'.pc = "walking" /\ scan' # Idle
        BY <3>1 DEF Idle
      <3> QED BY <2>1, <3>1, <3>2 DEF ScanShaped, ScanFlagged, Placed
    <2> QED BY <2>2, <2>3
  <1>7. DiskTyped' /\ Bounded' /\ OutputWaits'
    BY <1>1, <1>2, TypeParts DEF Shape, DiskTyped, Bounded, OutputWaits
  <1> QED BY <1>2, <1>4, <1>6, <1>7, TypeParts DEF Shape, TypeOK, RecordTyped, OneRecord,
             DiskTyped, ScanFlagged, Placed

\* An announced rename moves a record from a path to another, or moves nothing.
LEMMA MoveFits ==
    ASSUME Shape, NEW old \in Paths, NEW new \in Paths, MoveRecord(old, new), used' = used
    PROVE  /\ RecordTyped' /\ OneRecord' /\ RecordsReal'
           /\ \/ record' = record
              \/ /\ ~Visible(old) /\ Visible(new) /\ record[old].id # 0
                 /\ \A q \in Paths : record'[q] = IF q = old THEN NoRecord
                                              ELSE IF q = new THEN record[old] ELSE record[q]
  <1>1. record \in [Paths -> [id : 0 .. used.records, file : Files \cup {NoFile}]]
    BY TypeParts DEF Shape, RecordTyped
  <1>2. CASE record' = record
    BY <1>2, TypeParts DEF Shape, RecordTyped, OneRecord, RecordsReal
  <1>3. CASE record' # record
    <2>1. /\ record' = [record EXCEPT ![new] = record[old], ![old] = NoRecord]
          /\ ~Visible(old) /\ Visible(new) /\ record[old].id # 0
      BY <1>3 DEF MoveRecord
    <2>2. NoRecord \in [id : 0 .. used.records, file : Files \cup {NoFile}]
      BY DEF NoRecord, Shape, Bounded
    <2>3. RecordTyped'
      BY <1>1, <2>1, <2>2 DEF RecordTyped
    <2>4. old # new
      BY <2>1
    <2>5. \A q \in Paths : record'[q] = IF q = old THEN NoRecord
                                       ELSE IF q = new THEN record[old] ELSE record[q]
      BY <1>1, <2>1
    <2>6. OneRecord'
      BY <2>4, <2>5, TypeParts DEF Shape, OneRecord, NoRecord
    <2>7. RecordsReal'
      BY <2>5 DEF Shape, RecordsReal, NoRecord
    <2> QED BY <2>1, <2>3, <2>4, <2>5, <2>6, <2>7
  <1> QED BY <1>2, <1>3

\* A Rename event gives the record the new name, or finds nothing to move.
LEMMA AnnounceFits ==
  ASSUME NEW r \in renames, Shape, Announce(r), IntakeTypeOK'
  PROVE  Shape'
  <1>1. r[1] \in Paths /\ r[2] \in Paths
    BY DEF Shape, Bounded
  <1>2. /\ MoveRecord(r[1], r[2]) /\ renames' = renames \ {r}
        /\ UNCHANGED <<disk, mounted, job, running, cancel, scan, used>>
    BY DEF Announce
  <1>3. RecordTyped' /\ OneRecord' /\ RecordsReal'
    BY <1>1, <1>2, MoveFits
  <1>4. JobShaped' /\ ScanShaped' /\ Bounded' /\ OutputWaits'
    BY <1>2 DEF Shape, JobShaped, ScanShaped, Bounded, OutputWaits
  <1>5. DiskTyped' /\ ScanFlagged' /\ Placed'
    BY <1>2, TypeParts DEF Shape, DiskTyped, ScanFlagged, Placed
  <1> QED BY <1>3, <1>4, <1>5, TypeParts DEF Shape, TypeOK, RecordTyped, OneRecord,
             DiskTyped, ScanFlagged, Placed

\* The shape survives every step.
LEMMA ShapeStep == Shape /\ [Next]_vars => Shape'
  <1> SUFFICES ASSUME Shape, [Next]_vars PROVE Shape'
    OBVIOUS
  <1>1. IntakeTypeOK'
    BY IntakeSteps, TypeStep, TypeParts DEF Shape
  <1>2. CASE UNCHANGED libraryVars
    BY <1>1, <1>2, TypeParts
       DEF libraryVars, Shape, JobShaped, ScanShaped, Bounded, RecordsReal, OutputWaits, TypeOK,
           RecordTyped, OneRecord, DiskTyped, ScanFlagged, Placed
  <1>3. ASSUME NEW p \in Paths, Import(p) PROVE Shape'
    BY <1>2, <1>3 DEF Import
  <1>4. ASSUME NEW r \in renames, Announce(r) PROVE Shape'
    BY <1>1, <1>4, AnnounceFits
  <1>5. CASE WebhookGoes
    BY <1>2, <1>5 DEF WebhookGoes
  <1>6. ASSUME NEW th \in threads, LookEvaluates(th) PROVE Shape'
    BY <1>1, <1>6, EvaluationFits
  <1>7. CASE Launch BY <1>1, <1>7, LaunchFits
  <1>8. CASE CancelScan BY <1>1, <1>8, CancelScanFits
  <1>9. CASE StartScan BY <1>1, <1>9, StartScanFits
  <1>10. CASE ListRecords BY <1>1, <1>10, ListFits
  <1>11. CASE EndScan BY <1>1, <1>11, EndScanFits
  <1>12. ASSUME NEW p \in Paths, WalkFile(p) PROVE Shape'
    BY <1>1, <1>12, WalkFits
  <1>13. ASSUME NEW c \in [id : 1 .. used.records, path : Paths], LookAt(c) PROVE Shape'
    BY <1>1, <1>13, LookFits
  <1>14. CASE RemoveRecord BY <1>1, <1>14, RemoveFits
  <1>15. ASSUME NEW p \in Paths, NEW q \in Paths, StartJob(p, q) PROVE Shape'
    BY <1>1, <1>15, StartJobFits
  <1>16. ASSUME NEW p \in Paths, NEW q \in Paths, RenameFile(p, q) PROVE Shape'
    BY <1>1, <1>16, RenameFits
  <1>17. CASE SwapJob BY <1>1, <1>17, SwapFits
  <1>18. CASE FinishJob BY <1>1, <1>18, FinishFits
  <1>19. ASSUME NEW p \in Paths, NEW f \in Files \cup {NoFile}, ReplaceFile(p, f) PROVE Shape'
    BY <1>1, <1>19, ReplaceFits
  <1>20. CASE ShareMoves BY <1>1, <1>20, ShareFits
  <1>21. CASE StopAll BY <1>1, <1>21, StopFits
  <1>22. CASE UNCHANGED vars
    BY <1>2, <1>22 DEF vars
  <1> QED BY <1>3, <1>4, <1>5, <1>6, <1>7, <1>8, <1>9, <1>10, <1>11, <1>12, <1>13, <1>14,
             <1>15,
             <1>16, <1>17, <1>18, <1>19, <1>20, <1>21, <1>22 DEF Next, ScanGoes

-----------------------------------------------------------------------------
(* With no gaps in a cleanup, what it is about to remove is of no file.    *)

\* An evaluation touches the record of a file that is there, or adds one.
LEMMA DoomedEvaluated ==
    ASSUME Shape, DoomedGone, NEW p \in Paths, Evaluated(p),
           UNCHANGED <<disk, mounted, scan>>
    PROVE  DoomedGone'
  <1>1. /\ used.records \in Nat
        /\ \A q \in Paths : \/ record'[q] = record[q]
                           \/ /\ q = p /\ Visible(p)
                              /\ \/ record'[q].id = record[q].id
                                 \/ record'[q].id = used.records + 1
    BY EvaluatedFits DEF Shape, Bounded
  <1>2. ASSUME scan.pc = "cleaning", scan.doomed # 0, NEW q \in Paths, record'[q].id = scan.doomed
        PROVE  disk[q] = NoFile
    <2>1. scan.doomed \in 0 .. used.records
      BY <1>2 DEF Shape, ScanShaped
    <2>2. record'[q].id # used.records + 1
      BY <1>1, <1>2, <2>1
    <2>3. record[q].id = scan.doomed
      BY <1>1, <1>2, <2>2
    <2> QED BY <1>2, <2>3 DEF DoomedGone
  <1> QED BY <1>2 DEF DoomedGone

\* A look dooms a record only if the folder is there and the record's file is not.
LEMMA DoomedLook ==
    ASSUME Shape, DoomedGone, NEW c \in [id : 1 .. used.records, path : Paths], LookAt(c)
    PROVE  DoomedGone'
  <1> DEFINE missing == ~Visible(c.path) /\ \E p \in Refreshed(c) : ~Visible(p)
             listed == IF missing THEN Shown ELSE scan.listed
             doomed == IF missing /\ Shown = "yes" THEN c.id ELSE 0
  <1>1. /\ scan \in [pc : {"cleaning"}, left : SUBSET Candidates,
                   listed : {"no", "yes", "empty"}, doomed : 0 .. used.records]
        /\ UNCHANGED <<disk, mounted, record>>
    BY DEF LookAt, Shape, ScanShaped
  <1>2. scan' = [scan EXCEPT !.left = scan.left \ {c}, !.listed = listed, !.doomed = doomed]
    BY DEF LookAt
  <1>3. Shown = "yes" => mounted
    BY <1>1 DEF Shown, DoomedGone, Visible
  <1>4. listed = "yes" => mounted
    BY <1>1, <1>3 DEF DoomedGone
  <1>5. ASSUME doomed # 0, NEW q \in Paths, record[q].id = doomed PROVE disk[q] = NoFile
    <2>1. missing /\ Shown = "yes" /\ doomed = c.id
      BY <1>5
    <2>2. PICK p \in PathsOf(c.id) : ~Visible(p)
      BY <2>1 DEF Refreshed
    <2>3. p = q
      BY <1>5, <2>1, <2>2, TypeParts DEF PathsOf, Shape, OneRecord
    <2> QED BY <1>3, <2>1, <2>2, <2>3 DEF Visible
  <1> HIDE DEF listed, doomed
  <1>6. scan'.listed = listed /\ scan'.doomed = doomed
    BY <1>1, <1>2
  <1> QED BY <1>1, <1>4, <1>5, <1>6 DEF DoomedGone

\* What the cleanup is about to remove stays the record of no file.
LEMMA DoomedStep == ASSUME ~Gaps, Shape, DoomedGone, [Next]_vars PROVE DoomedGone'
  <1>1. CASE UNCHANGED <<disk, mounted, record, scan>>
    BY <1>1 DEF DoomedGone
  <1>2. CASE ~Looking /\ UNCHANGED <<mounted, scan>>
    BY <1>2 DEF DoomedGone, Looking
  <1>3. CASE scan'.pc # "cleaning"
    BY <1>3 DEF DoomedGone
  <1>4. ASSUME NEW p \in Paths, Import(p) PROVE DoomedGone'
    BY <1>1, <1>4 DEF Import, libraryVars
  <1>5. ASSUME NEW r \in renames, Announce(r) PROVE DoomedGone'
    BY <1>2, <1>5 DEF Announce
  <1>6. CASE WebhookGoes
    BY <1>1, <1>6 DEF WebhookGoes, libraryVars
  <1>7. ASSUME NEW th \in threads, LookEvaluates(th) PROVE DoomedGone'
    <2>1. th.path \in Paths
      BY TypeParts DEF Shape, IntakeTypeOK
    <2> QED BY <1>7, <2>1, DoomedEvaluated DEF LookEvaluates
  <1>8. CASE Launch \/ CancelScan
    <2>1. CASE scan' = scan
      BY <1>1, <1>8, <2>1 DEF Launch, CancelScan
    <2>2. CASE scan' = [pc |-> "starting"]
      BY <1>3, <2>2
    <2> QED BY <1>8, <2>1, <2>2 DEF Launch, CancelScan
  <1>9. CASE StartScan
    BY <1>3, <1>9 DEF StartScan
  <1>10. CASE ListRecords
    BY <1>10 DEF ListRecords, DoomedGone
  <1>11. CASE EndScan
    BY <1>3, <1>11 DEF EndScan, Idle
  <1>12. ASSUME NEW p \in Paths, WalkFile(p) PROVE DoomedGone'
    <2>1. scan'.pc # "cleaning"
      BY <1>12 DEF WalkFile, Idle, Shape, ScanShaped
    <2> QED BY <1>3, <2>1
  <1>13. ASSUME NEW c \in [id : 1 .. used.records, path : Paths], LookAt(c) PROVE DoomedGone'
    BY <1>13, DoomedLook
  <1>14. CASE RemoveRecord
    <2>1. scan'.listed = scan.listed /\ scan'.doomed = 0 /\ mounted' = mounted /\ scan.pc = "cleaning"
      BY <1>14 DEF RemoveRecord, Looking, Shape, ScanShaped
    <2> QED BY <2>1 DEF DoomedGone
  <1>15. ASSUME NEW p \in Paths, NEW q \in Paths, StartJob(p, q) PROVE DoomedGone'
    BY <1>1, <1>15 DEF StartJob
  <1>16. ASSUME NEW p \in Paths, NEW q \in Paths, RenameFile(p, q) PROVE DoomedGone'
    BY <1>2, <1>16 DEF RenameFile, Moved
  <1>17. CASE SwapJob
    BY <1>2, <1>17 DEF SwapJob
  <1>18. CASE FinishJob
    BY <1>2, <1>18 DEF FinishJob
  <1>19. ASSUME NEW p \in Paths, NEW f \in Files \cup {NoFile}, ReplaceFile(p, f) PROVE DoomedGone'
    BY <1>2, <1>19 DEF ReplaceFile, Moved
  <1>20. CASE ShareMoves
    BY <1>3, <1>20 DEF ShareMoves
  <1>21. CASE StopAll
    BY <1>3, <1>21 DEF StopAll, Idle
  <1>22. CASE UNCHANGED vars
    BY <1>1, <1>22 DEF vars, libraryVars
  <1> QED BY <1>4, <1>5, <1>6, <1>7, <1>8, <1>9, <1>10, <1>11, <1>12, <1>13, <1>14, <1>15,
             <1>16, <1>17, <1>18, <1>19, <1>20, <1>21, <1>22 DEF Next, ScanGoes

-----------------------------------------------------------------------------
(* A file that stays keeps its record.                                     *)

\* What HistoryKept says of a step and a path.
Keeps(p) ==
    record[p].id # 0 /\ record[p].file = disk[p] /\ disk'[p] = disk[p]
      => \/ /\ record'[p].id # 0
            /\ record'[p].file = disk[p] \/ \E r \in renames : r[2] = p
         \/ TakenAlong(p)

\* An evaluation rewrites the record of the file it is given, in place.
LEMMA KeepsEvaluated ==
  ASSUME Shape, NEW q \in Paths, Evaluated(q), NEW p \in Paths
  PROVE  Keeps(p)
  <1>1. used.records \in Nat /\ used.records + 1 # 0
    BY DEF Shape, Bounded
  <1>2. \/ record'[p] = record[p]
        \/ /\ record'[p].file = disk[p]
           /\ record'[p].id = record[p].id \/ record'[p].id = used.records + 1
    BY EvaluatedFits
  <1> QED BY <1>1, <1>2 DEF Keeps

\* The record a rename leaves is of a file that was there and is not; that of the
\* new name gives way to the file's own.
LEMMA KeepsMoved ==
  ASSUME Shape, NEW r \in renames, Announce(r), NEW p \in Paths
  PROVE  Keeps(p)
  <1>1. /\ r[1] \in Paths /\ r[2] \in Paths
        /\ MoveRecord(r[1], r[2]) /\ used' = used
    BY DEF Announce, Shape, Bounded
  <1>2. CASE record' = record
    BY <1>2 DEF Keeps
  <1>3. CASE record' # record
    <2>1. /\ ~Visible(r[1]) /\ Visible(r[2]) /\ record[r[1]].id # 0
          /\ record'[p] = IF p = r[1] THEN NoRecord
                          ELSE IF p = r[2] THEN record[r[1]] ELSE record[p]
      BY <1>1, <1>3, MoveFits
    <2>2. CASE p = r[1]
      BY <1>1, <2>1, <2>2 DEF Visible, Keeps, Shape, RecordsReal
    <2>3. CASE p # r[1]
      BY <2>1, <2>3 DEF Keeps
    <2> QED BY <2>2, <2>3
  <1> QED BY <1>2, <1>3

\* The cleanup removes the record of no file.
LEMMA KeepsRemoved ==
  ASSUME Shape, DoomedGone, RemoveRecord, NEW p \in Paths
  PROVE  Keeps(p)
  <1>1. \/ record'[p] = record[p]
        \/ record[p].id = scan.doomed
    BY DEF RemoveRecord
  <1>2. scan.pc = "cleaning" /\ scan.doomed # 0
    BY DEF RemoveRecord, Looking
  <1>3. record[p].id = scan.doomed => disk[p] = NoFile /\ record[p].file # NoFile
    BY <1>2 DEF DoomedGone, Shape, RecordsReal
  <1> QED BY <1>1, <1>3 DEF Keeps

\* The end of a job gives the output its record, and takes it from other paths.
LEMMA KeepsFinished == ASSUME Shape, FinishJob, NEW p \in Paths PROVE Keeps(p)
  <1>1. /\ job.id # 0 /\ job.to \in Paths /\ disk[job.to] = job.file
    BY DEF FinishJob, Shape, JobShaped, OutputWaits, Bounded
  <1>2. \/ record'[p] = record[p]
        \/ p = job.to /\ record'[p] = [id |-> job.id, file |-> job.file]
        \/ p # job.to /\ record[p].id = job.id
    BY DEF FinishJob, PathsOf
  <1> QED BY <1>1, <1>2 DEF Keeps, TakenAlong

\* A file that stays keeps its record in every step.
LEMMA KeepsStep ==
  ASSUME Shape, DoomedGone, [Next]_vars, NEW p \in Paths
  PROVE  Keeps(p)
  <1>1. CASE record' = record
    BY <1>1 DEF Keeps
  <1>2. ASSUME NEW q \in Paths, Import(q) PROVE Keeps(p)
    BY <1>1, <1>2 DEF Import, libraryVars
  <1>3. ASSUME NEW r \in renames, Announce(r) PROVE Keeps(p)
    BY <1>3, KeepsMoved
  <1>4. CASE WebhookGoes
    BY <1>1, <1>4 DEF WebhookGoes, libraryVars
  <1>5. ASSUME NEW th \in threads, LookEvaluates(th) PROVE Keeps(p)
    <2>1. th.path \in Paths
      BY TypeParts DEF Shape, IntakeTypeOK
    <2> QED BY <1>5, <2>1, KeepsEvaluated DEF LookEvaluates
  <1>6. CASE Launch \/ CancelScan \/ StartScan \/ ListRecords \/ EndScan \/ StopAll
    BY <1>1, <1>6 DEF Launch, CancelScan, StartScan, ListRecords, EndScan, StopAll
  <1>7. ASSUME NEW q \in Paths, WalkFile(q) PROVE Keeps(p)
    BY <1>7, KeepsEvaluated DEF WalkFile
  <1>8. ASSUME NEW c \in [id : 1 .. used.records, path : Paths], LookAt(c) PROVE Keeps(p)
    BY <1>1, <1>8 DEF LookAt
  <1>9. CASE RemoveRecord
    BY <1>9, KeepsRemoved
  <1>10. ASSUME NEW a \in Paths, NEW b \in Paths, StartJob(a, b) \/ RenameFile(a, b) PROVE Keeps(p)
    BY <1>1, <1>10 DEF StartJob, RenameFile, Moved
  <1>11. CASE SwapJob \/ ShareMoves
    BY <1>1, <1>11 DEF SwapJob, ShareMoves
  <1>12. CASE FinishJob
    BY <1>12, KeepsFinished
  <1>13. ASSUME NEW a \in Paths, NEW f \in Files \cup {NoFile}, ReplaceFile(a, f) PROVE Keeps(p)
    BY <1>1, <1>13 DEF ReplaceFile, Moved
  <1>14. CASE UNCHANGED vars
    BY <1>1, <1>14 DEF vars, libraryVars
  <1> QED BY <1>2, <1>3, <1>4, <1>5, <1>6, <1>7, <1>8, <1>9, <1>10, <1>11, <1>12, <1>13,
             <1>14
          DEF Next, ScanGoes

-----------------------------------------------------------------------------
(* The theorems.                                                           *)

\* The shape holds throughout: the two threads, the records and a waiting output.
THEOREM ShapeHolds == Spec => []Shape
  BY InitFits, ShapeStep, PTL DEF Spec

\* The types, one record to an id, and the scan flag, which is set exactly while a
\* scan runs, however it was started, cancelled or stopped.
THEOREM LibraryTypeCorrect == Spec => []TypeOK
  <1>1. Shape => TypeOK
    BY DEF Shape
  <1> QED BY <1>1, ShapeHolds, PTL

\* The webhooks do in the library what they do in Intake.
THEOREM WebhooksAsInIntake == Spec => IntakeInit /\ [][IntakeNext]_intakeVars
  <1>1. Init => IntakeInit
    BY DEF Init
  <1>2. Shape /\ [Next]_vars => [IntakeNext]_intakeVars
    BY IntakeSteps DEF Shape
  <1> QED BY <1>1, <1>2, ShapeHolds, PTL DEF Spec

\* So what is proved of Intake holds with the library around it: an accepted event
\* has its row until its file has been looked at, and a path has one live timer.
THEOREM LibraryKeepsEvents == Spec => [](RowBacked /\ OneTimer)
  <1>1. IInv => RowBacked
    BY DEF IInv
  <1>2. TInv => OneTimer
    BY DEF TInv
  <1> QED BY <1>1, <1>2, WebhooksAsInIntake, KnownInit, KnownStep, TimerInit, TimerStep,
             PTL

\* A file that stays where it is keeps its record, whatever scan, cleanup, webhook,
\* job, stop or unmounted share comes by, unless the cleanup has a gap.
THEOREM FileKeepsHistory == ASSUME ~Gaps PROVE Spec => HistoryKept
  <1>1. Shape /\ DoomedGone /\ [Next]_vars => DoomedGone'
    BY DoomedStep
  <1>2. Spec => []DoomedGone
    <2>1. Init => DoomedGone
      BY InitFits
    <2> QED BY <1>1, <2>1, ShapeHolds, PTL DEF Spec
  <1>3. Shape /\ DoomedGone /\ [Next]_vars =>
          [\A p \in Paths :
             record[p].id # 0 /\ record[p].file = disk[p] /\ disk'[p] = disk[p]
               => \/ /\ record'[p].id # 0
                     /\ record'[p].file = disk[p] \/ \E r \in renames : r[2] = p
                  \/ TakenAlong(p)]_vars
    BY KeepsStep DEF Keeps
  <1> QED BY <1>2, <1>3, ShapeHolds, PTL DEF Spec, HistoryKept
=============================================================================
