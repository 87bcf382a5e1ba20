----------------------------- MODULE UpliftExceptions -----------------------------
(***************************************************************************)
(* Exceptions for blocked devices under concurrent requests:               *)
(* gard/core/uplift_exception_controller.py, and the part of readiness     *)
(* evaluation (F4, readiness_evaluation_controller.evaluate) that expires  *)
(* them, honours them and writes the verdict they are filed against.       *)
(*                                                                         *)
(* As in UpliftWaves every request is one transaction at READ COMMITTED:   *)
(* `exc', `life' and `verdict' are the committed rows, `tx' is what each   *)
(* request has read and not yet committed, and a transaction locks the     *)
(* rows it has written (won, held).  Time is a clock of whole ticks.  An   *)
(* evaluation is a request of its own, a batch's pass over one device, or  *)
(* a catalogue reload's, in which firmware compliance (F2) comes first.    *)
(***************************************************************************)
EXTENDS UpliftStateMachine, Naturals, FiniteSets

CONSTANTS
    Exceptions, \* uplift_exceptions rows that may be filed
    Devices,
    Blockers,   \* prerequisite rules and synthetic kinds a device can be blocked by
    Findings,   \* the sets of blockers an evaluation can find, {} when there is none
    Filers,     \* principals holding MANAGE_EXCEPTION
    Approvers,  \* principals holding APPROVE_EXCEPTION
    Requests,   \* server workers, one transaction at a time each
    MaxTime,    \* bound of the clock
    MaxLife,    \* settings.exception_max_lifetime_days
    None

ASSUME ConstantsAssumption ==
    /\ MaxTime \in Nat /\ MaxLife \in Nat
    /\ Findings \subseteq SUBSET Blockers
    /\ IsFiniteSet(Exceptions)
    /\ None \notin Filers \cup Approvers \cup Exceptions \cup Devices

VARIABLES
    clock,
    exc,        \* exc[e]: the committed row
    life,       \* life[d]: devices.lifecycle_state
    verdict,    \* verdict[d]: the latest readiness_evaluations row
    tx          \* tx[r]: the transaction of request r

vars == <<clock, exc, life, verdict, tx>>

Users == Filers \cup Approvers
Time == 0..MaxTime
Keys == Devices \X Blockers

\* other stands for every state this controller neither tests for nor writes.
Lifecycle == {"blocked", "exception_approved", "other"}
Keep == "keep"

\* What a readiness row says: blocked with its blockers, ready, or not applicable, for
\* the exception exc or for another reason.
Verdict == [state: {"none", "blocked", "ready_for_uplift", "not_applicable"},
            blockers: SUBSET Blockers, exc: Exceptions \cup {None}]
NoVerdict == [state |-> "none", blockers |-> {}, exc |-> None]
Computed(B) == [NoVerdict EXCEPT !.state = IF B = {} THEN "ready_for_uplift" ELSE "blocked",
                                 !.blockers = B]
NotApplicable(e) == [NoVerdict EXCEPT !.state = "not_applicable", !.exc = e]

Row == [state: ExceptionState \cup {"none"}, key: Keys \cup {None},
        filed_by: Users \cup {None}, approved_by: Users \cup {None}, expires_at: Time]
NoRow == [state |-> "none", key |-> None, filed_by |-> None, approved_by |-> None,
          expires_at |-> 0]

Ops == {"file", "approve", "reject", "withdraw", "evaluate"}
Tx == [pc: {"idle", "insert", "reload", "guard", "device", "sweep", "flush"},
       op: Ops \cup {"none"},
       actor: Users \cup {None},               \* approve: whom to record
       exc: Exceptions \cup {None},            \* the row being decided or inserted
       from: ExceptionState \cup {"none"},     \* the state it was read in
       won: SUBSET Exceptions,                 \* rows updated, hence locked
       dev: Devices \cup {None},
       put: Lifecycle \cup {Keep},             \* the value to write to dev, or written
       held: BOOLEAN,                          \* dev is flushed, hence locked
       new: Row,                               \* file: the row to insert
       at: Time,                               \* evaluate: its `now'
       seen: Lifecycle \cup {Keep},            \* evaluate: dev as the session holds it
       overdue: SUBSET Exceptions,             \* evaluate: rows the sweep selected
       todo: SUBSET Exceptions,                \* ... and has still to expire
       row: Verdict]                           \* evaluate: the row to insert, if any

Idle == [pc |-> "idle", op |-> "none", actor |-> None, exc |-> None, from |-> "none",
         won |-> {}, dev |-> None, put |-> Keep, held |-> FALSE, new |-> NoRow, at |-> 0,
         seen |-> Keep, overdue |-> {}, todo |-> {}, row |-> NoVerdict]

\* The state an operation moves the row to.
Target(op) ==
    CASE op = "approve"  -> "approved"
      [] op = "reject"   -> "rejected"
      [] op = "withdraw" -> "withdrawn"
      [] OTHER           -> "expired"

DeviceOf(e) == exc[e].key[1]

\* The device and the exceptions as the transaction sees them.
View(r) == IF tx[r].put = Keep THEN life[tx[r].dev] ELSE tx[r].put
StateSeen(r, e) == IF e \in tx[r].won THEN Target(tx[r].op) ELSE exc[e].state

Unflushed(r) == tx[r].put # Keep /\ ~ tx[r].held
RowFree(r, e) == \A q \in Requests \ {r} : e \notin tx[q].won
DeviceFree(r, d) == \A q \in Requests \ {r} : tx[q].held => tx[q].dev # d

-----------------------------------------------------------------------------
Init ==
    /\ clock = 0
    /\ exc = [e \in Exceptions |-> NoRow]
    /\ life = [d \in Devices |-> "blocked"]
    /\ verdict \in [Devices -> {Computed(B) : B \in Findings \ {{}}}]
    /\ tx = [r \in Requests |-> Idle]

Tick ==
    /\ clock < MaxTime
    /\ clock' = clock + 1
    /\ UNCHANGED <<exc, life, verdict, tx>>

\* Any other writer of the column (F2, a wave) commits a state of its own.
OtherWriter(d) ==
    /\ life[d] # "other"
    /\ \A q \in Requests : tx[q].held => tx[q].dev # d
    /\ life' = [life EXCEPT ![d] = "other"]
    /\ UNCHANGED <<clock, exc, verdict, tx>>

-----------------------------------------------------------------------------
\* file_exception up to its INSERT: the device is blocked, its latest verdict cites the
\* blocker, no pending or approved exception for the pair is visible, expires_at is in
\* the future and within the maximum lifetime.
File(r, e, u, d, b, t) ==
    /\ tx[r].pc = "idle"
    /\ exc[e].state = "none" /\ \A q \in Requests : tx[q].exc # e
    /\ life[d] = "blocked"
    /\ verdict[d].state = "blocked" /\ b \in verdict[d].blockers
    /\ ~ \E f \in Exceptions : /\ exc[f].state \in {"pending_review", "approved"}
                               /\ exc[f].key = <<d, b>>
    /\ t > clock /\ t <= clock + MaxLife
    /\ tx' = [tx EXCEPT ![r] =
                [Idle EXCEPT !.pc = "insert", !.op = "file", !.exc = e,
                             !.new = [state |-> "pending_review", key |-> <<d, b>>,
                                      filed_by |-> u, approved_by |-> None,
                                      expires_at |-> t]]]
    /\ UNCHANGED <<clock, exc, life, verdict>>

\* Who the router lets call each operation, and the kind the controller passes on.
Permitted(op, e, u) ==
    CASE op \in {"approve", "reject"} -> u \in Approvers
      [] op = "withdraw"              -> u = exc[e].filed_by \/ u \in Filers
Kind(op) == IF op = "withdraw" THEN "filer" ELSE "approver"

\* Mutant: an approval assigns the device before its guarded UPDATE, which flushes it.
BeginDeviceFirst(r, op, e, u) ==
    /\ tx[r].pc = "idle"
    /\ exc[e].state # "none"
    /\ Permitted(op, e, u)
    /\ ExceptionDecide(exc[e].state, Target(op), Kind(op), u, exc[e].filed_by) = "ok"
    /\ op = "approve" => life[DeviceOf(e)] = "blocked"
    /\ tx' = [tx EXCEPT ![r] = [Idle EXCEPT !.pc = "guard", !.op = op, !.exc = e,
                                            !.actor = IF op = "approve" THEN u ELSE None,
                                            !.from = exc[e].state, !.dev = DeviceOf(e),
                                            !.put = IF op = "approve"
                                                    THEN "exception_approved" ELSE Keep]]
    /\ UNCHANGED <<clock, exc, life, verdict>>

\* session.get(UpliftException), exception_decide and, to approve, the device must be
\* blocked when it is read.
Begin(r, op, e, u) ==
    /\ tx[r].pc = "idle"
    /\ exc[e].state # "none"
    /\ Permitted(op, e, u)
    /\ ExceptionDecide(exc[e].state, Target(op), Kind(op), u, exc[e].filed_by) = "ok"
    /\ op = "approve" => life[DeviceOf(e)] = "blocked"
    /\ tx' = [tx EXCEPT ![r] = [Idle EXCEPT !.pc = "guard", !.op = op, !.exc = e,
                                            !.actor = IF op = "approve" THEN u ELSE None,
                                            !.from = exc[e].state, !.dev = DeviceOf(e)]]
    /\ UNCHANGED <<clock, exc, life, verdict>>

\* uq_uplift_exceptions_one_active_per_blocker makes an approval wait for a transaction
\* that is changing the pair's entry in the index, and fail on a committed one.
IndexBusy(q, e) ==
    \E f \in tx[q].won : /\ exc[f].key = exc[e].key
                         /\ tx[q].op = "approve" \/ exc[f].state = "approved"
IndexSettled(r, e) == \A q \in Requests \ {r} : ~ IndexBusy(q, e)
Duplicate(e) == \E f \in Exceptions : exc[f].state = "approved" /\ exc[f].key = exc[e].key

\* _apply_state_guard, the row still in the state that was read.  An approval sets the
\* device at once (approve_exception does not read it again); a withdrawal of an
\* approved exception and an expiry go on to read the device.
Guard(r) ==
    LET e == tx[r].exc IN
    /\ tx[r].pc = "guard"
    /\ ~ Unflushed(r)
    /\ RowFree(r, e)
    /\ exc[e].state = tx[r].from
    /\ tx[r].op = "approve" =>
          /\ IndexSettled(r, e) /\ ~ Duplicate(e)
          /\ tx[r].actor # exc[e].filed_by
    /\ tx' = [tx EXCEPT ![r] =
                [@ EXCEPT !.pc = IF tx[r].from = "approved" THEN "device" ELSE "flush",
                          !.won = tx[r].won \cup {e},
                          !.put = IF tx[r].op = "approve" THEN "exception_approved"
                                  ELSE tx[r].put]]
    /\ UNCHANGED <<clock, exc, life, verdict>>

\* The row moved, or the index refuses the approval: the request fails; a sweep goes on.
GuardLost(r) ==
    LET e == tx[r].exc IN
    /\ tx[r].pc = "guard"
    /\ ~ Unflushed(r)
    /\ RowFree(r, e)
    /\ \/ exc[e].state # tx[r].from
       \/ tx[r].op = "approve" /\ IndexSettled(r, e) /\ Duplicate(e)
    /\ tx' = [tx EXCEPT ![r] = IF tx[r].op = "evaluate"
                               THEN [@ EXCEPT !.pc = "sweep", !.exc = None]
                               ELSE Idle]
    /\ UNCHANGED <<clock, exc, life, verdict>>

\* Mutant: the device gets the state of the exception.
ReleasedToState(r) == Target(tx[r].op)

\* Where a device goes when its exception ends.
Released(r) == "blocked"

\* Mutant: a withdrawal leaves the device as it is.
ReadDeviceOnExpiryOnly(r) ==
    LET released == View(r) = "exception_approved" IN
    /\ tx[r].pc = "device"
    /\ tx' = [tx EXCEPT ![r] =
                IF tx[r].op = "evaluate"
                THEN [@ EXCEPT !.pc = "sweep", !.exc = None,
                               !.seen = IF released THEN Released(r) ELSE View(r),
                               !.put = IF released THEN Released(r) ELSE tx[r].put]
                ELSE [@ EXCEPT !.pc = "flush"]]
    /\ UNCHANGED <<clock, exc, life, verdict>>

\* The session forgot the device after the guarded UPDATE and reads it again; only one
\* that is still exception_approved goes back to blocked.
ReadDevice(r) ==
    LET released == View(r) = "exception_approved" IN
    /\ tx[r].pc = "device"
    /\ tx' = [tx EXCEPT ![r] =
                IF tx[r].op = "evaluate"
                THEN [@ EXCEPT !.pc = "sweep", !.exc = None,
                               !.seen = IF released THEN Released(r) ELSE View(r),
                               !.put = IF released THEN Released(r) ELSE tx[r].put]
                ELSE [@ EXCEPT !.pc = "flush",
                               !.put = IF released THEN Released(r) ELSE tx[r].put]]
    /\ UNCHANGED <<clock, exc, life, verdict>>

-----------------------------------------------------------------------------
\* A reload's pass over a device: F2 comes first and never finds it blocked nor excused,
\* so that it assigns those a state of its own, and flushes it, in the transaction that
\* goes on to expire the exceptions.
Reload(r, d, put) ==
    /\ tx[r].pc = "idle"
    /\ put \in {"other"} \cup (IF life[d] = "other" THEN {Keep} ELSE {})
    /\ tx' = [tx EXCEPT ![r] = [Idle EXCEPT !.pc = "reload", !.op = "evaluate", !.dev = d,
                                            !.put = put, !.seen = "other"]]
    /\ UNCHANGED <<clock, exc, life, verdict>>

\* Mutant: the sweep also takes the exceptions that expire at this very instant.
OverdueAtBoundary(d) == {e \in Exceptions : /\ exc[e].state = "approved" /\ DeviceOf(e) = d
                                            /\ exc[e].expires_at <= clock}

\* What expire_overdue_exceptions selects: approved and past its expires_at.
Overdue(d) == {e \in Exceptions : /\ exc[e].state = "approved" /\ DeviceOf(e) = d
                                  /\ exc[e].expires_at < clock}

\* F4 evaluate, of a new request or after F2 in a reload, takes its `now' first; the
\* sweep takes another, at most a tick later, and selects what is overdue by then.
Evaluate(r, d, t) ==
    LET start == IF tx[r].pc = "reload" THEN tx[r]
                 ELSE [Idle EXCEPT !.op = "evaluate", !.dev = d, !.seen = life[d]] IN
    /\ \/ tx[r].pc = "idle"
       \/ tx[r].pc = "reload" /\ tx[r].dev = d /\ ~ Unflushed(r)
    /\ t <= clock /\ clock <= t + 1
    /\ tx' = [tx EXCEPT ![r] = [start EXCEPT !.pc = "sweep", !.at = t,
                                             !.overdue = Overdue(d), !.todo = Overdue(d)]]
    /\ UNCHANGED <<clock, exc, life, verdict>>

\* Mutant: only one of the overdue exceptions is expired.
ExpireFirstOnly(r, e) ==
    /\ tx[r].pc = "sweep"
    /\ e \in tx[r].todo
    /\ tx' = [tx EXCEPT ![r] = [@ EXCEPT !.pc = "guard", !.exc = e, !.from = "approved",
                                         !.todo = {}]]
    /\ UNCHANGED <<clock, exc, life, verdict>>

\* The sweep takes the rows it selected one by one, in no particular order.
ExpireNext(r, e) ==
    /\ tx[r].pc = "sweep"
    /\ e \in tx[r].todo
    /\ tx' = [tx EXCEPT ![r] = [@ EXCEPT !.pc = "guard", !.exc = e, !.from = "approved",
                                         !.todo = tx[r].todo \ {e}]]
    /\ UNCHANGED <<clock, exc, life, verdict>>

\* find_active_approved_exception, at the evaluation's own `now'.
Active(r) == {e \in Exceptions : /\ StateSeen(r, e) = "approved" /\ DeviceOf(e) = tx[r].dev
                                 /\ exc[e].expires_at > tx[r].at}

\* The readiness row to persist, none when the verdict is the latest one already.
Changed(r, v) == IF v = verdict[tx[r].dev] THEN NoVerdict ELSE v

\* The lifecycle that goes with a new verdict is assigned; the value the session holds
\* already emits no UPDATE (other stands for several values, and may differ from itself).
Assign(r, v) ==
    LET new == IF v.state = "blocked" THEN "blocked" ELSE "other" IN
    CASE tx[r].seen # new                    -> {new}
      [] tx[r].seen = new /\ new = "blocked" -> {tx[r].put}
      [] tx[r].seen = new /\ new = "other"   -> {tx[r].put, new}

\* An evaluation is through, with the row to insert and the value for the device.
Finish(r, row, put) ==
    tx' = [tx EXCEPT ![r] = [@ EXCEPT !.pc = "flush", !.row = row, !.put = put, !.at = 0,
                                      !.seen = Keep]]

\* The F3 row is read here, and is too old: a batch and a reload pass over the device and
\* keep what the sweep wrote (a request for this device alone aborts).
PassOver(r) ==
    /\ tx[r].pc = "sweep" /\ tx[r].todo = {}
    /\ ~ Unflushed(r)
    /\ Finish(r, NoVerdict, tx[r].put)
    /\ UNCHANGED <<clock, exc, life, verdict>>

\* The rest of evaluate.  No F3 row or any state but outside_target gives not_applicable;
\* outside_target gives the carve-out while an exception is active, else the computed
\* verdict and, when it is new, the lifecycle that goes with it.
Decide(r, outside, B) ==
    LET carved == outside /\ Active(r) # {}
        v == Changed(r, Computed(B))
    IN
    /\ tx[r].pc = "sweep" /\ tx[r].todo = {}
    /\ ~ Unflushed(r)
    /\ \/ ~ outside /\ Finish(r, Changed(r, NotApplicable(None)), tx[r].put)
       \/ /\ carved
          /\ \E e \in Active(r) : Finish(r, Changed(r, NotApplicable(e)), tx[r].put)
       \/ /\ outside /\ ~ carved
          /\ \E put \in IF v = NoVerdict THEN {tx[r].put} ELSE Assign(r, v) : Finish(r, v, put)
    /\ UNCHANGED <<clock, exc, life, verdict>>

-----------------------------------------------------------------------------
\* UPDATE devices, by the autoflush before a later query or by the commit.
Flush(r) ==
    /\ Unflushed(r)
    /\ DeviceFree(r, tx[r].dev)
    /\ tx' = [tx EXCEPT ![r] = [@ EXCEPT !.held = TRUE]]
    /\ UNCHANGED <<clock, exc, life, verdict>>

Decided(r, e) ==
    [exc[e] EXCEPT !.state = Target(tx[r].op),
                   !.approved_by = IF tx[r].op = "approve" THEN tx[r].actor
                                   ELSE exc[e].approved_by]

Commit(r) ==
    /\ tx[r].pc \in {"insert", "flush"}
    /\ ~ Unflushed(r)
    /\ exc' = [e \in Exceptions |->
                 CASE e \in tx[r].won -> Decided(r, e)
                   [] tx[r].op = "file" /\ e = tx[r].exc -> tx[r].new
                   [] OTHER -> exc[e]]
    /\ life' = [d \in Devices |-> IF d = tx[r].dev THEN View(r) ELSE life[d]]
    /\ verdict' = [d \in Devices |-> IF d = tx[r].dev /\ tx[r].row # NoVerdict
                                     THEN tx[r].row ELSE verdict[d]]
    /\ tx' = [tx EXCEPT ![r] = Idle]
    /\ UNCHANGED clock

\* A crash, an error (ReadinessInputStale among them) or a deadlock rolls everything back.
Abort(r) ==
    /\ tx[r].pc # "idle"
    /\ tx' = [tx EXCEPT ![r] = Idle]
    /\ UNCHANGED <<clock, exc, life, verdict>>

WaitsFor(r, q) ==
    /\ q # r
    /\ \/ /\ tx[r].pc = "guard" /\ ~ Unflushed(r)
          /\ \/ tx[r].exc \in tx[q].won
             \/ tx[r].op = "approve" /\ IndexBusy(q, tx[r].exc)
       \/ Unflushed(r) /\ tx[q].held /\ tx[q].dev = tx[r].dev

Step(r) ==
    \/ Guard(r) \/ GuardLost(r) \/ ReadDevice(r)
    \/ \E e \in Exceptions : ExpireNext(r, e)
    \/ PassOver(r)
    \/ Decide(r, FALSE, {}) \/ \E B \in Findings : Decide(r, TRUE, B)
    \/ Flush(r) \/ Commit(r)

Arrive(r) ==
    \/ \E e \in Exceptions, u \in Filers, d \in Devices, b \in Blockers, t \in Time :
          File(r, e, u, d, b, t)
    \/ \E op \in {"approve", "reject", "withdraw"}, e \in Exceptions, u \in Users :
          Begin(r, op, e, u)
    \/ \E d \in Devices, put \in {Keep, "other"} : Reload(r, d, put)
    \/ \E d \in Devices, t \in Time : Evaluate(r, d, t)

Next ==
    \/ Tick
    \/ \E d \in Devices : OtherWriter(d)
    \/ \E r \in Requests : Arrive(r) \/ Step(r) \/ Abort(r)

Spec == Init /\ [][Next]_vars

-----------------------------------------------------------------------------
(* Properties *)

\* Every variable has its type.
TypeOK ==
    /\ clock \in Time
    /\ exc \in [Exceptions -> Row]
    /\ life \in [Devices -> Lifecycle]
    /\ verdict \in [Devices -> Verdict]
    /\ tx \in [Requests -> Tx]

\* ADR-0016 C and D: seen through the committed rows, the concurrent requests make the
\* moves of ExceptionLifecycle and no other: in particular two approvals of the same
\* device and blocker never both commit, and nothing expires before its time.
Abstract == INSTANCE ExceptionLifecycle WITH
    Times <- Time,
    state <- [e \in Exceptions |-> exc[e].state],
    key <- [e \in Exceptions |-> exc[e].key],
    filer <- [e \in Exceptions |-> exc[e].filed_by],
    approver <- [e \in Exceptions |-> exc[e].approved_by],
    deadline <- [e \in Exceptions |-> exc[e].expires_at]
ImplementsExceptionLifecycle == Abstract!Spec

\* A device is exception_approved only while one of its exceptions is approved: whoever
\* closes the last one, by withdrawal or by expiry, and whatever approval or evaluation
\* races with it, leaves the device in another state.
ExceptionApprovedHasException ==
    \A d \in Devices : life[d] = "exception_approved" =>
        \E e \in Exceptions : exc[e].state = "approved" /\ DeviceOf(e) = d

\* FR-012: an evaluation that commits leaves none of the exceptions that were overdue
\* when it started approved, whether it expired them or lost them to a withdrawal.
EvaluationExpiresOverdue ==
    [][\A r \in Requests : Commit(r) =>
          \A e \in tx[r].overdue : exc'[e].state # "approved"]_vars

\* Two requests block each other only when one of them is an evaluation that holds a row
\* while it waits for an exception: on its own, of two overdue exceptions of the device,
\* the first of which may have made it write the device; in a reload whose F2 wrote the
\* device, of one.  Approvals and withdrawals take the exception first and the device
\* last.
LockCycleNeedsSweep ==
    \A p, q \in Requests : WaitsFor(p, q) /\ WaitsFor(q, p) =>
        \E r \in {p, q} : /\ tx[r].op = "evaluate" /\ tx[r].pc = "guard"
                          /\ Cardinality(tx[r].overdue) > 1 \/ tx[r].put = "other"

(* What the documentation says and the code does not do. *)

\* User Story 3, scenario 4: a pair of device and blocker that has an active exception,
\* pending or approved, gets no second one.
OneActivePerBlocker ==
    \A e, f \in Exceptions :
        /\ {exc[e].state, exc[f].state} \subseteq {"pending_review", "approved"}
        /\ exc[e].key = exc[f].key
        => e = f
===================================================================================
