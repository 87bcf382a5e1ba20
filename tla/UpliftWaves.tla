-------------------------------- MODULE UpliftWaves --------------------------------
(***************************************************************************)
(* Uplift waves under concurrent requests: gard/core/uplift_wave_          *)
(* controller.py on PostgreSQL at READ COMMITTED.                          *)
(*                                                                         *)
(* Every request is one database transaction.  A wave request reads the    *)
(* wave row, lets the state machine decide, issues the guarded UPDATE      *)
(* (which waits for the row lock and then re-reads the row), reads the     *)
(* member devices, writes back the ones it moves with UPDATEs by primary   *)
(* key, and commits.  Between any two of these steps another transaction   *)
(* may commit.  `wave' and `life' are the committed rows; `tx' is what     *)
(* each request has read and not yet committed.  Row locks are not a       *)
(* variable: a transaction holds the rows it has written (won, held).      *)
(*                                                                         *)
(* Two other writers of devices.lifecycle_state share the table: a single  *)
(* device evaluation (F2/F4) and the catalogue reload, which re-verdicts   *)
(* the affected devices and then invalidates the open waves they are in.   *)
(***************************************************************************)
EXTENDS UpliftStateMachine, Naturals, FiniteSets

CONSTANTS
    Waves,      \* uplift_waves rows that may be drafted
    Devices,    \* devices, by primary key: the unit of work flushes in this order
    Drafters,   \* principals holding DRAFT_UPLIFT_WAVE
    Approvers,  \* principals holding APPROVE_UPLIFT_WAVE
    Requests,   \* server workers, one request (and transaction) at a time each
    Reloaders,  \* the workers that may run a catalogue reload
    Scopes,     \* the device sets a scope selector can resolve to
    WaveMax,    \* settings.uplift_wave_max_devices
    None        \* no principal, no wave

ASSUME ConstantsAssumption ==
    /\ Devices \subseteq Nat
    /\ Scopes \subseteq SUBSET Devices
    /\ Reloaders \subseteq Requests
    /\ None \notin Drafters \cup Approvers \cup Waves

VARIABLES
    wave,   \* wave[w]: the committed uplift_waves row and its uplift_wave_devices
    life,   \* life[d]: the committed devices.lifecycle_state
    tx      \* tx[r]: the transaction of request r

vars == <<wave, life, tx>>

Users == Drafters \cup Approvers

\* What F2 and F4 write: blocked stands for every state that the wave controller never
\* tests for (classified, unknown, compliant, outside_target, blocked).
EvalStates == {"ready_for_uplift", "blocked"}
Lifecycle == EvalStates \cup {"approval_pending", "approved"}
Keep == "keep"   \* no pending write of this device

WaveRow == [state: WaveState \cup {"none"}, drafted_by: Users \cup {None},
            approved_by: Users \cup {None}, members: SUBSET Devices]

WaveOps == {"submit", "approve", "reject", "cancel"}
Tx == [pc: {"idle", "verdicts", "pick", "guard", "load", "flush"},
       op: WaveOps \cup {"none", "evaluate", "reload"},
       actor: Users \cup {None},
       wave: Waves \cup {None},                \* the wave row being decided
       from: WaveState \cup {"none"},          \* the state it was read in
       won: SUBSET Waves,                      \* wave rows updated, hence locked
       put: [Devices -> Lifecycle \cup {Keep}],\* device values to write or written
       held: SUBSET Devices,                   \* device rows flushed, hence locked
       aff: SUBSET Devices,                    \* reload: the affected devices
       cands: SUBSET Waves]                    \* reload: waves still to invalidate

Idle == [pc |-> "idle", op |-> "none", actor |-> None, wave |-> None, from |-> "none",
         won |-> {}, put |-> [d \in Devices |-> Keep], held |-> {}, aff |-> {},
         cands |-> {}]

Target(op) ==
    CASE op = "submit"  -> "submitted"
      [] op = "approve" -> "approved"
      [] op = "reject"  -> "rejected"
      [] op = "cancel"  -> "cancelled"
      [] OTHER          -> "invalidated"

Unflushed(r) == {d \in Devices : tx[r].put[d] # Keep} \ tx[r].held

\* A device as the transaction sees it: its own writes over the committed row.
View(r, d) == IF tx[r].put[d] = Keep THEN life[d] ELSE tx[r].put[d]

WaveFree(r, w) == \A q \in Requests \ {r} : w \notin tx[q].won
DeviceFree(r, d) == \A q \in Requests \ {r} : d \notin tx[q].held

-----------------------------------------------------------------------------
Init ==
    /\ wave = [w \in Waves |-> [state |-> "none", drafted_by |-> None,
                                approved_by |-> None, members |-> {}]]
    /\ life \in [Devices -> EvalStates]
    /\ tx = [r \in Requests |-> Idle]

\* draft_wave: the scope's devices whose latest readiness row says ready_for_uplift
\* (any of them, the row is not the lifecycle) become the members of a new draft.
Draft(w, u, S) ==
    /\ wave[w].state = "none"
    /\ S # {} /\ Cardinality(S) <= WaveMax
    /\ wave' = [wave EXCEPT ![w] = [wave[w] EXCEPT !.state = "draft", !.drafted_by = u,
                                                   !.members = S]]
    /\ UNCHANGED <<life, tx>>

\* Who the router lets call each operation.
Permitted(op, w, u) ==
    CASE op = "submit"              -> u \in Drafters
      [] op \in {"approve", "reject"} -> u \in Approvers
      [] op = "cancel"              -> u = wave[w].drafted_by \/ u \in Approvers

\* The actor kind the controller passes to wave_decide.
Kind(op, w, u) ==
    CASE op = "approve" -> "approver"
      [] op = "reject"  -> IF u = wave[w].drafted_by THEN "drafter" ELSE "approver"
      [] OTHER          -> "drafter"

\* session.get(UpliftWave) and wave_decide; any error ends the request unchanged.
Begin(r, op, w, u) ==
    /\ tx[r].pc = "idle"
    /\ wave[w].state # "none"
    /\ Permitted(op, w, u)
    /\ WaveDecide(wave[w].state, Target(op), Kind(op, w, u), u, wave[w].drafted_by) = "ok"
    /\ tx' = [tx EXCEPT ![r] = [Idle EXCEPT !.pc = "guard", !.op = op, !.actor = u,
                                            !.wave = w, !.from = wave[w].state]]
    /\ UNCHANGED <<wave, life>>

\* Mutant: the guarded UPDATE without its WHERE state = :expected.
GuardUnconditional(r) ==
    /\ tx[r].pc = "guard"
    /\ Unflushed(r) = {}
    /\ WaveFree(r, tx[r].wave)
    /\ tx' = [tx EXCEPT ![r] = [@ EXCEPT !.pc = "load", !.won = tx[r].won \cup {tx[r].wave}]]
    /\ UNCHANGED <<wave, life>>

\* _apply_state_guard, the row still in the state that was read: UPDATE ... WHERE
\* state = :expected waits for the row lock and takes it.  The CHECK constraint
\* ck_uplift_waves_sod refuses an approval by the drafter.
Guard(r) ==
    LET w == tx[r].wave IN
    /\ tx[r].pc = "guard"
    /\ Unflushed(r) = {}
    /\ WaveFree(r, w)
    /\ wave[w].state = tx[r].from
    /\ tx[r].op = "approve" => tx[r].actor # wave[w].drafted_by
    /\ tx' = [tx EXCEPT ![r] = [@ EXCEPT !.pc = "load", !.won = tx[r].won \cup {w}]]
    /\ UNCHANGED <<wave, life>>

\* Mutant: the row count of the guarded UPDATE is not looked at.
GuardLostIgnored(r) ==
    /\ tx[r].pc = "guard"
    /\ Unflushed(r) = {}
    /\ WaveFree(r, tx[r].wave)
    /\ wave[tx[r].wave].state # tx[r].from
    /\ tx' = [tx EXCEPT ![r].pc = "load"]
    /\ UNCHANGED <<wave, life>>

\* The guard lost: WaveStateMismatch aborts a request; a reload goes to its next wave.
GuardLost(r) ==
    LET w == tx[r].wave IN
    /\ tx[r].pc = "guard"
    /\ Unflushed(r) = {}
    /\ WaveFree(r, w)
    /\ wave[w].state # tx[r].from
    /\ tx' = [tx EXCEPT ![r] = IF tx[r].op = "reload"
                               THEN [@ EXCEPT !.pc = "pick", !.wave = None,
                                              !.cands = tx[r].cands \ {w}]
                               ELSE Idle]
    /\ UNCHANGED <<wave, life>>

\* Mutant: the member gets the state of the wave.
MovesToWaveState(op) == Target(op)

\* The lifecycle a member must be in for the operation to move it, and where it goes.
MovesFrom(op) == IF op = "submit" THEN "ready_for_uplift" ELSE "approval_pending"
MovesTo(op) ==
    CASE op = "submit"  -> "approval_pending"
      [] op = "approve" -> "approved"
      [] OTHER          -> "ready_for_uplift"

\* Mutant: cancel forgets to release the members of a submitted wave.
MovesNotOnCancel(r) ==
    {d \in wave[tx[r].wave].members :
        tx[r].op # "cancel" /\ View(r, d) = MovesFrom(tx[r].op)}

\* Only a submitted wave has parked its members: cancelling or invalidating a draft
\* reverts nothing.
Moves(r) ==
    {d \in wave[tx[r].wave].members :
        /\ tx[r].op \in {"cancel", "reload"} => tx[r].from = "submitted"
        /\ View(r, d) = MovesFrom(tx[r].op)}

\* load_wave_members: reads the member devices and sets the ones to move in memory.
Load(r) ==
    /\ tx[r].pc = "load"
    /\ LET moved == Moves(r)
           put == [d \in Devices |-> IF d \in moved THEN MovesTo(tx[r].op) ELSE tx[r].put[d]]
       IN tx' = [tx EXCEPT ![r] =
                    IF tx[r].op = "reload"
                    THEN [@ EXCEPT !.pc = "pick", !.put = put, !.cands = tx[r].cands \ {tx[r].wave},
                                   !.wave = None]
                    ELSE [@ EXCEPT !.pc = "flush", !.put = put]]
    /\ UNCHANGED <<wave, life>>

-----------------------------------------------------------------------------
\* A single-device evaluation: F2 or F4 computes a lifecycle for d from rows outside
\* this module and assigns it; an unchanged value emits no UPDATE.
Evaluate(r, d, v) ==
    /\ tx[r].pc = "idle"
    /\ v \in EvalStates /\ v # life[d]
    /\ tx' = [tx EXCEPT ![r] = [Idle EXCEPT !.pc = "flush", !.op = "evaluate",
                                            !.put = [@ EXCEPT ![d] = v]]]
    /\ UNCHANGED <<wave, life>>

\* _reevaluate_compliance_post_reload: the affected devices A get the verdicts v.
Reload(r, A, v) ==
    /\ r \in Reloaders
    /\ tx[r].pc = "idle"
    /\ A # {}
    /\ tx' = [tx EXCEPT ![r] =
                [Idle EXCEPT !.pc = "verdicts", !.op = "reload", !.aff = A,
                             !.put = [d \in Devices |-> IF d \in A /\ v[d] # life[d]
                                                        THEN v[d] ELSE Keep]]]
    /\ UNCHANGED <<wave, life>>

\* invalidate_affected_waves: the open waves that hold an affected device.
Candidates(r) ==
    /\ tx[r].pc = "verdicts"
    /\ Unflushed(r) = {}
    /\ LET open == {w \in Waves : /\ wave[w].state \in {"draft", "submitted"}
                                 /\ wave[w].members \cap tx[r].aff # {}}
       IN tx' = [tx EXCEPT ![r] = [@ EXCEPT !.pc = "pick", !.cands = open]]
    /\ UNCHANGED <<wave, life>>

\* Mutant: a closed candidate is tried again.
PickForever(r, w) ==
    /\ tx[r].pc = "pick"
    /\ w \in tx[r].cands
    /\ wave[w].state \in {"draft", "submitted"}
    /\ tx' = [tx EXCEPT ![r] = [@ EXCEPT !.pc = "guard", !.wave = w, !.from = wave[w].state]]
    /\ UNCHANGED <<wave, life>>

\* session.get of the next candidate; one that is no longer open is passed over.
Pick(r, w) ==
    /\ tx[r].pc = "pick"
    /\ w \in tx[r].cands
    /\ tx' = [tx EXCEPT ![r] = IF wave[w].state \in {"draft", "submitted"}
                               THEN [@ EXCEPT !.pc = "guard", !.wave = w,
                                              !.from = wave[w].state]
                               ELSE [@ EXCEPT !.cands = tx[r].cands \ {w}]]
    /\ UNCHANGED <<wave, life>>

-----------------------------------------------------------------------------
\* Mutant: the members are written in the order they were loaded.
FlushAnyOrder(r, d) == d \in Unflushed(r)

\* The unit of work sorts a flush by primary key; a reload flushes after each device,
\* in the arbitrary order of a Python set.
FlushNext(r, d) ==
    /\ d \in Unflushed(r)
    /\ tx[r].op # "reload" => \A e \in Unflushed(r) : d <= e

\* UPDATE devices SET lifecycle_state = ... WHERE id = d: waits for the row lock.  The
\* value was decided when the row was read; nothing re-checks it here.
Flush(r, d) ==
    /\ FlushNext(r, d)
    /\ DeviceFree(r, d)
    /\ tx' = [tx EXCEPT ![r] = [@ EXCEPT !.held = tx[r].held \cup {d}]]
    /\ UNCHANGED <<wave, life>>

AtEnd(r) ==
    \/ tx[r].pc = "flush"
    \/ tx[r].pc = "pick" /\ tx[r].cands = {}

\* The row the guarded UPDATE leaves behind.
Decided(r, w) ==
    [wave[w] EXCEPT !.state = Target(tx[r].op),
                    !.approved_by = IF tx[r].op = "approve" THEN tx[r].actor
                                      ELSE wave[w].approved_by]

Commit(r) ==
    /\ AtEnd(r)
    /\ Unflushed(r) = {}
    /\ wave' = [w \in Waves |-> IF w \in tx[r].won THEN Decided(r, w) ELSE wave[w]]
    /\ life' = [d \in Devices |-> View(r, d)]
    /\ tx' = [tx EXCEPT ![r] = Idle]

\* What r waits for: the holder of the wave row or of the next device row.
WaitsFor(r, q) ==
    /\ q # r
    /\ \/ /\ tx[r].pc = "guard" /\ Unflushed(r) = {}
          /\ tx[r].wave \in tx[q].won
       \/ \E d \in tx[q].held : FlushNext(r, d)

\* A crash, a dropped connection or an error before COMMIT rolls everything back.
Abort(r) ==
    /\ tx[r].pc # "idle"
    /\ tx' = [tx EXCEPT ![r] = Idle]
    /\ UNCHANGED <<wave, life>>

\* PostgreSQL's deadlock detector picks a victim among transactions that wait in a cycle.
InCycle(r) ==
    \/ \E q \in Requests : WaitsFor(r, q) /\ WaitsFor(q, r)
    \/ \E p, q \in Requests : WaitsFor(r, p) /\ WaitsFor(p, q) /\ WaitsFor(q, r)

DeadlockVictim(r) == InCycle(r) /\ Abort(r)

Step(r) ==
    \/ Guard(r) \/ GuardLost(r) \/ Load(r) \/ Candidates(r)
    \/ \E w \in Waves : Pick(r, w)
    \/ \E d \in Devices : Flush(r, d)
    \/ Commit(r)

Arrive(r) ==
    \/ \E op \in WaveOps, w \in Waves, u \in Users : Begin(r, op, w, u)
    \/ \E d \in Devices, v \in EvalStates : Evaluate(r, d, v)
    \/ \E A \in SUBSET Devices, v \in [Devices -> EvalStates] : Reload(r, A, v)

Next ==
    \/ \E w \in Waves, u \in Drafters, S \in Scopes : Draft(w, u, S)
    \/ \E r \in Requests : Arrive(r) \/ Step(r) \/ Abort(r)

Spec == Init /\ [][Next]_vars

\* The server runs every request it has accepted; a row lock is granted to a waiting
\* transaction that keeps finding it free; the deadlock detector always finds a victim.
Fairness ==
    \A r \in Requests : SF_vars(Step(r)) /\ WF_vars(DeadlockVictim(r))

FairSpec == Spec /\ Fairness

-----------------------------------------------------------------------------
(* Properties *)

\* Every variable has its type.
TypeOK ==
    /\ wave \in [Waves -> WaveRow]
    /\ life \in [Devices -> Lifecycle]
    /\ tx \in [Requests -> Tx]

\* A device parked at approval_pending is in a wave still under review, so that some
\* later decision can release it: submit parks it and submits the wave in one commit, and
\* reject, cancel, approve and invalidate release what they find parked, whatever
\* evaluation or other wave commits between their read and their write.
PendingHasSubmittedWave ==
    \A d \in Devices : life[d] = "approval_pending" =>
        \E w \in Waves : wave[w].state = "submitted" /\ d \in wave[w].members

\* A device is approved only through a wave that was approved, even when the approval
\* raced with a rejection, a cancellation or an invalidation of the same wave.
ApprovedHasApprovedWave ==
    \A d \in Devices : life[d] = "approved" =>
        \E w \in Waves : wave[w].state = "approved" /\ d \in wave[w].members

\* SC-003: an approval by the drafter is refused by the controller before any write;
\* the request never gets as far as the guarded UPDATE.
SelfApprovalStopped ==
    \A r \in Requests : tx[r].op = "approve" =>
        tx[r].actor # wave[tx[r].wave].drafted_by

\* Wave requests and single evaluations never deadlock among themselves: they take the
\* wave row before device rows, and device rows by primary key.  Only a catalogue
\* reload, which takes device rows first, can close a cycle.
LockCycleNeedsReload ==
    \A r \in Requests : InCycle(r) => \E q \in Requests : tx[q].op = "reload"

\* ADR-0016 A, B and D: seen through the committed rows, the concurrent requests make
\* the moves of WaveLifecycle and no other: one legal edge at a time, one winner per
\* decision, terminal states final, approver and drafter different.
Abstract == INSTANCE WaveLifecycle WITH
    state <- [w \in Waves |-> wave[w].state],
    drafter <- [w \in Waves |-> wave[w].drafted_by],
    approver <- [w \in Waves |-> wave[w].approved_by]
ImplementsWaveLifecycle == Abstract!Spec

\* Every request that started its transaction ends: it commits, loses its guard, or is
\* the victim of a deadlock; no reload loops over a wave that closed under it.
RequestEnds == \A r \in Requests : tx[r].pc # "idle" ~> tx[r].pc = "idle"

(* What the documentation says and the code does not do. *)

\* uplift_wave_controller.py, _revert_pending_members_to_ready: devices that F4 already
\* re-verdicted are not touched by a reject or a cancel.
RevertsOnlyParked ==
    [][\A r \in Requests :
        Commit(r) /\ tx[r].op \in {"reject", "cancel"} =>
            \A d \in tx[r].held : life[d] = "approval_pending"]_vars
====================================================================================
