--------------------------- MODULE UpliftExceptions_proofs ---------------------------
(***************************************************************************)
(* Proofs about UpliftExceptions, for every set of exceptions, devices,    *)
(* blockers, principals and requests and every bound of the clock.  A      *)
(* request that won the guarded UPDATE of an exception is the only one     *)
(* that can change its state until it commits; what protects the device,   *)
(* which no guard protects, is that whoever closes an exception reads the  *)
(* device after it won.                                                    *)
(***************************************************************************)
EXTENDS UpliftExceptions, FiniteSetTheorems, TLAPS

(***************************************************************************)
(* The inductive invariant.                                                *)
(***************************************************************************)

DecideOps == {"approve", "reject", "withdraw"}

\* Where an exception can be once it was approved.
AfterApproval == {"approved", "expired", "withdrawn"}

\* Two transactions never hold the same exception row, nor insert the same one.
RowsExclusive ==
    \A q, r \in Requests : q # r =>
        /\ tx[q].won \cap tx[r].won = {}
        /\ tx[q].op = "file" /\ tx[r].op = "file" => tx[q].exc # tx[r].exc

\* A filed exception names a device and a blocker; one not filed yet has no approver.
RowsKeyed == \A e \in Exceptions :
    /\ exc[e].state # "none" => exc[e].key \in Keys
    /\ exc[e].state = "none" => exc[e].approved_by = None

Common(r) ==
    /\ tx[r].pc = "idle" => tx[r] = Idle
    /\ tx[r].op = "none" => tx[r].pc = "idle"
    /\ tx[r].held => tx[r].put # Keep
    /\ tx[r].put = "exception_approved" => tx[r].op = "approve"

\* A filing: the row it is going to insert is not there yet.
FileInv(r) == tx[r].op = "file" =>
    /\ tx[r].pc = "insert" /\ tx[r].won = {} /\ tx[r].overdue = {}
    /\ tx[r].put = Keep /\ tx[r].dev = None
    /\ tx[r].exc \in Exceptions /\ exc[tx[r].exc].state = "none"
    /\ tx[r].new.state = "pending_review" /\ tx[r].new.key \in Keys
    /\ tx[r].new.filed_by \in Users /\ tx[r].new.approved_by = None

\* An approval, rejection or withdrawal: the decision was legal in the state it read, and
\* still is when it holds the row.
DecideInv(r) == tx[r].op \in DecideOps =>
    /\ tx[r].pc \in {"guard", "device", "flush"} /\ tx[r].overdue = {}
    /\ tx[r].exc \in Exceptions /\ exc[tx[r].exc].state # "none"
    /\ tx[r].dev = DeviceOf(tx[r].exc)
    /\ <<tx[r].from, Target(tx[r].op)>> \in ExceptionEdges
    /\ tx[r].pc = "guard" => tx[r].won = {} /\ tx[r].put = Keep
    /\ tx[r].pc # "guard" => tx[r].won = {tx[r].exc} /\ exc[tx[r].exc].state = tx[r].from
    /\ tx[r].op = "approve" =>
          /\ tx[r].actor \in Users
          /\ tx[r].pc # "guard" => /\ tx[r].pc = "flush" /\ tx[r].put = "exception_approved"
                                   /\ tx[r].actor # exc[tx[r].exc].filed_by

\* An evaluation: every exception it found overdue is closed by now, or held by this
\* evaluation, or still to be tried.
SweepInv(r) == tx[r].op = "evaluate" =>
    /\ tx[r].pc \in {"reload", "sweep", "guard", "device", "flush"} /\ tx[r].dev \in Devices
    /\ tx[r].won \subseteq tx[r].overdue /\ tx[r].todo \subseteq tx[r].overdue
    /\ \A e \in tx[r].overdue :
          /\ exc[e].state \in AfterApproval
          /\ DeviceOf(e) = tx[r].dev
          /\ exc[e].expires_at < clock
          /\ \/ e \in tx[r].won \/ e \in tx[r].todo
             \/ tx[r].pc = "guard" /\ e = tx[r].exc
             \/ exc[e].state # "approved"
    /\ \A e \in tx[r].won : exc[e].state = "approved" /\ e \notin tx[r].todo
    /\ tx[r].pc \in {"guard", "device"} =>
          tx[r].exc \in tx[r].overdue /\ tx[r].exc \notin tx[r].todo /\ tx[r].from = "approved"
    /\ tx[r].pc = "guard" => tx[r].exc \notin tx[r].won
    /\ tx[r].pc = "device" => tx[r].exc \in tx[r].won
    /\ tx[r].pc = "reload" => tx[r].overdue = {}
    /\ tx[r].pc \in {"reload", "sweep"} => tx[r].exc = None
    /\ tx[r].pc = "flush" => tx[r].todo = {} /\ tx[r].exc = None
    /\ tx[r].put = "blocked" => tx[r].won # {} \/ tx[r].pc = "flush"

ReqInv(r) == Common(r) /\ FileInv(r) /\ DecideInv(r) /\ SweepInv(r)

\* An approval that holds its row is the only one of its device and blocker.
Approving(r) == tx[r].op = "approve" /\ tx[r].pc = "flush"
ApprovalsApart ==
    \A r \in Requests : Approving(r) =>
        /\ \A f \in Exceptions : exc[f].state = "approved" => exc[f].key # exc[tx[r].exc].key
        /\ \A q \in Requests \ {r} : Approving(q) => exc[tx[q].exc].key # exc[tx[r].exc].key

\* An excused device has an approved exception whose holder, if it has one, has either
\* not read the device yet or is about to write it.
Honoured(e, d) ==
    /\ exc[e].state = "approved" /\ DeviceOf(e) = d
    /\ \A r \in Requests : e \in tx[r].won => tx[r].pc = "device" \/ tx[r].put # Keep
Excused ==
    \A d \in Devices : life[d] = "exception_approved" => \E e \in Exceptions : Honoured(e, d)

IInv ==
    /\ TypeOK
    /\ RowsExclusive
    /\ RowsKeyed
    /\ \A r \in Requests : ReqInv(r)
    /\ ApprovalsApart
    /\ Excused

-----------------------------------------------------------------------------
(***************************************************************************)
(* Type correctness.                                                       *)
(***************************************************************************)

\* The kinds of value a transaction holds before it starts are those of its type.
LEMMA IdleType == Idle \in Tx /\ NoRow \in Row /\ NoVerdict \in Verdict
BY ConstantsAssumption DEF Idle, Tx, NoRow, Row, NoVerdict, Verdict, Time, Keep

\* The verdicts an evaluation can compute have their type.
LEMMA VerdictType ==
    /\ \A B \in SUBSET Blockers : Computed(B) \in Verdict
    /\ \A e \in Exceptions \cup {None} : NotApplicable(e) \in Verdict
<1>1. ASSUME NEW B \in SUBSET Blockers PROVE Computed(B) \in Verdict
  BY DEF Computed, NoVerdict, Verdict
<1>2. ASSUME NEW e \in Exceptions \cup {None} PROVE NotApplicable(e) \in Verdict
  BY <1>2 DEF NotApplicable, NoVerdict, Verdict
<1> QED
  BY <1>1, <1>2

\* An evaluation's first step: F2 in a reload, which holds no exception and has found none.
LEMMA ReloadSteps ==
    ASSUME TypeOK, NEW r \in Requests, NEW d \in Devices, NEW put \in {Keep, "other"},
           Reload(r, d, put)
    PROVE  \E x \in Tx :
              /\ tx' = [tx EXCEPT ![r] = x] /\ UNCHANGED <<clock, exc, life, verdict>>
              /\ x.pc = "reload" /\ x.op = "evaluate" /\ x.exc = None /\ x.dev = d
              /\ x.won = {} /\ x.overdue = {} /\ x.todo = {} /\ x.put = put /\ ~ x.held
<1> DEFINE x == [Idle EXCEPT !.pc = "reload", !.op = "evaluate", !.dev = d, !.put = put,
                             !.seen = "other"]
<1>1. put \in Lifecycle \cup {Keep} /\ "other" \in Lifecycle
  BY DEF Lifecycle
<1>2. x \in Tx
  BY <1>1, IdleType DEF Tx, Ops
<1>3. /\ x.pc = "reload" /\ x.op = "evaluate" /\ x.exc = None /\ x.dev = d
      /\ x.won = {} /\ x.overdue = {} /\ x.todo = {} /\ x.put = put /\ ~ x.held
  BY DEF Idle
<1>4. tx' = [tx EXCEPT ![r] = x] /\ UNCHANGED <<clock, exc, life, verdict>>
  BY DEF Reload
<1> HIDE DEF x
<1> QED
  BY <1>2, <1>3, <1>4

\* The sweep begins with nothing closed and everything overdue to try, in a request that
\* has written nothing but what F2 wrote.
LEMMA EvaluateSteps ==
    ASSUME TypeOK, NEW r \in Requests, ReqInv(r), NEW d \in Devices, NEW t \in Time,
           Evaluate(r, d, t)
    PROVE  \E x \in Tx :
              /\ tx' = [tx EXCEPT ![r] = x] /\ UNCHANGED <<clock, exc, life, verdict>>
              /\ x.pc = "sweep" /\ x.op = "evaluate" /\ x.exc = None /\ x.dev = d
              /\ x.won = {} /\ x.overdue = Overdue(d) /\ x.todo = Overdue(d)
              /\ x.put \in {Keep, "other"} /\ (x.held => x.put # Keep)
<1> DEFINE start == IF tx[r].pc = "reload" THEN tx[r]
                    ELSE [Idle EXCEPT !.op = "evaluate", !.dev = d, !.seen = life[d]]
           x == [start EXCEPT !.pc = "sweep", !.at = t, !.overdue = Overdue(d),
                              !.todo = Overdue(d)]
<1>1. Overdue(d) \in SUBSET Exceptions /\ life[d] \in Lifecycle /\ tx[r] \in Tx
  BY DEF Overdue, TypeOK
<1>2. /\ start \in Tx /\ start.op = "evaluate" /\ start.exc = None /\ start.dev = d
      /\ start.won = {} /\ start.put \in {Keep, "other"} /\ (start.held => start.put # Keep)
  <2>1. CASE tx[r].pc = "reload"
    <3>1. tx[r].op = "evaluate"
      BY <1>1, <2>1 DEF ReqInv, Common, FileInv, DecideInv, Tx, Ops, DecideOps, Idle
    <3>2. tx[r].dev = d
      BY <2>1 DEF Evaluate
    <3>3. /\ tx[r].exc = None /\ tx[r].won = {} /\ tx[r].put # "blocked"
          /\ tx[r].put # "exception_approved" /\ (tx[r].held => tx[r].put # Keep)
      BY <2>1, <3>1 DEF ReqInv, Common, SweepInv
    <3>4. tx[r].put \in {Keep, "other"}
      BY <1>1, <3>3 DEF Tx, Lifecycle
    <3> QED
      BY <1>1, <2>1, <3>1, <3>2, <3>3, <3>4
  <2>2. CASE tx[r].pc # "reload"
    <3> DEFINE y == [Idle EXCEPT !.op = "evaluate", !.dev = d, !.seen = life[d]]
    <3>1. y \in Tx
      BY <1>1, IdleType DEF Tx, Ops
    <3>2. /\ y.op = "evaluate" /\ y.exc = None /\ y.dev = d /\ y.won = {} /\ y.put = Keep
          /\ ~ y.held
      BY DEF Idle
    <3> HIDE DEF y
    <3>3. start = y
      BY <2>2 DEF y
    <3> QED
      BY <3>1, <3>2, <3>3
  <2> QED
    BY <2>1, <2>2
<1>3. tx' = [tx EXCEPT ![r] = x] /\ UNCHANGED <<clock, exc, life, verdict>>
  BY DEF Evaluate
<1> HIDE DEF start
<1>4. x \in Tx
  <2>1. start \in Tx /\ Overdue(d) \in SUBSET Exceptions /\ t \in Time
    BY <1>1, <1>2
  <2> QED
    BY <2>1 DEF Tx
<1>5. /\ x.pc = "sweep" /\ x.op = "evaluate" /\ x.exc = None /\ x.dev = d
      /\ x.won = {} /\ x.overdue = Overdue(d) /\ x.todo = Overdue(d)
      /\ x.put \in {Keep, "other"} /\ (x.held => x.put # Keep)
  BY <1>2 DEF Tx
<1> HIDE DEF x
<1> QED
  BY <1>3, <1>4, <1>5

\* The last step of an evaluation: PassOver, or Decide with what it found.
Finishes(r) == PassOver(r) \/ Decide(r, FALSE, {}) \/ \E B \in Findings : Decide(r, TRUE, B)

\* It inserts a row or none, and writes the device or leaves it as it was to be written.
LEMMA FinishSteps ==
    ASSUME TypeOK, NEW r \in Requests, Finishes(r)
    PROVE  /\ tx[r].pc = "sweep" /\ tx[r].todo = {}
           /\ UNCHANGED <<clock, exc, life, verdict>>
           /\ \E x \in Tx :
                 /\ tx' = [tx EXCEPT ![r] = x]
                 /\ x.pc = "flush" /\ x.put \in {tx[r].put, "blocked", "other"}
                 /\ x.op = tx[r].op /\ x.won = tx[r].won /\ x.exc = tx[r].exc
                 /\ x.from = tx[r].from /\ x.dev = tx[r].dev /\ x.held = tx[r].held
                 /\ x.overdue = tx[r].overdue /\ x.todo = tx[r].todo
<1>0. tx[r] \in Tx /\ tx[r].put \in Lifecycle \cup {Keep}
  BY DEF TypeOK, Tx
<1>1. \A v \in Verdict : Changed(r, v) \in Verdict
  BY IdleType DEF Changed
<1>2. ASSUME NEW outside \in BOOLEAN, NEW B \in SUBSET Blockers, Decide(r, outside, B)
      PROVE  \E row \in Verdict, put \in {tx[r].put, "blocked", "other"} : Finish(r, row, put)
  <2>1. Changed(r, Computed(B)) \in Verdict /\ Changed(r, NotApplicable(None)) \in Verdict
        /\ \A e \in Active(r) : Changed(r, NotApplicable(e)) \in Verdict
    BY <1>1, VerdictType DEF Active
  <2>2. Assign(r, Changed(r, Computed(B))) \subseteq {tx[r].put, "blocked", "other"}
    BY DEF Assign
  <2> QED
    BY <1>2, <2>1, <2>2 DEF Decide
<1>3. \E row \in Verdict, put \in {tx[r].put, "blocked", "other"} : Finish(r, row, put)
  <2>1. CASE PassOver(r)
    BY <2>1, IdleType DEF PassOver
  <2>2. CASE Decide(r, FALSE, {})
    BY <1>2, <2>2
  <2>3. CASE \E B \in Findings : Decide(r, TRUE, B)
    BY <1>2, <2>3, ConstantsAssumption
  <2> QED
    BY <2>1, <2>2, <2>3 DEF Finishes
<1>4. PICK row \in Verdict, put \in {tx[r].put, "blocked", "other"} : Finish(r, row, put)
  BY <1>3
<1> DEFINE x == [tx[r] EXCEPT !.pc = "flush", !.row = row, !.put = put, !.at = 0,
                              !.seen = Keep]
<1>5. tx' = [tx EXCEPT ![r] = x]
  BY <1>4 DEF Finish
<1>6. /\ UNCHANGED <<clock, exc, life, verdict>>
      /\ tx[r].pc = "sweep" /\ tx[r].todo = {}
  BY DEF Finishes, PassOver, Decide
<1>7. 0 \in Time /\ put \in Lifecycle \cup {Keep} /\ Keep \in Lifecycle \cup {Keep}
  BY <1>0, ConstantsAssumption DEF Time, Lifecycle
<1>8. x \in Tx
  BY <1>0, <1>7 DEF Tx
<1>9. /\ x.pc = "flush" /\ x.put = put
      /\ x.op = tx[r].op /\ x.won = tx[r].won /\ x.exc = tx[r].exc
      /\ x.from = tx[r].from /\ x.dev = tx[r].dev /\ x.held = tx[r].held
      /\ x.overdue = tx[r].overdue /\ x.todo = tx[r].todo
  BY <1>0 DEF Tx
<1> HIDE DEF x
<1> QED
  BY <1>5, <1>6, <1>8, <1>9

\* The initial state has its types.
LEMMA InitType == Init => TypeOK
<1> SUFFICES ASSUME Init PROVE TypeOK
  OBVIOUS
<1>1. clock \in Time
  BY ConstantsAssumption DEF Init, Time
<1>2. {Computed(B) : B \in Findings \ {{}}} \subseteq Verdict
  BY ConstantsAssumption, VerdictType
<1>3. verdict \in [Devices -> Verdict]
  BY <1>2 DEF Init
<1> QED
  BY <1>1, <1>3, IdleType DEF Init, TypeOK, Lifecycle

\* Every action keeps the types; the request's invariant says where it is.
LEMMA StepType ==
    TypeOK /\ RowsKeyed /\ (\A r \in Requests : ReqInv(r)) /\ [Next]_vars => TypeOK'
<1> SUFFICES ASSUME TypeOK, RowsKeyed, \A r \in Requests : ReqInv(r), [Next]_vars
             PROVE  TypeOK'
    OBVIOUS
<1> USE ConstantsAssumption
<1> DEFINE Update(r, t) == tx' = [tx EXCEPT ![r] = t] /\ UNCHANGED <<clock, exc, life, verdict>>
<1>0. ASSUME NEW r \in Requests, NEW t \in Tx, Update(r, t) PROVE TypeOK'
  BY <1>0 DEF TypeOK
<1>a. \A e \in Exceptions : exc[e] \in Row /\ (exc[e].state # "none" => DeviceOf(e) \in Devices)
  BY DEF TypeOK, RowsKeyed, DeviceOf, Keys
<1>b. clock \in Time /\ Time \subseteq Nat
  BY DEF TypeOK, Time
<1>1. CASE Tick
  BY <1>1 DEF Tick, TypeOK, Time
<1>2. ASSUME NEW d \in Devices, OtherWriter(d) PROVE TypeOK'
  BY <1>2 DEF OtherWriter, TypeOK, Lifecycle
<1>3. ASSUME NEW r \in Requests, NEW e \in Exceptions, NEW u \in Filers, NEW d \in Devices,
             NEW b \in Blockers, NEW t \in Time, File(r, e, u, d, b, t)
      PROVE  TypeOK'
  <2> DEFINE n == [state |-> "pending_review", key |-> <<d, b>>, filed_by |-> u,
                   approved_by |-> None, expires_at |-> t]
             x == [Idle EXCEPT !.pc = "insert", !.op = "file", !.exc = e, !.new = n]
  <2>1. n \in Row
    BY DEF Row, Keys, Users, ExceptionState
  <2>2. x \in Tx
    BY <2>1, IdleType DEF Tx, Ops
  <2>3. Update(r, x)
    BY <1>3 DEF File
  <2> QED
    BY <1>0, <2>2, <2>3
<1>4. ASSUME NEW r \in Requests, NEW op \in DecideOps, NEW e \in Exceptions, NEW u \in Users,
             Begin(r, op, e, u)
      PROVE  TypeOK'
  <2> DEFINE a == IF op = "approve" THEN u ELSE None
             x == [Idle EXCEPT !.pc = "guard", !.op = op, !.exc = e, !.actor = a,
                               !.from = exc[e].state, !.dev = DeviceOf(e)]
  <2>1. exc[e].state \in ExceptionState \cup {"none"} /\ DeviceOf(e) \in Devices
    BY <1>4, <1>a DEF Begin, Row
  <2>2. a \in Users \cup {None} /\ op \in Ops
    BY DEF Ops, DecideOps
  <2>3. x \in Tx
    <3> HIDE DEF a
    <3> QED
      BY <2>1, <2>2, IdleType DEF Tx
  <2>4. Update(r, x)
    BY <1>4 DEF Begin
  <2> QED
    BY <1>0, <2>3, <2>4
<1>5. ASSUME NEW r \in Requests, Guard(r) PROVE TypeOK'
  <2> DEFINE p == IF tx[r].from = "approved" THEN "device" ELSE "flush"
             v == IF tx[r].op = "approve" THEN "exception_approved" ELSE tx[r].put
             x == [tx[r] EXCEPT !.pc = p, !.won = tx[r].won \cup {tx[r].exc}, !.put = v]
  <2>1. tx[r] \in Tx /\ tx[r].exc \in Exceptions
    BY <1>5 DEF TypeOK, Guard, Tx, Ops, ReqInv, Common, FileInv, DecideInv, SweepInv, DecideOps
  <2>2. v \in Lifecycle \cup {Keep} /\ p \in {"device", "flush"}
    BY <2>1 DEF Tx, Lifecycle
  <2>3. x \in Tx
    <3> HIDE DEF p, v
    <3> QED
      BY <2>1, <2>2 DEF Tx
  <2>4. Update(r, x)
    BY <1>5 DEF Guard
  <2> QED
    BY <1>0, <2>3, <2>4
<1>6. ASSUME NEW r \in Requests, GuardLost(r) PROVE TypeOK'
  <2> DEFINE x == IF tx[r].op = "evaluate" THEN [tx[r] EXCEPT !.pc = "sweep", !.exc = None]
                  ELSE Idle
  <2>1. tx[r] \in Tx
    BY DEF TypeOK
  <2>2. [tx[r] EXCEPT !.pc = "sweep", !.exc = None] \in Tx
    BY <2>1 DEF Tx
  <2>3. Update(r, x)
    BY <1>6 DEF GuardLost
  <2> QED
    BY <1>0, <2>2, <2>3, IdleType
<1>7. ASSUME NEW r \in Requests, ReadDevice(r) PROVE TypeOK'
  <2> DEFINE released == View(r) = "exception_approved"
             s == IF released THEN Released(r) ELSE View(r)
             v == IF released THEN Released(r) ELSE tx[r].put
             x1 == [tx[r] EXCEPT !.pc = "sweep", !.exc = None, !.seen = s, !.put = v]
             x2 == [tx[r] EXCEPT !.pc = "flush", !.put = v]
             x == IF tx[r].op = "evaluate" THEN x1 ELSE x2
  <2>1. tx[r] \in Tx
    BY DEF TypeOK
  <2>2. tx[r].op = "evaluate" => tx[r].dev \in Devices
    BY DEF ReqInv, SweepInv
  <2>3. v \in Lifecycle \cup {Keep} /\ (tx[r].op = "evaluate" => s \in Lifecycle)
    BY <2>1, <2>2 DEF Tx, View, TypeOK, Lifecycle, Released
  <2>4. x \in Tx
    <3> HIDE DEF s, v
    <3>1. tx[r].op = "evaluate" => x1 \in Tx
      BY <2>1, <2>3 DEF Tx
    <3>2. x2 \in Tx
      BY <2>1, <2>3 DEF Tx
    <3> QED
      BY <3>1, <3>2
  <2>5. Update(r, x)
    BY <1>7 DEF ReadDevice
  <2> QED
    BY <1>0, <2>4, <2>5
<1>8. ASSUME NEW r \in Requests, NEW d \in Devices,
             \/ \E t \in Time : Evaluate(r, d, t)
             \/ \E put \in {Keep, "other"} : Reload(r, d, put)
      PROVE  TypeOK'
  <2>1. PICK x \in Tx : Update(r, x)
    BY <1>8, ReloadSteps, EvaluateSteps
  <2> QED
    BY <1>0, <2>1
<1>9. ASSUME NEW r \in Requests, NEW e \in Exceptions, ExpireNext(r, e) PROVE TypeOK'
  <2> DEFINE x == [tx[r] EXCEPT !.pc = "guard", !.exc = e, !.from = "approved",
                                !.todo = tx[r].todo \ {e}]
  <2>1. tx[r] \in Tx
    BY DEF TypeOK
  <2>2. x \in Tx
    BY <2>1 DEF Tx, ExceptionState
  <2>3. Update(r, x)
    BY <1>9 DEF ExpireNext
  <2> QED
    BY <1>0, <2>2, <2>3
<1>10. ASSUME NEW r \in Requests, Finishes(r) PROVE TypeOK'
  <2>1. PICK x \in Tx : Update(r, x)
    BY <1>10, FinishSteps
  <2> QED
    BY <1>0, <2>1
<1>11. ASSUME NEW r \in Requests, Flush(r) PROVE TypeOK'
  <2> DEFINE x == [tx[r] EXCEPT !.held = TRUE]
  <2>0. tx[r] \in Tx
    BY DEF TypeOK
  <2>1. x \in Tx
    BY <2>0 DEF Tx
  <2>2. Update(r, x)
    BY <1>11 DEF Flush
  <2> QED
    BY <1>0, <2>1, <2>2
<1>12. ASSUME NEW r \in Requests, Commit(r) PROVE TypeOK'
  <2>1. tx[r] \in Tx
    BY DEF TypeOK
  <2>2. ASSUME NEW e \in Exceptions PROVE Decided(r, e) \in Row
    <3>1. exc[e] \in Row /\ Target(tx[r].op) \in ExceptionState
      BY DEF TypeOK, Target, ExceptionState
    <3> DEFINE a == IF tx[r].op = "approve" THEN tx[r].actor ELSE exc[e].approved_by
    <3>2. a \in Users \cup {None}
      BY <2>1, <3>1 DEF Tx, Row
    <3>3. [exc[e] EXCEPT !.state = Target(tx[r].op), !.approved_by = a] \in Row
      BY <3>1, <3>2 DEF Row
    <3> QED
      BY <3>3 DEF Decided
  <2>3. tx[r].new \in Row /\ tx[r].row \in Verdict
    BY <2>1 DEF Tx
  <2>4. exc' \in [Exceptions -> Row]
    BY <1>12, <1>a, <2>2, <2>3 DEF Commit
  <2>5. \A d \in Devices : d = tx[r].dev => View(r) \in Lifecycle
    BY <2>1 DEF View, Tx, TypeOK
  <2>6. life' \in [Devices -> Lifecycle]
    BY <1>12, <2>5 DEF Commit, TypeOK
  <2>7. verdict' \in [Devices -> Verdict]
    BY <1>12, <2>3 DEF Commit, TypeOK
  <2>8. tx' \in [Requests -> Tx] /\ clock' \in Time
    BY <1>12, IdleType DEF Commit, TypeOK
  <2> QED
    BY <2>4, <2>6, <2>7, <2>8 DEF TypeOK
<1>13. ASSUME NEW r \in Requests, Abort(r) PROVE TypeOK'
  <2>1. Update(r, Idle)
    BY <1>13 DEF Abort
  <2> QED
    BY <1>0, <2>1, IdleType
<1>14. CASE UNCHANGED vars
  BY <1>14 DEF vars, TypeOK
<1> QED
  BY <1>1, <1>2, <1>3, <1>4, <1>5, <1>6, <1>7, <1>8, <1>9, <1>10, <1>11, <1>12, <1>13, <1>14
  DEF Next, Arrive, Step, DecideOps, Finishes

-----------------------------------------------------------------------------
(***************************************************************************)
(* What a request knows while it runs.                                     *)
(***************************************************************************)

\* How a step may change the exceptions: a filed one keeps what it was filed with, and
\* an approved one can only close.
RowMoves(e) ==
    exc[e].state # "none" =>
        /\ exc'[e].state # "none"
        /\ exc'[e].key = exc[e].key
        /\ exc'[e].filed_by = exc[e].filed_by
        /\ exc'[e].expires_at = exc[e].expires_at
        /\ exc[e].state \in AfterApproval =>
              /\ exc'[e].state \in AfterApproval
              /\ exc'[e].state = "approved" => exc[e].state = "approved"

\* A request that does not move keeps its invariant when the others move the exceptions
\* in this way and leave alone the ones it holds or is going to insert.
LEMMA Frame ==
    ASSUME TypeOK, NEW q \in Requests, ReqInv(q),
           tx'[q] = tx[q], clock' \in Time, clock' >= clock,
           \A e \in Exceptions : RowMoves(e),
           \A e \in tx[q].won : exc'[e] = exc[e],
           tx[q].op = "file" => exc'[tx[q].exc] = exc[tx[q].exc]
    PROVE  ReqInv(q)'
<1>0. tx[q] \in Tx /\ tx[q].won \subseteq Exceptions /\ tx[q].overdue \subseteq Exceptions
  BY DEF TypeOK, Tx
<1>1. Common(q)'
  BY DEF ReqInv, Common
<1>2. FileInv(q)'
  BY DEF ReqInv, FileInv
<1>3. DecideInv(q)'
  <2> SUFFICES ASSUME tx[q].op \in DecideOps PROVE DecideInv(q)'
    BY DEF DecideInv
  <2>1. /\ exc'[tx[q].exc].state # "none"
        /\ exc'[tx[q].exc].key = exc[tx[q].exc].key
        /\ exc'[tx[q].exc].filed_by = exc[tx[q].exc].filed_by
    BY DEF ReqInv, DecideInv, RowMoves
  <2> QED
    BY <2>1 DEF ReqInv, DecideInv, DeviceOf
<1>4. SweepInv(q)'
  <2> SUFFICES ASSUME tx[q].op = "evaluate" PROVE SweepInv(q)'
    BY DEF SweepInv
  <2>1. ASSUME NEW e \in tx[q].overdue
        PROVE  /\ exc'[e].state \in AfterApproval
               /\ exc'[e].key[1] = tx[q].dev
               /\ exc'[e].expires_at < clock'
               /\ \/ e \in tx[q].won \/ e \in tx[q].todo
                  \/ tx[q].pc = "guard" /\ e = tx[q].exc
                  \/ exc'[e].state # "approved"
    <3>1. /\ exc[e].state \in AfterApproval /\ exc[e].key[1] = tx[q].dev
          /\ exc[e].expires_at < clock
          /\ \/ e \in tx[q].won \/ e \in tx[q].todo
             \/ tx[q].pc = "guard" /\ e = tx[q].exc
             \/ exc[e].state # "approved"
      BY DEF ReqInv, SweepInv, DeviceOf
    <3>2. exc[e].state # "none" /\ e \in Exceptions
      BY <1>0, <3>1 DEF AfterApproval
    <3>3. /\ exc'[e].key = exc[e].key /\ exc'[e].expires_at = exc[e].expires_at
          /\ exc'[e].state \in AfterApproval
          /\ exc'[e].state = "approved" => exc[e].state = "approved"
      BY <3>1, <3>2 DEF RowMoves
    <3>4. exc[e].expires_at \in Nat /\ clock \in Nat /\ clock' \in Nat
      BY <3>2, ConstantsAssumption DEF TypeOK, Row, Time
    <3> QED
      BY <3>1, <3>3, <3>4
  <2>2. \A e \in tx[q].won : exc'[e].state = "approved"
    BY DEF ReqInv, SweepInv
  <2> QED
    BY <2>1, <2>2 DEF ReqInv, SweepInv, DeviceOf
<1> QED
  BY <1>1, <1>2, <1>3, <1>4 DEF ReqInv

\* A request with no transaction satisfies its invariant.
LEMMA IdleInv ==
    ASSUME NEW r \in Requests, tx[r] = Idle
    PROVE  ReqInv(r)
<1>1. tx[r].op = "none" /\ ~ tx[r].held /\ tx[r].put = Keep /\ tx[r].pc = "idle"
  BY DEF Idle
<1> QED
  BY <1>1 DEF ReqInv, Common, FileInv, DecideInv, SweepInv, DecideOps, Keep

\* So does one whose transaction has just ended.
LEMMA IdleNext ==
    ASSUME NEW r \in Requests, tx'[r] = Idle
    PROVE  ReqInv(r)'
<1>1. /\ tx'[r].op = "none" /\ ~ tx'[r].held /\ tx'[r].put = Keep /\ tx'[r].pc = "idle"
      /\ tx'[r] = Idle
  BY DEF Idle
<1> QED
  BY <1>1 DEF ReqInv, Common, FileInv, DecideInv, SweepInv, DecideOps, Keep

\* A request touches no transaction but its own, and no committed row before it commits.
LEMMA OwnStep ==
    ASSUME TypeOK, \A q \in Requests : ReqInv(q),
           NEW r \in Requests, NEW t, tx' = [tx EXCEPT ![r] = t],
           UNCHANGED <<clock, exc, life, verdict>>,
           ReqInv(r)'
    PROVE  \A q \in Requests : ReqInv(q)'
<1> TAKE q \in Requests
<1>1. CASE q = r
  BY <1>1
<1>2. CASE q # r
  <2>1. tx'[q] = tx[q] /\ clock' \in Time /\ clock' >= clock
    BY <1>2, ConstantsAssumption DEF TypeOK, Time
  <2>2. \A e \in Exceptions : RowMoves(e)
    BY DEF RowMoves
  <2>3. ReqInv(q) /\ exc' = exc
    OBVIOUS
  <2> QED
    BY <2>1, <2>2, <2>3, Frame
<1> QED
  BY <1>1, <1>2

\* What exception_decide lets through is a legal edge; only an approved exception leads
\* to the state a sweep gives, and only a pending one to approved.
LEMMA DecideFacts ==
    /\ \A s, t, k, u, v : ExceptionDecide(s, t, k, u, v) = "ok" => <<s, t>> \in ExceptionEdges
    /\ \A s : <<s, "approved">> \in ExceptionEdges => s = "pending_review"
    /\ \A s : <<s, "rejected">> \in ExceptionEdges => s = "pending_review"
    /\ <<"approved", "expired">> \in ExceptionEdges
    /\ \A s, t : <<s, t>> \in ExceptionEdges => s # "none" /\ s \in {"pending_review", "approved"}
    /\ \A op : Target(op) \in {"approved", "rejected", "withdrawn", "expired"}
BY DEF ExceptionDecide, ExceptionEdges, Target

\* Every action of a request but its commit keeps the invariant of every request.
LEMMA StepReq ==
    ASSUME TypeOK, RowsExclusive, RowsKeyed, \A q \in Requests : ReqInv(q), NEW r \in Requests,
           Arrive(r) \/ Step(r) \/ Abort(r), ~ Commit(r)
    PROVE  \A q \in Requests : ReqInv(q)'
<1> USE ConstantsAssumption
<1>0. tx[r] \in Tx /\ Common(r) /\ FileInv(r) /\ DecideInv(r) /\ SweepInv(r)
  BY DEF TypeOK, ReqInv
<1>1. ASSUME NEW e \in Exceptions, NEW u \in Filers, NEW d \in Devices, NEW b \in Blockers,
             NEW t \in Time, File(r, e, u, d, b, t)
      PROVE  \A q \in Requests : ReqInv(q)'
  <2> DEFINE n == [state |-> "pending_review", key |-> <<d, b>>, filed_by |-> u,
                   approved_by |-> None, expires_at |-> t]
             x == [Idle EXCEPT !.pc = "insert", !.op = "file", !.exc = e, !.new = n]
  <2>1. tx' = [tx EXCEPT ![r] = x] /\ UNCHANGED <<clock, exc, life, verdict>> /\ tx'[r] = x
    BY <1>1 DEF File, TypeOK
  <2>2. /\ x.pc = "insert" /\ x.op = "file" /\ x.exc = e /\ x.new = n /\ x.won = {}
        /\ x.overdue = {} /\ x.put = Keep /\ x.dev = None /\ x.held = FALSE
    BY DEF Idle
  <2>3. /\ exc[e].state = "none" /\ n.key \in Keys /\ n.filed_by \in Users
        /\ n.state = "pending_review" /\ n.approved_by = None
    BY <1>1 DEF File, Keys, Users
  <2>4. Common(r)' /\ DecideInv(r)' /\ SweepInv(r)'
    BY <2>1, <2>2 DEF Common, DecideInv, SweepInv, DecideOps, Keep
  <2>5. FileInv(r)'
    <3> HIDE DEF n, x
    <3> QED
      BY <2>1, <2>2, <2>3 DEF FileInv
  <2> QED
    BY <2>1, <2>4, <2>5, OwnStep DEF ReqInv
<1>2. ASSUME NEW op \in DecideOps, NEW e \in Exceptions, NEW u \in Users, Begin(r, op, e, u)
      PROVE  \A q \in Requests : ReqInv(q)'
  <2> DEFINE a == IF op = "approve" THEN u ELSE None
             x == [Idle EXCEPT !.pc = "guard", !.op = op, !.exc = e, !.actor = a,
                               !.from = exc[e].state, !.dev = DeviceOf(e)]
  <2>1. tx' = [tx EXCEPT ![r] = x] /\ UNCHANGED <<clock, exc, life, verdict>> /\ tx'[r] = x
    BY <1>2 DEF Begin, TypeOK
  <2>2. /\ x.pc = "guard" /\ x.op = op /\ x.exc = e /\ x.from = exc[e].state /\ x.won = {}
        /\ x.overdue = {} /\ x.put = Keep /\ x.dev = DeviceOf(e) /\ x.held = FALSE
        /\ x.actor = a
    BY DEF Idle
  <2>3. exc[e].state # "none" /\ <<exc[e].state, Target(op)>> \in ExceptionEdges
    BY <1>2, DecideFacts DEF Begin
  <2>4. Common(r)' /\ FileInv(r)' /\ SweepInv(r)'
    BY <2>1, <2>2 DEF Common, FileInv, SweepInv, DecideOps, Keep
  <2>5. DecideInv(r)'
    BY <2>1, <2>2, <2>3 DEF DecideInv, DeviceOf
  <2> QED
    BY <2>1, <2>4, <2>5, OwnStep DEF ReqInv
<1>3. ASSUME Guard(r) PROVE \A q \in Requests : ReqInv(q)'
  <2> DEFINE p == IF tx[r].from = "approved" THEN "device" ELSE "flush"
             v == IF tx[r].op = "approve" THEN "exception_approved" ELSE tx[r].put
             x == [tx[r] EXCEPT !.pc = p, !.won = tx[r].won \cup {tx[r].exc}, !.put = v]
  <2>1. tx' = [tx EXCEPT ![r] = x] /\ UNCHANGED <<clock, exc, life, verdict>> /\ tx'[r] = x
    BY <1>3 DEF Guard, TypeOK
  <2>2. /\ x.pc = p /\ x.won = tx[r].won \cup {tx[r].exc} /\ x.put = v
        /\ x.op = tx[r].op /\ x.exc = tx[r].exc /\ x.from = tx[r].from /\ x.dev = tx[r].dev
        /\ x.actor = tx[r].actor /\ x.overdue = tx[r].overdue /\ x.todo = tx[r].todo
        /\ x.held = tx[r].held
    BY <1>0 DEF Tx
  <2>3. /\ tx[r].pc = "guard" /\ exc[tx[r].exc].state = tx[r].from
        /\ tx[r].op = "approve" => tx[r].actor # exc[tx[r].exc].filed_by
    BY <1>3 DEF Guard
  <2>4. tx[r].op \in DecideOps \cup {"evaluate"}
    BY <1>0, <2>3 DEF Tx, Ops, Common, FileInv, DecideOps
  <2>5. Common(r)'
    BY <1>0, <2>1, <2>2, <2>3, <2>4 DEF Common, Keep, DecideOps
  <2>6. FileInv(r)'
    BY <2>1, <2>2, <2>4 DEF FileInv, DecideOps
  <2>7. DecideInv(r)'
    <3>1. CASE tx[r].op = "approve"
      <4>1. tx[r].from = "pending_review"
        BY <1>0, <3>1, DecideFacts DEF DecideInv, DecideOps, Target
      <4> QED
        BY <1>0, <2>1, <2>2, <2>3, <3>1, <4>1 DEF DecideInv, DecideOps, DeviceOf
    <3>2. CASE tx[r].op \in {"reject", "withdraw"}
      BY <1>0, <2>1, <2>2, <2>3, <3>2 DEF DecideInv, DecideOps, DeviceOf
    <3>3. CASE tx[r].op = "evaluate"
      BY <2>1, <2>2, <3>3 DEF DecideInv, DecideOps
    <3> QED
      BY <2>4, <3>1, <3>2, <3>3 DEF DecideOps
  <2>8. SweepInv(r)'
    <3> SUFFICES ASSUME tx[r].op = "evaluate" PROVE SweepInv(r)'
      BY <2>1, <2>2 DEF SweepInv
    <3>1. p = "device" /\ v = tx[r].put /\ tx[r].exc \in tx[r].overdue
          /\ tx[r].exc \notin tx[r].todo /\ exc[tx[r].exc].state = "approved"
      BY <1>0, <2>3 DEF SweepInv
    <3> HIDE DEF p, v
    <3> QED
      BY <1>0, <2>1, <2>2, <2>3, <3>1 DEF SweepInv, DeviceOf
  <2> QED
    BY <2>1, <2>5, <2>6, <2>7, <2>8, OwnStep DEF ReqInv
<1>4. ASSUME GuardLost(r) PROVE \A q \in Requests : ReqInv(q)'
  <2>1. CASE tx[r].op = "evaluate"
    <3> DEFINE x == [tx[r] EXCEPT !.pc = "sweep", !.exc = None]
    <3>1. tx' = [tx EXCEPT ![r] = x] /\ UNCHANGED <<clock, exc, life, verdict>> /\ tx'[r] = x
      BY <1>4, <2>1 DEF GuardLost, TypeOK
    <3>2. /\ x.pc = "sweep" /\ x.won = tx[r].won /\ x.put = tx[r].put /\ x.op = "evaluate"
          /\ x.exc = None /\ x.from = tx[r].from /\ x.dev = tx[r].dev
          /\ x.overdue = tx[r].overdue /\ x.todo = tx[r].todo /\ x.held = tx[r].held
      BY <1>0, <2>1 DEF Tx
    <3>3. tx[r].pc = "guard" /\ exc[tx[r].exc].state # "approved"
      BY <1>0, <1>4, <2>1 DEF GuardLost, SweepInv
    <3>4. Common(r)' /\ FileInv(r)' /\ DecideInv(r)'
      BY <1>0, <2>1, <3>1, <3>2 DEF Common, FileInv, DecideInv, DecideOps
    <3>5. SweepInv(r)'
      BY <1>0, <2>1, <3>1, <3>2, <3>3 DEF SweepInv, DeviceOf
    <3> QED
      BY <3>1, <3>4, <3>5, OwnStep DEF ReqInv
  <2>2. CASE tx[r].op # "evaluate"
    <3>1. tx' = [tx EXCEPT ![r] = Idle] /\ UNCHANGED <<clock, exc, life, verdict>>
          /\ tx'[r] = Idle
      BY <1>4, <2>2 DEF GuardLost, TypeOK
    <3> QED
      BY <3>1, IdleNext, OwnStep
  <2> QED
    BY <2>1, <2>2
<1>5. ASSUME ReadDevice(r) PROVE \A q \in Requests : ReqInv(q)'
  <2> DEFINE released == View(r) = "exception_approved"
             s == IF released THEN Released(r) ELSE View(r)
             v == IF released THEN Released(r) ELSE tx[r].put
  <2>0. tx[r].pc = "device" /\ (v # tx[r].put => v = "blocked")
        /\ tx[r].op \in DecideOps \cup {"evaluate"}
    BY <1>0, <1>5 DEF ReadDevice, Released, Tx, Ops, Common, FileInv, DecideOps
  <2>1. CASE tx[r].op = "evaluate"
    <3> DEFINE x == [tx[r] EXCEPT !.pc = "sweep", !.exc = None, !.seen = s, !.put = v]
    <3>1. tx' = [tx EXCEPT ![r] = x] /\ UNCHANGED <<clock, exc, life, verdict>> /\ tx'[r] = x
      BY <1>5, <2>1 DEF ReadDevice, TypeOK
    <3> HIDE DEF v, s
    <3>2. /\ x.pc = "sweep" /\ x.won = tx[r].won /\ x.put = v /\ x.op = "evaluate"
          /\ x.exc = None /\ x.from = tx[r].from /\ x.dev = tx[r].dev
          /\ x.overdue = tx[r].overdue /\ x.todo = tx[r].todo /\ x.held = tx[r].held
      BY <1>0, <2>1 DEF Tx
    <3>3. Common(r)' /\ FileInv(r)' /\ DecideInv(r)'
      BY <1>0, <2>0, <2>1, <3>1, <3>2 DEF Common, FileInv, DecideInv, DecideOps, Keep
    <3>4. SweepInv(r)'
      BY <1>0, <2>0, <2>1, <3>1, <3>2 DEF SweepInv, DeviceOf
    <3> QED
      BY <3>1, <3>3, <3>4, OwnStep DEF ReqInv
  <2>2. CASE tx[r].op # "evaluate"
    <3> DEFINE x == [tx[r] EXCEPT !.pc = "flush", !.put = v]
    <3>1. tx' = [tx EXCEPT ![r] = x] /\ UNCHANGED <<clock, exc, life, verdict>> /\ tx'[r] = x
      BY <1>5, <2>2 DEF ReadDevice, TypeOK
    <3> HIDE DEF v
    <3>2. /\ x.pc = "flush" /\ x.won = tx[r].won /\ x.put = v /\ x.op = tx[r].op
          /\ x.exc = tx[r].exc /\ x.from = tx[r].from /\ x.dev = tx[r].dev
          /\ x.overdue = tx[r].overdue /\ x.held = tx[r].held /\ x.actor = tx[r].actor
      BY <1>0, <2>2 DEF Tx
    <3>3. Common(r)' /\ FileInv(r)' /\ SweepInv(r)'
      BY <1>0, <2>0, <2>2, <3>1, <3>2 DEF Common, FileInv, SweepInv, DecideOps, Keep
    <3>4. DecideInv(r)'
      BY <1>0, <2>0, <2>2, <3>1, <3>2 DEF DecideInv, DecideOps, DeviceOf
    <3> QED
      BY <3>1, <3>3, <3>4, OwnStep DEF ReqInv
  <2> QED
    BY <2>1, <2>2
<1>6. ASSUME NEW d \in Devices, NEW t \in Time, Evaluate(r, d, t)
      PROVE  \A q \in Requests : ReqInv(q)'
  <2>1. PICK x \in Tx :
              /\ tx' = [tx EXCEPT ![r] = x] /\ UNCHANGED <<clock, exc, life, verdict>>
              /\ x.pc = "sweep" /\ x.op = "evaluate" /\ x.exc = None /\ x.dev = d
              /\ x.won = {} /\ x.overdue = Overdue(d) /\ x.todo = Overdue(d)
              /\ x.put \in {Keep, "other"} /\ (x.held => x.put # Keep)
    BY <1>6, EvaluateSteps
  <2>2. tx'[r] = x
    BY <2>1 DEF TypeOK
  <2>3. Common(r)' /\ FileInv(r)' /\ DecideInv(r)'
    BY <2>1, <2>2 DEF Common, FileInv, DecideInv, DecideOps, Keep
  <2>4. SweepInv(r)'
    BY <2>1, <2>2 DEF SweepInv, Overdue, AfterApproval, DeviceOf, Keep
  <2> QED
    BY <2>1, <2>3, <2>4, OwnStep DEF ReqInv
<1>11. ASSUME NEW d \in Devices, NEW put \in {Keep, "other"}, Reload(r, d, put)
       PROVE  \A q \in Requests : ReqInv(q)'
  <2>1. PICK x \in Tx :
              /\ tx' = [tx EXCEPT ![r] = x] /\ UNCHANGED <<clock, exc, life, verdict>>
              /\ x.pc = "reload" /\ x.op = "evaluate" /\ x.exc = None /\ x.dev = d
              /\ x.won = {} /\ x.overdue = {} /\ x.todo = {} /\ x.put = put /\ ~ x.held
    BY <1>11, ReloadSteps
  <2>2. tx'[r] = x
    BY <2>1 DEF TypeOK
  <2>3. Common(r)' /\ FileInv(r)' /\ DecideInv(r)'
    BY <2>1, <2>2 DEF Common, FileInv, DecideInv, DecideOps, Keep
  <2>4. SweepInv(r)'
    BY <2>1, <2>2 DEF SweepInv, Keep
  <2> QED
    BY <2>1, <2>3, <2>4, OwnStep DEF ReqInv
<1>7. ASSUME NEW e \in Exceptions, ExpireNext(r, e) PROVE \A q \in Requests : ReqInv(q)'
  <2> DEFINE x == [tx[r] EXCEPT !.pc = "guard", !.exc = e, !.from = "approved",
                                !.todo = tx[r].todo \ {e}]
  <2>1. tx' = [tx EXCEPT ![r] = x] /\ UNCHANGED <<clock, exc, life, verdict>> /\ tx'[r] = x
    BY <1>7 DEF ExpireNext, TypeOK
  <2>2. /\ x.pc = "guard" /\ x.won = tx[r].won /\ x.put = tx[r].put /\ x.op = tx[r].op
        /\ x.exc = e /\ x.from = "approved" /\ x.dev = tx[r].dev
        /\ x.overdue = tx[r].overdue /\ x.todo = tx[r].todo \ {e} /\ x.held = tx[r].held
    BY <1>0 DEF Tx
  <2>3. tx[r].pc = "sweep" /\ tx[r].op = "evaluate" /\ e \in tx[r].todo
    BY <1>0, <1>7 DEF ExpireNext, Tx, Ops, Common, FileInv, DecideInv, DecideOps
  <2>4. Common(r)' /\ FileInv(r)' /\ DecideInv(r)'
    BY <1>0, <2>1, <2>2, <2>3 DEF Common, FileInv, DecideInv, DecideOps
  <2>5. SweepInv(r)'
    BY <1>0, <2>1, <2>2, <2>3 DEF SweepInv, DeviceOf
  <2> QED
    BY <2>1, <2>4, <2>5, OwnStep DEF ReqInv
<1>8. ASSUME Finishes(r) PROVE \A q \in Requests : ReqInv(q)'
  <2>1. PICK x \in Tx :
              /\ tx' = [tx EXCEPT ![r] = x]
              /\ x.pc = "flush" /\ x.put \in {tx[r].put, "blocked", "other"}
              /\ x.op = tx[r].op /\ x.won = tx[r].won /\ x.exc = tx[r].exc
              /\ x.from = tx[r].from /\ x.dev = tx[r].dev /\ x.held = tx[r].held
              /\ x.overdue = tx[r].overdue /\ x.todo = tx[r].todo
    BY <1>8, FinishSteps
  <2>2. tx' = [tx EXCEPT ![r] = x] /\ UNCHANGED <<clock, exc, life, verdict>> /\ tx'[r] = x
    BY <1>8, <2>1, FinishSteps DEF TypeOK
  <2>3. tx[r].pc = "sweep" /\ tx[r].todo = {}
    BY <1>8, FinishSteps
  <2>4. tx[r].pc = "sweep" /\ tx[r].op = "evaluate" /\ tx[r].todo = {}
    BY <1>0, <2>3 DEF Tx, Ops, Common, FileInv, DecideInv, DecideOps
  <2>5. Common(r)' /\ FileInv(r)' /\ DecideInv(r)'
    BY <1>0, <2>1, <2>2, <2>3, <2>4 DEF Common, FileInv, DecideInv, DecideOps, Keep
  <2>6. SweepInv(r)'
    BY <1>0, <2>1, <2>2, <2>4 DEF SweepInv, DeviceOf
  <2> QED
    BY <2>2, <2>5, <2>6, OwnStep DEF ReqInv
<1>9. ASSUME Flush(r) PROVE \A q \in Requests : ReqInv(q)'
  <2> DEFINE x == [tx[r] EXCEPT !.held = TRUE]
  <2>1. tx' = [tx EXCEPT ![r] = x] /\ UNCHANGED <<clock, exc, life, verdict>> /\ tx'[r] = x
    BY <1>9 DEF Flush, TypeOK
  <2>2. /\ x.pc = tx[r].pc /\ x.won = tx[r].won /\ x.put = tx[r].put /\ x.op = tx[r].op
        /\ x.exc = tx[r].exc /\ x.from = tx[r].from /\ x.dev = tx[r].dev
        /\ x.overdue = tx[r].overdue /\ x.todo = tx[r].todo /\ x.new = tx[r].new
        /\ x.actor = tx[r].actor
    BY <1>0 DEF Tx
  <2>3. tx[r].put # Keep /\ tx[r].pc # "idle"
    <3>1. tx[r].put # Keep /\ Idle.put = Keep
      BY <1>9 DEF Flush, Unflushed, Idle
    <3> QED
      BY <1>0, <3>1 DEF Common
  <2>4. Common(r)' /\ FileInv(r)'
    BY <1>0, <2>1, <2>2, <2>3 DEF Common, FileInv
  <2>5. DecideInv(r)'
    BY <1>0, <2>1, <2>2 DEF DecideInv, DeviceOf
  <2>6. SweepInv(r)'
    BY <1>0, <2>1, <2>2 DEF SweepInv, DeviceOf
  <2> QED
    BY <2>1, <2>4, <2>5, <2>6, OwnStep DEF ReqInv
<1>10. ASSUME Abort(r) PROVE \A q \in Requests : ReqInv(q)'
  <2>1. tx' = [tx EXCEPT ![r] = Idle] /\ UNCHANGED <<clock, exc, life, verdict>>
        /\ tx'[r] = Idle
    BY <1>10 DEF Abort, TypeOK
  <2> QED
    BY <2>1, IdleNext, OwnStep
<1> QED
  BY <1>1, <1>2, <1>3, <1>4, <1>5, <1>6, <1>7, <1>8, <1>9, <1>10, <1>11
  DEF Arrive, Step, DecideOps, Finishes

\* What a commit does to one exception: it moves a row it holds along a legal edge, or
\* inserts the row of its filing, or leaves the row alone.
CommitsRow(r, e) ==
    \/ /\ e \in tx[r].won /\ tx[r].op \in DecideOps \cup {"evaluate"}
       /\ <<exc[e].state, Target(tx[r].op)>> \in ExceptionEdges
       /\ exc'[e] = Decided(r, e)
       /\ exc'[e].state = Target(tx[r].op)
       /\ exc'[e].approved_by = IF tx[r].op = "approve" THEN tx[r].actor ELSE exc[e].approved_by
       /\ exc'[e].key = exc[e].key /\ exc'[e].filed_by = exc[e].filed_by
       /\ exc'[e].expires_at = exc[e].expires_at
    \/ /\ tx[r].op = "file" /\ e = tx[r].exc
       /\ exc[e].state = "none" /\ exc'[e] = tx[r].new
    \/ e \notin tx[r].won /\ exc'[e] = exc[e]

LEMMA CommitRows ==
    ASSUME TypeOK, NEW r \in Requests, ReqInv(r), Commit(r), NEW e \in Exceptions
    PROVE  CommitsRow(r, e)
<1>0. tx[r] \in Tx /\ Common(r) /\ FileInv(r) /\ DecideInv(r) /\ SweepInv(r) /\ exc[e] \in Row
  BY DEF TypeOK, ReqInv
<1>1. CASE e \in tx[r].won
  <2>1. tx[r].op \in DecideOps \cup {"evaluate"}
    <3>1. tx[r].op # "file" /\ tx[r].pc # "idle"
      BY <1>0, <1>1 DEF FileInv, Commit
    <3> QED
      BY <1>0, <3>1 DEF Common, Tx, Ops, DecideOps
  <2>2. <<exc[e].state, Target(tx[r].op)>> \in ExceptionEdges
    <3>1. CASE tx[r].op \in DecideOps
      <4>1. tx[r].pc # "guard"
        BY DEF Commit
      <4>2. e = tx[r].exc /\ exc[e].state = tx[r].from
        BY <1>0, <1>1, <3>1, <4>1 DEF DecideInv
      <4> QED
        BY <1>0, <3>1, <4>2 DEF DecideInv
    <3>2. CASE tx[r].op = "evaluate"
      BY <1>0, <1>1, <3>2, DecideFacts DEF SweepInv, Target
    <3> QED
      BY <2>1, <3>1, <3>2
  <2>3. exc'[e] = Decided(r, e)
    BY <1>1, <2>1 DEF Commit, DecideOps
  <2> DEFINE a == IF tx[r].op = "approve" THEN tx[r].actor ELSE exc[e].approved_by
  <2>4. exc'[e] = [exc[e] EXCEPT !.state = Target(tx[r].op), !.approved_by = a]
    BY <2>3 DEF Decided
  <2>5. /\ exc'[e].state = Target(tx[r].op) /\ exc'[e].approved_by = a
        /\ exc'[e].key = exc[e].key /\ exc'[e].filed_by = exc[e].filed_by
        /\ exc'[e].expires_at = exc[e].expires_at
    <3> HIDE DEF a
    <3> QED
      BY <1>0, <2>4 DEF Row
  <2> QED
    BY <1>1, <2>1, <2>2, <2>3, <2>5 DEF CommitsRow
<1>2. CASE e \notin tx[r].won
  BY <1>0, <1>2 DEF Commit, FileInv, CommitsRow
<1> QED
  BY <1>1, <1>2

\* Every legal edge is a move in the sense of RowMoves.
LEMMA CommitMoves ==
    ASSUME TypeOK, NEW r \in Requests, ReqInv(r), Commit(r), NEW e \in Exceptions
    PROVE  RowMoves(e)
<1> SUFFICES ASSUME exc[e].state # "none" PROVE RowMoves(e)
  BY DEF RowMoves
<1>1. CASE e \in tx[r].won
  <2>1. /\ <<exc[e].state, Target(tx[r].op)>> \in ExceptionEdges
        /\ exc'[e].state = Target(tx[r].op)
        /\ exc'[e].key = exc[e].key /\ exc'[e].filed_by = exc[e].filed_by
        /\ exc'[e].expires_at = exc[e].expires_at
    <3>1. tx[r].op = "file" => tx[r].won = {}
      BY DEF ReqInv, FileInv
    <3> QED
      BY <1>1, <3>1, CommitRows DEF CommitsRow
  <2>2. exc'[e].state # "none"
    BY <2>1 DEF ExceptionEdges
  <2>3. exc[e].state \in AfterApproval =>
            exc'[e].state \in AfterApproval /\ exc'[e].state # "approved"
    BY <2>1 DEF ExceptionEdges, AfterApproval
  <2> QED
    BY <2>1, <2>2, <2>3 DEF RowMoves
<1>2. CASE e \notin tx[r].won
  BY <1>2, CommitRows DEF CommitsRow, RowMoves
<1> QED
  BY <1>1, <1>2

\* A commit keeps the invariant of every request: it changes no exception another holds.
LEMMA CommitReq ==
    ASSUME TypeOK, RowsExclusive, \A q \in Requests : ReqInv(q), NEW r \in Requests, Commit(r)
    PROVE  \A q \in Requests : ReqInv(q)'
<1>1. tx' = [tx EXCEPT ![r] = Idle] /\ tx'[r] = Idle /\ clock' = clock
  BY DEF Commit, TypeOK
<1>2. SUFFICES ASSUME NEW q \in Requests PROVE ReqInv(q)'
  OBVIOUS
<1>3. CASE q = r
  BY <1>1, <1>3, IdleNext
<1>4. CASE q # r
  <2>1. tx'[q] = tx[q] /\ ReqInv(q) /\ ReqInv(r)
    BY <1>1, <1>4 DEF TypeOK
  <2>2. clock' \in Time /\ clock' >= clock
    BY <1>1, ConstantsAssumption DEF TypeOK, Time
  <2>3. \A e \in Exceptions : RowMoves(e)
    BY CommitMoves
  <2>4. \A e \in tx[q].won : exc'[e] = exc[e]
    <3> TAKE e \in tx[q].won
    <3>1. e \in Exceptions /\ e \notin tx[r].won
      BY <1>4 DEF TypeOK, Tx, RowsExclusive
    <3>2. exc[e].state # "none"
      <4>1. tx[q].op # "file" /\ tx[q].pc # "idle"
        BY <2>1 DEF ReqInv, FileInv, Common, Idle
      <4>2. tx[q].op \in DecideOps \cup {"evaluate"}
        BY <2>1, <4>1 DEF ReqInv, Common, TypeOK, Tx, Ops, DecideOps
      <4>3. CASE tx[q].op \in DecideOps
        BY <2>1, <4>3 DEF ReqInv, DecideInv
      <4>4. CASE tx[q].op = "evaluate"
        BY <2>1, <4>4 DEF ReqInv, SweepInv
      <4> QED
        BY <4>2, <4>3, <4>4
    <3> QED
      BY <3>1, <3>2, CommitRows DEF CommitsRow
  <2>5. tx[q].op = "file" => exc'[tx[q].exc] = exc[tx[q].exc]
    <3> SUFFICES ASSUME tx[q].op = "file" PROVE exc'[tx[q].exc] = exc[tx[q].exc]
      OBVIOUS
    <3>1. tx[q].exc \in Exceptions /\ exc[tx[q].exc].state = "none"
      BY <2>1 DEF ReqInv, FileInv
    <3>2. tx[r].op = "file" => tx[r].exc # tx[q].exc
      BY <1>4 DEF RowsExclusive
    <3>3. \A t : <<"none", t>> \notin ExceptionEdges
      BY DEF ExceptionEdges
    <3> QED
      BY <3>1, <3>2, <3>3, CommitRows DEF CommitsRow
  <2> QED
    BY <2>1, <2>2, <2>3, <2>4, <2>5, Frame
<1> QED
  BY <1>3, <1>4

\* The clock and the other writers of the lifecycle touch no exception and no request.
LEMMA OutsideReq ==
    ASSUME TypeOK, \A q \in Requests : ReqInv(q),
           Tick \/ (\E d \in Devices : OtherWriter(d)) \/ UNCHANGED vars
    PROVE  \A q \in Requests : ReqInv(q)'
<1>1. exc' = exc /\ tx' = tx /\ clock' \in Time /\ clock' >= clock
  BY ConstantsAssumption DEF Tick, OtherWriter, vars, TypeOK, Time
<1>2. \A e \in Exceptions : RowMoves(e)
  BY <1>1 DEF RowMoves
<1> QED
  BY <1>1, <1>2, Frame

\* Every step keeps the invariant of every request.
LEMMA NextReq ==
    TypeOK /\ RowsExclusive /\ RowsKeyed /\ (\A q \in Requests : ReqInv(q)) /\ [Next]_vars
        => \A q \in Requests : ReqInv(q)'
BY StepReq, CommitReq, OutsideReq DEF Next

-----------------------------------------------------------------------------
(***************************************************************************)
(* The invariants about committed rows.                                    *)
(***************************************************************************)

\* Only a commit changes an exception; only a commit and another writer change a device.
LEMMA OnlyCommits ==
    [Next]_vars => \/ \E r \in Requests : Commit(r)
                   \/ exc' = exc /\ (life' = life \/ \E d \in Devices : OtherWriter(d))
<1> SUFFICES ASSUME [Next]_vars, ~ \E r \in Requests : Commit(r)
             PROVE  exc' = exc /\ (life' = life \/ \E d \in Devices : OtherWriter(d))
  OBVIOUS
<1>1. ASSUME NEW r \in Requests, Arrive(r) PROVE exc' = exc /\ life' = life
  BY <1>1 DEF Arrive, File, Begin, Reload, Evaluate
<1>2. ASSUME NEW r \in Requests, Step(r) PROVE exc' = exc /\ life' = life
  <2>1. Guard(r) \/ GuardLost(r) => exc' = exc /\ life' = life
    BY DEF Guard, GuardLost
  <2>2. ReadDevice(r) \/ Flush(r) => exc' = exc /\ life' = life
    BY DEF ReadDevice, Flush
  <2>3. \A e \in Exceptions : ExpireNext(r, e) => exc' = exc /\ life' = life
    BY DEF ExpireNext
  <2>4. Finishes(r) => exc' = exc /\ life' = life
    BY DEF Finishes, PassOver, Decide
  <2> QED
    BY <1>2, <2>1, <2>2, <2>3, <2>4 DEF Step, Finishes
<1>3. ASSUME NEW r \in Requests, Abort(r) PROVE exc' = exc /\ life' = life
  BY <1>3 DEF Abort
<1> QED
  BY <1>1, <1>2, <1>3 DEF Next, Tick, OtherWriter, vars

\* A request takes a row only when no other holds it, and files only a row no other is
\* concerned with.
LEMMA StepRows ==
    TypeOK /\ RowsExclusive /\ (\A q \in Requests : ReqInv(q)) /\ [Next]_vars => RowsExclusive'
<1> SUFFICES ASSUME TypeOK, RowsExclusive, \A q \in Requests : ReqInv(q), [Next]_vars
             PROVE  RowsExclusive'
  OBVIOUS
<1> USE ConstantsAssumption
\* A step of r that takes no row and starts no filing keeps the rows apart.
<1>0. ASSUME NEW r \in Requests, NEW x, tx' = [tx EXCEPT ![r] = x],
             x.won \subseteq tx[r].won,
             x.op = "file" => tx[r].op = "file" /\ x.exc = tx[r].exc
      PROVE  RowsExclusive'
  <2>1. tx'[r] = x /\ \A q \in Requests : q # r => tx'[q] = tx[q]
    BY <1>0 DEF TypeOK
  <2> QED
    BY <1>0, <2>1 DEF RowsExclusive
<1>a. \A r \in Requests : tx[r] \in Tx
  BY DEF TypeOK
<1>b. Idle.won = {} /\ Idle.op = "none"
  BY DEF Idle
<1>1. ASSUME NEW r \in Requests, NEW e \in Exceptions, NEW u \in Filers, NEW d \in Devices,
             NEW b \in Blockers, NEW t \in Time, File(r, e, u, d, b, t)
      PROVE  RowsExclusive'
  <2> DEFINE n == [state |-> "pending_review", key |-> <<d, b>>, filed_by |-> u,
                   approved_by |-> None, expires_at |-> t]
             x == [Idle EXCEPT !.pc = "insert", !.op = "file", !.exc = e, !.new = n]
  <2>1. tx'[r] = x /\ \A q \in Requests : q # r => tx'[q] = tx[q]
    BY <1>1 DEF File, TypeOK
  <2>2. x.won = {} /\ x.exc = e
    BY DEF Idle
  <2>3. \A q \in Requests : tx[q].exc # e
    BY <1>1 DEF File
  <2> HIDE DEF x
  <2> QED
    BY <2>1, <2>2, <2>3 DEF RowsExclusive
<1>2. ASSUME NEW r \in Requests, NEW op \in DecideOps, NEW e \in Exceptions, NEW u \in Users,
             Begin(r, op, e, u)
      PROVE  RowsExclusive'
  <2> DEFINE x == [Idle EXCEPT !.pc = "guard", !.op = op, !.exc = e,
                               !.actor = IF op = "approve" THEN u ELSE None,
                               !.from = exc[e].state, !.dev = DeviceOf(e)]
  <2>1. x.won = {} /\ x.op = op
    BY DEF Idle
  <2> QED
    BY <1>0, <1>2, <2>1 DEF Begin, DecideOps
<1>3. ASSUME NEW r \in Requests, Guard(r) PROVE RowsExclusive'
  <2> DEFINE p == IF tx[r].from = "approved" THEN "device" ELSE "flush"
             v == IF tx[r].op = "approve" THEN "exception_approved" ELSE tx[r].put
             x == [tx[r] EXCEPT !.pc = p, !.won = tx[r].won \cup {tx[r].exc}, !.put = v]
  <2>1. tx'[r] = x /\ \A q \in Requests : q # r => tx'[q] = tx[q]
    BY <1>3 DEF Guard, TypeOK
  <2>2. /\ x.won = tx[r].won \cup {tx[r].exc} /\ x.op = tx[r].op /\ x.exc = tx[r].exc
    BY <1>a DEF Tx
  <2>3. \A q \in Requests \ {r} : tx[r].exc \notin tx[q].won
    BY <1>3 DEF Guard, RowFree
  <2> HIDE DEF x
  <2> QED
    BY <2>1, <2>2, <2>3 DEF RowsExclusive
<1>4. ASSUME NEW r \in Requests, GuardLost(r) PROVE RowsExclusive'
  <2> DEFINE x == [tx[r] EXCEPT !.pc = "sweep", !.exc = None]
  <2>1. x.won = tx[r].won /\ x.op = tx[r].op
    BY <1>a DEF Tx
  <2>2. CASE tx[r].op = "evaluate"
    BY <1>0, <1>4, <2>1, <2>2 DEF GuardLost
  <2>3. CASE tx[r].op # "evaluate"
    BY <1>0, <1>4, <1>b, <2>3 DEF GuardLost
  <2> QED
    BY <2>2, <2>3
<1>5. ASSUME NEW r \in Requests, ReadDevice(r) PROVE RowsExclusive'
  <2>1. PICK s, v, x :
           /\ tx' = [tx EXCEPT ![r] = x]
           /\ \/ x = [tx[r] EXCEPT !.pc = "sweep", !.exc = None, !.seen = s, !.put = v]
              \/ x = [tx[r] EXCEPT !.pc = "flush", !.put = v]
    BY <1>5 DEF ReadDevice
  <2>2. tx[r].op # "file"
    BY <1>5 DEF ReadDevice, ReqInv, FileInv
  <2>3. x.won = tx[r].won /\ x.op = tx[r].op
    BY <1>a, <2>1 DEF Tx
  <2> QED
    BY <1>0, <2>1, <2>2, <2>3
<1>6. ASSUME NEW r \in Requests, NEW d \in Devices,
             \/ \E t \in Time : Evaluate(r, d, t)
             \/ \E put \in {Keep, "other"} : Reload(r, d, put)
      PROVE  RowsExclusive'
  <2>1. PICK x \in Tx : tx' = [tx EXCEPT ![r] = x] /\ x.won = {} /\ x.op = "evaluate"
    BY <1>6, ReloadSteps, EvaluateSteps
  <2> QED
    BY <1>0, <2>1
<1>7. ASSUME NEW r \in Requests, NEW e \in Exceptions, ExpireNext(r, e) PROVE RowsExclusive'
  <2> DEFINE x == [tx[r] EXCEPT !.pc = "guard", !.exc = e, !.from = "approved",
                                !.todo = tx[r].todo \ {e}]
  <2>1. x.won = tx[r].won /\ x.op = tx[r].op
    BY <1>a DEF Tx
  <2>2. tx[r].op # "file"
    BY <1>7 DEF ExpireNext, ReqInv, FileInv
  <2> QED
    BY <1>0, <1>7, <2>1, <2>2 DEF ExpireNext
<1>8. ASSUME NEW r \in Requests, Finishes(r) PROVE RowsExclusive'
  <2>1. PICK x \in Tx : /\ tx' = [tx EXCEPT ![r] = x]
                       /\ x.won = tx[r].won /\ x.op = tx[r].op /\ x.exc = tx[r].exc
    BY <1>8, FinishSteps
  <2> QED
    BY <1>0, <2>1
<1>9. ASSUME NEW r \in Requests, Flush(r) PROVE RowsExclusive'
  <2> DEFINE x == [tx[r] EXCEPT !.held = TRUE]
  <2>1. x.won = tx[r].won /\ x.op = tx[r].op /\ x.exc = tx[r].exc
    BY <1>a DEF Tx
  <2> QED
    BY <1>0, <1>9, <2>1 DEF Flush
<1>10. ASSUME NEW r \in Requests, Commit(r) \/ Abort(r) PROVE RowsExclusive'
  BY <1>0, <1>10, <1>b DEF Commit, Abort
<1>11. CASE Tick \/ (\E d \in Devices : OtherWriter(d)) \/ UNCHANGED vars
  BY <1>11 DEF Tick, OtherWriter, vars, RowsExclusive
<1> QED
  BY <1>1, <1>2, <1>3, <1>4, <1>5, <1>6, <1>7, <1>8, <1>9, <1>10, <1>11
  DEF Next, Arrive, Step, DecideOps, Finishes

\* An exception names its device and blocker from the commit of its filing on, and has
\* no approver before it.
LEMMA StepKeyed ==
    TypeOK /\ RowsKeyed /\ (\A q \in Requests : ReqInv(q)) /\ [Next]_vars => RowsKeyed'
<1> SUFFICES ASSUME TypeOK, RowsKeyed, \A q \in Requests : ReqInv(q), [Next]_vars
             PROVE  RowsKeyed'
  OBVIOUS
<1>1. ASSUME NEW r \in Requests, Commit(r) PROVE RowsKeyed'
  <2>1. \A e \in Exceptions : CommitsRow(r, e)
    BY <1>1, CommitRows
  <2>2. tx[r].op = "file" => tx[r].new.key \in Keys /\ tx[r].new.state # "none"
    BY DEF ReqInv, FileInv
  <2>4. \A e \in Exceptions : e \in tx[r].won =>
            Target(tx[r].op) # "none"
    BY DecideFacts
  <2>3. \A e \in Exceptions : \A t : <<exc[e].state, t>> \in ExceptionEdges => exc[e].state # "none"
    BY DecideFacts
  <2> QED
    BY <2>1, <2>2, <2>3, <2>4 DEF RowsKeyed, CommitsRow
<1>2. CASE exc' = exc
  BY <1>2 DEF RowsKeyed
<1> QED
  BY <1>1, <1>2, OnlyCommits

\* What a request holds is what it decided, or is among what it found overdue, and belongs
\* to the device it reads.
LEMMA WonFacts ==
    ASSUME TypeOK, NEW r \in Requests, ReqInv(r), NEW e \in tx[r].won
    PROVE  /\ e \in Exceptions
           /\ tx[r].op \in DecideOps \cup {"evaluate"}
           /\ DeviceOf(e) = tx[r].dev
           /\ tx[r].op \in DecideOps => e = tx[r].exc /\ tx[r].pc # "guard"
<1>1. e \in Exceptions
  BY DEF TypeOK, Tx
<1>2. tx[r].op \in DecideOps \cup {"evaluate"}
  BY DEF ReqInv, Common, FileInv, Idle, TypeOK, Tx, Ops, DecideOps
<1>3. CASE tx[r].op \in DecideOps
  BY <1>1, <1>3 DEF ReqInv, DecideInv, DecideOps
<1>4. CASE tx[r].op = "evaluate"
  BY <1>1, <1>4 DEF ReqInv, SweepInv, DecideOps
<1> QED
  BY <1>1, <1>2, <1>3, <1>4

\* An approval that holds its row holds nothing else.
LEMMA ApprovingFacts ==
    ASSUME TypeOK, NEW r \in Requests, ReqInv(r), Approving(r)
    PROVE  tx[r].exc \in Exceptions /\ tx[r].won = {tx[r].exc}
BY DEF Approving, ReqInv, DecideInv, DecideOps

\* The unique index keeps approvals apart: an approval takes its row only when no other
\* exception of its key is approved and no other approval of its key is under way.
LEMMA StepApart ==
    TypeOK /\ RowsExclusive /\ (\A q \in Requests : ReqInv(q)) /\ ApprovalsApart /\ [Next]_vars
        => ApprovalsApart'
<1> SUFFICES ASSUME TypeOK, RowsExclusive, \A q \in Requests : ReqInv(q), ApprovalsApart,
                    [Next]_vars
             PROVE  ApprovalsApart'
  OBVIOUS
<1>a. \A r \in Requests : tx[r] \in Tx
  BY DEF TypeOK
\* A step of r that starts holding no approval keeps them apart.
<1>0. ASSUME NEW r \in Requests, NEW x, tx' = [tx EXCEPT ![r] = x], exc' = exc,
             x.op = "approve" /\ x.pc = "flush" => Approving(r) /\ x.exc = tx[r].exc
      PROVE  ApprovalsApart'
  <2>1. tx'[r] = x /\ \A q \in Requests : q # r => tx'[q] = tx[q]
    BY <1>0 DEF TypeOK
  <2>2. \A q \in Requests : Approving(q)' => Approving(q) /\ tx'[q].exc = tx[q].exc
    BY <1>0, <2>1 DEF Approving
  <2> QED
    BY <1>0, <2>2 DEF ApprovalsApart
<1>1. ASSUME NEW r \in Requests, Arrive(r) \/ Abort(r) PROVE ApprovalsApart'
  <2>1. ASSUME NEW e \in Exceptions, NEW u \in Filers, NEW d \in Devices, NEW b \in Blockers,
               NEW t \in Time, File(r, e, u, d, b, t)
        PROVE  ApprovalsApart'
    <3> DEFINE n == [state |-> "pending_review", key |-> <<d, b>>, filed_by |-> u,
                     approved_by |-> None, expires_at |-> t]
               x == [Idle EXCEPT !.pc = "insert", !.op = "file", !.exc = e, !.new = n]
    <3>1. x.pc = "insert"
      BY DEF Idle
    <3>2. tx' = [tx EXCEPT ![r] = x] /\ exc' = exc
      BY <2>1 DEF File
    <3> HIDE DEF x
    <3> QED
      BY <1>0, <3>1, <3>2
  <2>2. ASSUME NEW op, NEW e \in Exceptions, NEW u \in Users, Begin(r, op, e, u)
        PROVE  ApprovalsApart'
    <3> DEFINE x == [Idle EXCEPT !.pc = "guard", !.op = op, !.exc = e,
                                 !.actor = IF op = "approve" THEN u ELSE None,
                                 !.from = exc[e].state, !.dev = DeviceOf(e)]
    <3>1. x.pc = "guard"
      BY DEF Idle
    <3>2. tx' = [tx EXCEPT ![r] = x] /\ exc' = exc
      BY <2>2 DEF Begin
    <3> HIDE DEF x
    <3> QED
      BY <1>0, <3>1, <3>2
  <2>3. ASSUME NEW d \in Devices,
               \/ \E t \in Time : Evaluate(r, d, t)
               \/ \E put \in {Keep, "other"} : Reload(r, d, put)
        PROVE  ApprovalsApart'
    <3>1. PICK x \in Tx : tx' = [tx EXCEPT ![r] = x] /\ x.pc # "flush" /\ exc' = exc
      BY <2>3, ReloadSteps, EvaluateSteps
    <3> QED
      BY <1>0, <3>1
  <2>4. CASE Abort(r)
    BY <1>0, <2>4 DEF Abort, Idle
  <2> QED
    BY <1>1, <2>1, <2>2, <2>3, <2>4 DEF Arrive
<1>2. ASSUME NEW r \in Requests, Guard(r) PROVE ApprovalsApart'
  <2> DEFINE p == IF tx[r].from = "approved" THEN "device" ELSE "flush"
             v == IF tx[r].op = "approve" THEN "exception_approved" ELSE tx[r].put
             x == [tx[r] EXCEPT !.pc = p, !.won = tx[r].won \cup {tx[r].exc}, !.put = v]
  <2>1. tx' = [tx EXCEPT ![r] = x] /\ exc' = exc
    BY <1>2 DEF Guard
  <2>2. x.op = tx[r].op /\ x.exc = tx[r].exc
    BY <1>a DEF Tx
  <2>3. CASE tx[r].op # "approve"
    BY <1>0, <2>1, <2>2, <2>3
  <2>4. CASE tx[r].op = "approve"
    <3>1. tx'[r] = x /\ \A q \in Requests : q # r => tx'[q] = tx[q]
      BY <2>1 DEF TypeOK
    <3>2. ~ Duplicate(tx[r].exc) /\ IndexSettled(r, tx[r].exc)
      BY <1>2, <2>4 DEF Guard
    <3>3. \A f \in Exceptions : exc[f].state = "approved" => exc[f].key # exc[tx[r].exc].key
      BY <3>2 DEF Duplicate
    <3>4. \A q \in Requests \ {r} : Approving(q) => exc[tx[q].exc].key # exc[tx[r].exc].key
      <4> TAKE q \in Requests \ {r}
      <4> SUFFICES ASSUME Approving(q) PROVE exc[tx[q].exc].key # exc[tx[r].exc].key
        OBVIOUS
      <4>1. tx[q].exc \in tx[q].won
        BY ApprovingFacts
      <4>2. ~ IndexBusy(q, tx[r].exc)
        BY <3>2 DEF IndexSettled
      <4> QED
        BY <4>1, <4>2 DEF IndexBusy, Approving
    <3>5. \A q \in Requests : q # r => (Approving(q)' <=> Approving(q))
      BY <3>1 DEF Approving
    <3> HIDE DEF x
    <3> QED
      BY <2>1, <2>2, <3>1, <3>3, <3>4, <3>5 DEF ApprovalsApart
  <2> QED
    BY <2>3, <2>4
<1>3. ASSUME NEW r \in Requests, GuardLost(r) PROVE ApprovalsApart'
  <2> DEFINE x == [tx[r] EXCEPT !.pc = "sweep", !.exc = None]
  <2>1. x.pc = "sweep" /\ Idle.pc = "idle"
    BY <1>a DEF Tx, Idle
  <2>2. exc' = exc /\ (tx' = [tx EXCEPT ![r] = x] \/ tx' = [tx EXCEPT ![r] = Idle])
    BY <1>3 DEF GuardLost
  <2> HIDE DEF x
  <2> QED
    BY <1>0, <2>1, <2>2
<1>4. ASSUME NEW r \in Requests, ReadDevice(r) PROVE ApprovalsApart'
  <2>1. PICK s, v, x :
           /\ tx' = [tx EXCEPT ![r] = x] /\ exc' = exc
           /\ \/ x = [tx[r] EXCEPT !.pc = "sweep", !.exc = None, !.seen = s, !.put = v]
              \/ x = [tx[r] EXCEPT !.pc = "flush", !.put = v]
    BY <1>4 DEF ReadDevice
  <2>2. tx[r].op # "approve"
    BY <1>4 DEF ReadDevice, ReqInv, DecideInv, DecideOps
  <2>3. x.op = tx[r].op
    BY <1>a, <2>1 DEF Tx
  <2> QED
    BY <1>0, <2>1, <2>2, <2>3
<1>5. ASSUME NEW r \in Requests, NEW e \in Exceptions, ExpireNext(r, e) PROVE ApprovalsApart'
  <2> DEFINE x == [tx[r] EXCEPT !.pc = "guard", !.exc = e, !.from = "approved",
                                !.todo = tx[r].todo \ {e}]
  <2>1. x.pc # "flush"
    BY <1>a DEF Tx
  <2> QED
    BY <1>0, <1>5, <2>1 DEF ExpireNext
<1>6. ASSUME NEW r \in Requests, Finishes(r) PROVE ApprovalsApart'
  <2>1. PICK x \in Tx : tx' = [tx EXCEPT ![r] = x] /\ x.op = tx[r].op
    BY <1>6, FinishSteps
  <2>2. exc' = exc /\ tx[r].pc = "sweep"
    BY <1>6, FinishSteps
  <2>3. tx[r].op # "approve"
    BY <2>2 DEF ReqInv, DecideInv, DecideOps
  <2> QED
    BY <1>0, <2>1, <2>2, <2>3
<1>7. ASSUME NEW r \in Requests, Flush(r) PROVE ApprovalsApart'
  <2> DEFINE x == [tx[r] EXCEPT !.held = TRUE]
  <2>1. x.pc = tx[r].pc /\ x.op = tx[r].op /\ x.exc = tx[r].exc
    BY <1>a DEF Tx
  <2> QED
    BY <1>0, <1>7, <2>1 DEF Flush, Approving
<1>8. ASSUME NEW r \in Requests, Commit(r) PROVE ApprovalsApart'
  <2>1. tx'[r] = Idle /\ \A q \in Requests : q # r => tx'[q] = tx[q]
    BY <1>8 DEF Commit, TypeOK
  <2>2. ASSUME NEW q \in Requests, Approving(q)' PROVE q # r /\ Approving(q) /\ tx'[q] = tx[q]
    BY <2>1, <2>2 DEF Approving, Idle
  <2>3. ASSUME NEW q \in Requests, Approving(q), q # r PROVE exc'[tx[q].exc] = exc[tx[q].exc]
    <3>1. tx[q].exc \in Exceptions /\ tx[q].exc \in tx[q].won
      BY <2>3, ApprovingFacts
    <3>2. tx[q].exc \notin tx[r].won
      BY <2>3, <3>1 DEF RowsExclusive
    <3>3. exc[tx[q].exc].state # "none"
      BY <2>3 DEF ReqInv, DecideInv, Approving, DecideOps
    <3> QED
      BY <1>8, <3>1, <3>2, <3>3, CommitRows DEF CommitsRow
  <2>4. ASSUME NEW q \in Requests, Approving(q), q # r,
               NEW f \in Exceptions, exc'[f].state = "approved"
        PROVE  exc'[f].key # exc[tx[q].exc].key
    <3>1. CASE exc'[f] = exc[f]
      BY <2>4, <3>1 DEF ApprovalsApart
    <3>2. CASE tx[r].op = "file" /\ exc'[f] = tx[r].new
      BY <2>4, <3>2 DEF ReqInv, FileInv
    <3>3. CASE f \in tx[r].won /\ exc'[f].state = Target(tx[r].op) /\ exc'[f].key = exc[f].key
               /\ tx[r].op \in DecideOps \cup {"evaluate"}
      <4>1. tx[r].op = "approve"
        BY <2>4, <3>3 DEF Target, DecideOps
      <4>2. f = tx[r].exc /\ Approving(r)
        BY <1>8, <3>3, <4>1, WonFacts DEF ReqInv, DecideInv, DecideOps, Approving
      <4> QED
        BY <2>4, <3>3, <4>2 DEF ApprovalsApart
    <3> QED
      BY <1>8, <3>1, <3>2, <3>3, CommitRows DEF CommitsRow
  <2> QED
    BY <2>1, <2>2, <2>3, <2>4 DEF ApprovalsApart
<1>9. CASE Tick \/ (\E d \in Devices : OtherWriter(d)) \/ UNCHANGED vars
  <2>1. tx' = tx /\ exc' = exc
    BY <1>9 DEF Tick, OtherWriter, vars
  <2> QED
    BY <2>1 DEF ApprovalsApart, Approving
<1> QED
  BY <1>1, <1>2, <1>3, <1>4, <1>5, <1>6, <1>7, <1>8, <1>9 DEF Next, Step, Finishes


\* Whoever closes the exception that excuses a device reads the device after it won, and
\* so either puts it back or was not the last to write it.
LEMMA StepExcused ==
    TypeOK /\ RowsExclusive /\ (\A q \in Requests : ReqInv(q)) /\ Excused /\ [Next]_vars
        => Excused'
<1> SUFFICES ASSUME TypeOK, RowsExclusive, \A q \in Requests : ReqInv(q), Excused, [Next]_vars
             PROVE  Excused'
  OBVIOUS
<1>a. \A r \in Requests : tx[r] \in Tx
  BY DEF TypeOK
\* A step of r that forgets no write it owes and takes no approved row unread.
<1>0. ASSUME NEW r \in Requests, NEW x, tx' = [tx EXCEPT ![r] = x], exc' = exc, life' = life,
             \A e \in x.won :
                 \/ x.pc = "device" \/ x.put # Keep
                 \/ exc[e].state # "approved"
                 \/ life[DeviceOf(e)] # "exception_approved"
                 \/ e \in tx[r].won /\ tx[r].pc # "device" /\ tx[r].put = Keep
      PROVE  Excused'
  <2>1. tx'[r] = x /\ \A q \in Requests : q # r => tx'[q] = tx[q]
    BY <1>0 DEF TypeOK
  <2>2. ASSUME NEW d \in Devices, life[d] = "exception_approved", NEW e \in Exceptions,
               Honoured(e, d)
        PROVE  Honoured(e, d)'
    <3>1. exc'[e].state = "approved" /\ exc'[e].key[1] = d
      BY <1>0, <2>2 DEF Honoured, DeviceOf
    <3>2. ASSUME NEW q \in Requests, e \in tx'[q].won
          PROVE  tx'[q].pc = "device" \/ tx'[q].put # Keep
      BY <1>0, <2>1, <2>2, <3>2 DEF Honoured
    <3> QED
      BY <3>1, <3>2 DEF Honoured, DeviceOf
  <2> QED
    BY <1>0, <2>2 DEF Excused
<1>1. ASSUME NEW r \in Requests, Arrive(r) \/ Abort(r) PROVE Excused'
  <2>1. ASSUME NEW e \in Exceptions, NEW u \in Filers, NEW d \in Devices, NEW b \in Blockers,
               NEW t \in Time, File(r, e, u, d, b, t)
        PROVE  Excused'
    <3> DEFINE n == [state |-> "pending_review", key |-> <<d, b>>, filed_by |-> u,
                     approved_by |-> None, expires_at |-> t]
               x == [Idle EXCEPT !.pc = "insert", !.op = "file", !.exc = e, !.new = n]
    <3>1. x.won = {}
      BY DEF Idle
    <3>2. tx' = [tx EXCEPT ![r] = x] /\ exc' = exc /\ life' = life
      BY <2>1 DEF File
    <3> HIDE DEF x
    <3> QED
      BY <1>0, <3>1, <3>2
  <2>2. ASSUME NEW op, NEW e \in Exceptions, NEW u \in Users, Begin(r, op, e, u)
        PROVE  Excused'
    <3> DEFINE x == [Idle EXCEPT !.pc = "guard", !.op = op, !.exc = e,
                                 !.actor = IF op = "approve" THEN u ELSE None,
                                 !.from = exc[e].state, !.dev = DeviceOf(e)]
    <3>1. x.won = {}
      BY DEF Idle
    <3>2. tx' = [tx EXCEPT ![r] = x] /\ exc' = exc /\ life' = life
      BY <2>2 DEF Begin
    <3> HIDE DEF x
    <3> QED
      BY <1>0, <3>1, <3>2
  <2>3. ASSUME NEW d \in Devices,
               \/ \E t \in Time : Evaluate(r, d, t)
               \/ \E put \in {Keep, "other"} : Reload(r, d, put)
        PROVE  Excused'
    <3>1. PICK x \in Tx : tx' = [tx EXCEPT ![r] = x] /\ x.won = {} /\ exc' = exc /\ life' = life
      BY <2>3, ReloadSteps, EvaluateSteps
    <3> QED
      BY <1>0, <3>1
  <2>4. CASE Abort(r)
    <3>1. Idle.won = {}
      BY DEF Idle
    <3> QED
      BY <1>0, <2>4, <3>1 DEF Abort
  <2> QED
    BY <1>1, <2>1, <2>2, <2>3, <2>4 DEF Arrive
<1>2. ASSUME NEW r \in Requests, Guard(r) PROVE Excused'
  <2> DEFINE p == IF tx[r].from = "approved" THEN "device" ELSE "flush"
             v == IF tx[r].op = "approve" THEN "exception_approved" ELSE tx[r].put
             x == [tx[r] EXCEPT !.pc = p, !.won = tx[r].won \cup {tx[r].exc}, !.put = v]
  <2>1. tx' = [tx EXCEPT ![r] = x] /\ exc' = exc /\ life' = life
    BY <1>2 DEF Guard
  <2>2. x.won = tx[r].won \cup {tx[r].exc} /\ x.pc = p
    BY <1>a DEF Tx
  <2>3. CASE tx[r].from = "approved"
    BY <1>0, <2>1, <2>2, <2>3
  <2>4. CASE tx[r].from # "approved"
    <3>1. tx[r].op \in DecideOps
      BY <1>2, <1>a, <2>4 DEF Guard, ReqInv, Common, FileInv, SweepInv, Tx, Ops, DecideOps, Idle
    <3>2. tx[r].won = {} /\ exc[tx[r].exc].state # "approved"
      BY <1>2, <2>4, <3>1 DEF Guard, ReqInv, DecideInv
    <3>3. \A e \in x.won : exc[e].state # "approved"
      BY <2>2, <3>2
    <3>4. tx' = [tx EXCEPT ![r] = x] /\ exc' = exc /\ life' = life
      BY <2>1
    <3> HIDE DEF x
    <3> QED
      BY <1>0, <3>3, <3>4
  <2> QED
    BY <2>3, <2>4
<1>3. ASSUME NEW r \in Requests, GuardLost(r) PROVE Excused'
  <2> DEFINE x == [tx[r] EXCEPT !.pc = "sweep", !.exc = None]
  <2>1. x.won = tx[r].won /\ x.put = tx[r].put /\ tx[r].pc # "device" /\ Idle.won = {}
    BY <1>3, <1>a DEF Tx, Idle, GuardLost
  <2>2. exc' = exc /\ life' = life
        /\ (tx' = [tx EXCEPT ![r] = x] \/ tx' = [tx EXCEPT ![r] = Idle])
    BY <1>3 DEF GuardLost
  <2> HIDE DEF x
  <2> QED
    BY <1>0, <2>1, <2>2
<1>4. ASSUME NEW r \in Requests, ReadDevice(r) PROVE Excused'
  <2> DEFINE v == IF View(r) = "exception_approved" THEN "blocked" ELSE tx[r].put
  <2>1. PICK s, x :
           /\ tx' = [tx EXCEPT ![r] = x] /\ exc' = exc /\ life' = life
           /\ \/ x = [tx[r] EXCEPT !.pc = "sweep", !.exc = None, !.seen = s, !.put = v]
              \/ x = [tx[r] EXCEPT !.pc = "flush", !.put = v]
    BY <1>4 DEF ReadDevice, Released
  <2>2. x.won = tx[r].won /\ x.put = v
    <3> HIDE DEF v
    <3> QED
      BY <1>a, <2>1 DEF Tx
  <2>3. ASSUME NEW e \in tx[r].won
        PROVE  v # Keep \/ life[DeviceOf(e)] # "exception_approved"
    BY WonFacts DEF View, Keep
  <2>4. \A e \in x.won : x.put # Keep \/ life[DeviceOf(e)] # "exception_approved"
    BY <2>2, <2>3
  <2>5. tx' = [tx EXCEPT ![r] = x] /\ exc' = exc /\ life' = life
    BY <2>1
  <2> QED
    BY <1>0, <2>4, <2>5
<1>5. ASSUME NEW r \in Requests, NEW e \in Exceptions, ExpireNext(r, e) PROVE Excused'
  <2> DEFINE x == [tx[r] EXCEPT !.pc = "guard", !.exc = e, !.from = "approved",
                                !.todo = tx[r].todo \ {e}]
  <2>1. x.won = tx[r].won /\ x.put = tx[r].put /\ tx[r].pc # "device"
    BY <1>5, <1>a DEF Tx, ExpireNext
  <2>2. tx' = [tx EXCEPT ![r] = x] /\ exc' = exc /\ life' = life
    BY <1>5 DEF ExpireNext
  <2> HIDE DEF x
  <2> QED
    BY <1>0, <2>1, <2>2
<1>6. ASSUME NEW r \in Requests, Finishes(r) PROVE Excused'
  <2>1. PICK x \in Tx : /\ tx' = [tx EXCEPT ![r] = x] /\ x.won = tx[r].won
                       /\ x.put \in {tx[r].put, "blocked", "other"}
    BY <1>6, FinishSteps
  <2>2. exc' = exc /\ life' = life /\ tx[r].pc = "sweep"
    BY <1>6, FinishSteps
  <2>3. x.put # Keep \/ tx[r].put = Keep
    BY <2>1 DEF Keep
  <2> QED
    BY <1>0, <2>1, <2>2, <2>3
<1>7. ASSUME NEW r \in Requests, Flush(r) PROVE Excused'
  <2> DEFINE x == [tx[r] EXCEPT !.held = TRUE]
  <2>1. x.won = tx[r].won /\ x.pc = tx[r].pc /\ x.put = tx[r].put
    BY <1>a DEF Tx
  <2>2. tx' = [tx EXCEPT ![r] = x] /\ exc' = exc /\ life' = life /\ tx[r].put # Keep
    BY <1>7 DEF Flush, Unflushed
  <2> HIDE DEF x
  <2> QED
    BY <1>0, <2>1, <2>2
<1>8. ASSUME NEW r \in Requests, Commit(r) PROVE Excused'
  <2>1. tx'[r] = Idle /\ Idle.won = {} /\ \A q \in Requests : q # r => tx'[q] = tx[q]
    BY <1>8 DEF Commit, TypeOK, Idle
  <2> SUFFICES ASSUME NEW d \in Devices, life'[d] = "exception_approved"
               PROVE  \E e \in Exceptions : Honoured(e, d)'
    BY DEF Excused
  <2>2. life'[d] = IF d = tx[r].dev THEN View(r) ELSE life[d]
    BY <1>8 DEF Commit
  <2>3. CASE d = tx[r].dev /\ tx[r].put # Keep
    <3>1. tx[r].put = "exception_approved"
      BY <2>2, <2>3 DEF View
    <3>2. tx[r].op = "approve"
      BY <3>1 DEF ReqInv, Common
    <3>3. Approving(r)
      BY <1>8, <3>2 DEF Approving, Commit, ReqInv, DecideInv, DecideOps
    <3> DEFINE e == tx[r].exc
    <3>4. e \in Exceptions /\ e \in tx[r].won
      BY <3>3, ApprovingFacts
    <3>5. DeviceOf(e) = d
      BY <2>3, <3>2 DEF ReqInv, DecideInv, DecideOps
    <3>6. exc'[e].state = "approved" /\ exc'[e].key = exc[e].key
      BY <1>8, <3>2, <3>4, CommitRows DEF CommitsRow, Target
    <3>7. \A q \in Requests : e \notin tx'[q].won
      BY <2>1, <3>4 DEF RowsExclusive
    <3> QED
      BY <3>4, <3>5, <3>6, <3>7 DEF Honoured, DeviceOf
  <2>4. CASE ~ (d = tx[r].dev /\ tx[r].put # Keep)
    <3>1. life[d] = "exception_approved"
      BY <2>2, <2>4 DEF View
    <3>2. PICK e \in Exceptions : Honoured(e, d)
      BY <3>1 DEF Excused
    <3>3. e \notin tx[r].won
      BY <1>8, <2>4, <3>2, WonFacts DEF Honoured, Commit
    <3>4. exc'[e] = exc[e]
      BY <1>8, <3>2, <3>3, CommitRows DEF CommitsRow, Honoured
    <3> QED
      BY <2>1, <3>2, <3>4 DEF Honoured, DeviceOf
  <2> QED
    BY <2>3, <2>4
<1>9. CASE Tick \/ (\E d \in Devices : OtherWriter(d)) \/ UNCHANGED vars
  <2>1. exc' = exc /\ tx' = tx
    BY <1>9 DEF Tick, OtherWriter, vars
  <2>2. \A d \in Devices : life'[d] = "exception_approved" => life[d] = "exception_approved"
    BY <1>9 DEF Tick, OtherWriter, vars, TypeOK
  <2> QED
    BY <2>1, <2>2 DEF Excused, Honoured, DeviceOf
<1> QED
  BY <1>1, <1>2, <1>3, <1>4, <1>5, <1>6, <1>7, <1>8, <1>9 DEF Next, Step, Finishes

-----------------------------------------------------------------------------
(***************************************************************************)
(* The invariant holds of every behaviour.                                 *)
(***************************************************************************)

\* The initial states satisfy the invariant: no request and no exception is there.
LEMMA InitInv == Init => IInv
<1> SUFFICES ASSUME Init PROVE IInv
  OBVIOUS
<1>1. Idle.won = {} /\ Idle.op = "none"
  BY DEF Idle
<1>2. \A r \in Requests : tx[r] = Idle /\ tx[r].won = {} /\ tx[r].op = "none"
  BY <1>1 DEF Init
<1>3. RowsExclusive /\ ApprovalsApart
  BY <1>2 DEF RowsExclusive, ApprovalsApart, Approving
<1>4. RowsKeyed
  BY DEF Init, NoRow, RowsKeyed
<1>5. \A r \in Requests : ReqInv(r)
  BY <1>2, IdleInv
<1>6. Excused
  BY DEF Init, Excused
<1> QED
  BY <1>3, <1>4, <1>5, <1>6, InitType DEF IInv

\* Every step keeps the invariant.
LEMMA StepInv == IInv /\ [Next]_vars => IInv'
BY StepType, NextReq, StepRows, StepKeyed, StepApart, StepExcused DEF IInv

\* The inductive invariant is an invariant.
THEOREM Invariance == Spec => []IInv
BY InitInv, StepInv, PTL DEF Spec

\* Every variable has its type in every reachable state.
THEOREM TypeCorrect == Spec => []TypeOK
<1>1. IInv => TypeOK
  BY DEF IInv
<1> QED
  BY <1>1, Invariance, PTL

\* A device is exception_approved only while one of its exceptions is approved.
THEOREM ExcusesAreApproved == Spec => []ExceptionApprovedHasException
<1>1. IInv => ExceptionApprovedHasException
  BY DEF IInv, Excused, Honoured, ExceptionApprovedHasException
<1> QED
  BY <1>1, Invariance, PTL

-----------------------------------------------------------------------------
(***************************************************************************)
(* What an evaluation leaves behind, and who can deadlock.                 *)
(***************************************************************************)

\* An evaluation that commits leaves none of the exceptions it found overdue approved.
THEOREM OverdueExpires == Spec => EvaluationExpiresOverdue
<1> DEFINE A == \A r \in Requests : Commit(r) =>
                    \A e \in tx[r].overdue : exc'[e].state # "approved"
<1>1. IInv => A
  <2> SUFFICES ASSUME IInv, NEW r \in Requests, Commit(r), NEW e \in tx[r].overdue
               PROVE  exc'[e].state # "approved"
    OBVIOUS
  <2>1. tx[r] \in Tx /\ ReqInv(r) /\ TypeOK /\ e \in Exceptions
    BY DEF IInv, TypeOK, Tx
  <2>2. tx[r].op = "evaluate"
    BY <2>1 DEF Commit, ReqInv, Common, FileInv, DecideInv, Tx, Ops, DecideOps, Idle
  <2>3. tx[r].pc = "flush" /\ tx[r].todo = {}
    BY <2>1, <2>2 DEF Commit, ReqInv, SweepInv
  <2>4. CASE e \in tx[r].won
    <3>1. exc'[e].state = Target(tx[r].op)
      BY <2>1, <2>2, <2>4, CommitRows DEF CommitsRow
    <3> QED
      BY <2>2, <3>1 DEF Target
  <2>5. CASE e \notin tx[r].won
    <3>1. exc[e].state # "approved"
      BY <2>1, <2>2, <2>3, <2>5 DEF ReqInv, SweepInv
    <3>2. exc'[e] = exc[e]
      BY <2>1, <2>2, <2>5, CommitRows DEF CommitsRow
    <3> QED
      BY <3>1, <3>2
  <2> QED
    BY <2>4, <2>5
<1> QED
  BY <1>1, Invariance, PTL DEF EvaluationExpiresOverdue

\* A request that waits for an exception while it owes the device a write or holds
\* another exception is an evaluation: F2 wrote the device before it, in the same reload,
\* or it has found two exceptions overdue.
LEMMA SecondRow ==
    ASSUME IInv, NEW r \in Requests, tx[r].pc = "guard", tx[r].put # Keep \/ tx[r].won # {}
    PROVE  tx[r].op = "evaluate" /\ (Cardinality(tx[r].overdue) > 1 \/ tx[r].put = "other")
<1>1. tx[r] \in Tx /\ ReqInv(r)
  BY DEF IInv, TypeOK
<1>2. tx[r].op = "evaluate"
  BY <1>1 DEF ReqInv, Common, FileInv, DecideInv, Tx, Ops, DecideOps, Idle
<1> SUFFICES ASSUME tx[r].put # "other" PROVE Cardinality(tx[r].overdue) > 1
  BY <1>2
<1>3. tx[r].won # {} /\ tx[r].won \subseteq tx[r].overdue
      /\ tx[r].exc \in tx[r].overdue /\ tx[r].exc \notin tx[r].won
  <2>1. tx[r].put # "exception_approved" /\ tx[r].put \in Lifecycle \cup {Keep}
    BY <1>1, <1>2 DEF ReqInv, Common, Tx
  <2> QED
    BY <1>1, <1>2, <2>1 DEF ReqInv, SweepInv, Lifecycle
<1>4. PICK e \in tx[r].won : e \in tx[r].overdue
  BY <1>3
<1> DEFINE f == tx[r].exc
           A == {e}
           S == A \cup {f}
<1>5. IsFiniteSet(tx[r].overdue)
  BY <1>1, ConstantsAssumption, FS_Subset DEF Tx
<1>6. IsFiniteSet(A) /\ Cardinality(A) = 1
  BY FS_Singleton
<1>7. f \notin A
  BY <1>3, <1>4
<1>8. Cardinality(S) = 2
  <2> HIDE DEF A, f
  <2>1. Cardinality(A \cup {f}) = Cardinality(A) + 1
    BY <1>6, <1>7, FS_AddElement
  <2> QED
    BY <1>6, <2>1
<1>9. S \in SUBSET tx[r].overdue
  BY <1>3, <1>4
<1>10. Cardinality(S) <= Cardinality(tx[r].overdue)
  BY <1>5, <1>9, FS_Subset
<1>11. Cardinality(tx[r].overdue) \in Nat
  BY <1>5, FS_CardinalityType
<1> QED
  BY <1>2, <1>8, <1>10, <1>11

\* Whoever is waited for owes the device a write or holds an exception.
LEMMA WaitedFor ==
    ASSUME IInv, NEW p \in Requests, NEW q \in Requests, WaitsFor(p, q)
    PROVE  /\ tx[q].put # Keep \/ tx[q].won # {}
           /\ tx[p].pc = "guard" \/ (Unflushed(p) /\ tx[q].held)
<1>1. Common(q)
  BY DEF IInv, ReqInv
<1> QED
  BY <1>1 DEF WaitsFor, IndexBusy, Common

\* Two requests block each other only when one is an evaluation that waits for an
\* exception and has either found two of them overdue or follows F2's write in a reload.
THEOREM LockOrder == Spec => []LockCycleNeedsSweep
<1>1. IInv => LockCycleNeedsSweep
  <2> SUFFICES ASSUME IInv, NEW p \in Requests, NEW q \in Requests,
                      WaitsFor(p, q), WaitsFor(q, p)
               PROVE  \E r \in {p, q} :
                         /\ tx[r].op = "evaluate" /\ tx[r].pc = "guard"
                         /\ Cardinality(tx[r].overdue) > 1 \/ tx[r].put = "other"
    BY DEF LockCycleNeedsSweep
  <2>1. CASE tx[p].pc = "guard"
    BY <2>1, WaitedFor, SecondRow
  <2>2. CASE tx[q].pc = "guard"
    BY <2>2, WaitedFor, SecondRow
  <2>3. CASE tx[p].pc # "guard" /\ tx[q].pc # "guard"
    BY <2>3, WaitedFor DEF Unflushed
  <2> QED
    BY <2>1, <2>2, <2>3
<1> QED
  BY <1>1, Invariance, PTL

-----------------------------------------------------------------------------
(***************************************************************************)
(* The requests implement ExceptionLifecycle.                              *)
(***************************************************************************)

\* The initial state maps to the initial state of the abstract specification.
LEMMA InitRefines == Init => Abstract!Init
BY DEF Init, Abstract!Init, NoRow

\* A commit is one move of the abstract specification.
LEMMA CommitRefines ==
    ASSUME IInv, NEW r \in Requests, Commit(r)
    PROVE  Abstract!Next
<1>1. tx[r] \in Tx /\ ReqInv(r) /\ TypeOK /\ clock' = clock
  BY DEF IInv, TypeOK, Commit
<1>2. tx[r].op \in Ops
  BY <1>1 DEF Commit, ReqInv, Common, Tx, Idle
<1>3. \A e \in Exceptions : CommitsRow(r, e)
  BY <1>1, CommitRows
<1> DEFINE e0 == tx[r].exc
<1>4. CASE tx[r].op = "file"
  <2> DEFINE n == tx[r].new
  <2>1. /\ e0 \in Exceptions /\ exc[e0].state = "none" /\ exc[e0].approved_by = None
        /\ n.state = "pending_review" /\ n.key \in Keys
        /\ n.filed_by \in Users /\ n.expires_at \in Time /\ n.approved_by = None
    BY <1>1, <1>4 DEF ReqInv, FileInv, IInv, RowsKeyed, Tx, Row
  <2>2. exc'[e0] = n
    BY <1>3, <1>4, <2>1 DEF CommitsRow, DecideOps, ReqInv, FileInv, Commit
  <2>3. \A e \in Exceptions : e # e0 => exc'[e] = exc[e]
    BY <1>3, <1>4 DEF CommitsRow, DecideOps
  <2>4. PICK e \in Exceptions, k \in Keys, u \in Users, t \in Time :
            e = e0 /\ k = n.key /\ u = n.filed_by /\ t = n.expires_at
    BY <2>1
  <2>5. Abstract!File(e, k, u, t)
    BY <1>1, <2>1, <2>2, <2>3, <2>4 DEF Abstract!File
  <2> QED
    BY <2>5 DEF Abstract!Next
<1>5. CASE tx[r].op \in DecideOps
  <2>1. e0 \in Exceptions /\ tx[r].won = {e0}
    BY <1>1, <1>5 DEF ReqInv, DecideInv, Commit
  <2>2. /\ <<exc[e0].state, Target(tx[r].op)>> \in ExceptionEdges
        /\ exc'[e0].state = Target(tx[r].op)
        /\ exc'[e0].approved_by = IF tx[r].op = "approve" THEN tx[r].actor
                                  ELSE exc[e0].approved_by
        /\ exc'[e0].key = exc[e0].key /\ exc'[e0].filed_by = exc[e0].filed_by
        /\ exc'[e0].expires_at = exc[e0].expires_at
    BY <1>3, <1>5, <2>1 DEF CommitsRow, DecideOps
  <2>3. \A e \in Exceptions : e # e0 => exc'[e] = exc[e]
    BY <1>3, <1>5, <2>1 DEF CommitsRow, DecideOps
  <2>4. CASE tx[r].op = "approve"
    <3>1. tx[r].actor \in Users /\ tx[r].actor # exc[e0].filed_by /\ Approving(r)
      BY <1>1, <2>4 DEF ReqInv, DecideInv, DecideOps, Approving, Commit
    <3>2. \A f \in Exceptions : exc[f].state = "approved" => exc[f].key # exc[e0].key
      BY <3>1 DEF IInv, ApprovalsApart
    <3>3. PICK e \in Exceptions, u \in Users : e = e0 /\ u = tx[r].actor
      BY <2>1, <3>1
    <3>4. Abstract!Approve(e, u)
      BY <1>1, <2>1, <2>2, <2>3, <2>4, <3>1, <3>2, <3>3
      DEF Abstract!Approve, Abstract!ExceptionEdges, ExceptionEdges, Target
    <3> QED
      BY <3>4 DEF Abstract!Next
  <2>5. CASE tx[r].op # "approve"
    <3>1. Target(tx[r].op) \in {"rejected", "withdrawn"}
      BY <1>5, <2>5 DEF Target, DecideOps
    <3>2. PICK e \in Exceptions, to \in Abstract!ExceptionState :
              e = e0 /\ to = Target(tx[r].op)
      BY <2>1, <3>1 DEF Abstract!ExceptionState
    <3>3. Abstract!Close(e, to)
      BY <1>1, <2>1, <2>2, <2>3, <2>5, <3>1, <3>2
      DEF Abstract!Close, Abstract!ExceptionEdges, ExceptionEdges
    <3> QED
      BY <3>3 DEF Abstract!Next
  <2> QED
    BY <2>4, <2>5
<1>6. CASE tx[r].op = "evaluate"
  <2>1. tx[r].won \in SUBSET Exceptions
    BY <1>1 DEF Tx
  <2>2. ASSUME NEW e \in Exceptions
        PROVE  /\ e \in tx[r].won => /\ <<exc[e].state, "expired">> \in ExceptionEdges
                                     /\ exc[e].expires_at < clock
                                     /\ exc'[e].state = "expired"
               /\ e \notin tx[r].won => exc'[e].state = exc[e].state
               /\ exc'[e].key = exc[e].key /\ exc'[e].filed_by = exc[e].filed_by
               /\ exc'[e].approved_by = exc[e].approved_by
               /\ exc'[e].expires_at = exc[e].expires_at
    <3>1. e \in tx[r].won => exc[e].expires_at < clock
      BY <1>1, <1>6 DEF ReqInv, SweepInv
    <3>2. Target(tx[r].op) = "expired"
      BY <1>6 DEF Target
    <3> QED
      BY <1>3, <1>6, <3>1, <3>2 DEF CommitsRow
  <2>3. PICK S \in SUBSET Exceptions : S = tx[r].won
    BY <2>1
  <2>4. Abstract!Expire(S)
    BY <1>1, <2>2, <2>3 DEF Abstract!Expire, Abstract!ExceptionEdges, ExceptionEdges
  <2> QED
    BY <2>4 DEF Abstract!Next
<1> QED
  BY <1>2, <1>4, <1>5, <1>6 DEF Ops, DecideOps

\* Every step is a move of the abstract specification or changes nothing it sees.
LEMMA StepRefines == IInv /\ [Next]_vars => [Abstract!Next]_(Abstract!vars)
<1> SUFFICES ASSUME IInv, [Next]_vars PROVE [Abstract!Next]_(Abstract!vars)
  OBVIOUS
<1>1. CASE \E r \in Requests : Commit(r)
  BY <1>1, CommitRefines
<1>2. CASE exc' = exc
  <2>1. clock' = clock \/ Tick
    <3>1. ASSUME NEW r \in Requests, Arrive(r) \/ Step(r) \/ Abort(r) PROVE clock' = clock
      BY <3>1 DEF Arrive, Step, Abort, File, Begin, Reload, Evaluate, Guard, GuardLost,
                  ReadDevice, ExpireNext, PassOver, Decide, Flush, Commit
    <3> QED
      BY <3>1 DEF Next, OtherWriter, vars
  <2>2. CASE clock' = clock
    BY <1>2, <2>2 DEF Abstract!vars
  <2>3. CASE Tick
    <3>1. Abstract!Tick
      BY <1>2, <2>3 DEF Tick, Abstract!Tick
    <3> QED
      BY <3>1 DEF Abstract!Next
  <2> QED
    BY <2>1, <2>2, <2>3
<1> QED
  BY <1>1, <1>2, OnlyCommits

\* The committed exceptions behave as ExceptionLifecycle says, whatever the requests do.
THEOREM Refinement == Spec => ImplementsExceptionLifecycle
<1>1. Init => Abstract!Init
  BY InitRefines
<1> QED
  BY <1>1, StepRefines, Invariance, PTL DEF Spec, ImplementsExceptionLifecycle, Abstract!Spec
=====================================================================================
