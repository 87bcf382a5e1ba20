-------------------------- MODULE DeviceEvaluation_proofs --------------------------
(***************************************************************************)
(* Proofs about DeviceEvaluation, for every set of versions, rules,        *)
(* catalogues and requests and every bound.  The private state of a        *)
(* request is worth something against the committed rows only while nobody *)
(* else has committed: what `alone' records.                               *)
(***************************************************************************)
EXTENDS DeviceEvaluation, TLAPS

(***************************************************************************)
(* The inductive invariant.                                                *)
(***************************************************************************)

\* The row F3 leaves behind, if request r commits, is outside_target.
Outside(r) == IF tx[r].row3 # None THEN tx[r].row3.state = "outside_target"
              ELSE f3 # None /\ f3.state = "outside_target"

\* A compliance request before its F3 call, and after.
ComplianceSoFar(r) == tx[r].op = "compliance" =>
    /\ tx[r].cat = None /\ tx[r].row4 = None /\ tx[r].new = None
    /\ tx[r].put = tx[r].seen
    /\ tx[r].next \in {"F3", "commit"}
    /\ tx[r].next = "F3" => ~tx[r].held /\ tx[r].row3 = None
    /\ tx[r].next = "commit" =>
         /\ tx[r].put = F2Verdict(cat, obs)
         /\ tx[r].row3 = None => Says(f3, cat, obs)
         /\ tx[r].row3 # None => tx[r].row3 = ComplianceRow(cat, obs, day)
                                 /\ ~Says(f3, cat, obs)

\* A readiness request before its F4 call, and after.
ReadinessSoFar(r) == tx[r].op = "readiness" =>
    /\ tx[r].cat = None /\ tx[r].row3 = None /\ tx[r].new = None /\ ~tx[r].held
    /\ tx[r].next \in {"F4", "commit"}
    /\ tx[r].next = "F4" => tx[r].put = tx[r].seen /\ tx[r].row4 = None
    /\ tx[r].next = "commit" =>
         /\ tx[r].row4 = None => tx[r].put = tx[r].seen /\ f4 = ReadinessRow(f3, cat)
         /\ tx[r].row4 # None => /\ tx[r].row4 = ReadinessRow(f3, cat) /\ tx[r].row4 # f4
                                 /\ tx[r].put = LifecycleOf(tx[r].row4, tx[r].seen)

\* What a request that nothing overlapped holds.
AloneInv(r) == tx[r].op # "none" /\ tx[r].alone =>
    /\ tx[r].late = {}
    /\ ~tx[r].held => tx[r].seen = life
    /\ tx[r].next = "observe" => ~tx[r].held /\ tx[r].row3 = None
    /\ tx[r].put \in F4States => (tx[r].put = life /\ tx[r].row3 = None) \/ Outside(r)
    /\ ComplianceSoFar(r)
    /\ ReadinessSoFar(r)

IInv == TypeOK /\ VerdictOnlyOutside /\ \A r \in Requests : AloneInv(r)

---------------------------------------------------------------------------
(* The verdicts *)

\* A compliance row is a row, and says what F2 says.
LEMMA ComplianceRowType ==
  ASSUME NEW c \in Catalogue, NEW o \in Observation, NEW today \in Days
  PROVE  /\ F2Verdict(c, o) \in F2States
         /\ ComplianceRow(c, o, today) \in Row3
         /\ ComplianceRow(c, o, today).state = F2Verdict(c, o)
         /\ ComplianceRow(c, o, today).on = today
<1>1. F2Verdict(c, o) \in F2States
  BY DEF F2Verdict, F2States
<1>2. TargetVersion(c) \in Firmware /\ o.firmware \in Firmware
  BY DEF TargetVersion, Catalogue, Observation, Firmware
<1>3. DriftOf(c, o) \in SUBSET DriftReasons
  BY DEF DriftOf
<1>4. StaleAge(o, today) \in Days
  BY ConstantsAssumption DEF StaleAge, Days, Observation
<1> QED
  BY <1>1, <1>2, <1>3, <1>4 DEF ComplianceRow, Row3

\* A readiness row is a row, and a verdict only on an outside_target row.
LEMMA ReadinessRowType ==
  ASSUME NEW row \in Row3 \cup {None}, NEW c \in Catalogue
  PROVE  /\ ReadinessRow(row, c) \in Row4
         /\ ReadinessRow(row, c).state \in F4States
              => row # None /\ row.state = "outside_target"
<1>1. CASE row = None
  BY <1>1 DEF ReadinessRow, NotApplicable, Row4, F4States, Firmware
<1>2. CASE row # None /\ row.state # "outside_target"
  BY <1>2 DEF ReadinessRow, NotApplicable, Row4, Row3, F4States, Firmware
<1>3. CASE row # None /\ row.state = "outside_target"
  <2>1. BlockersOf(row, c) \in SUBSET Blockers
    BY DEF BlockersOf, Blockers, Catalogue
  <2>2. row.target \in Firmware /\ row.observed \in Firmware /\ c.applicable \in Nat
    BY <1>3 DEF Row3, Catalogue
  <2> QED
    BY <1>3, <2>1, <2>2 DEF ReadinessRow, Row4, F4States
<1> QED
  BY <1>1, <1>2, <1>3

\* What the comparison with the latest row means.
LEMMA SameSays ==
  ASSUME NEW c \in Catalogue, NEW o \in Observation, day \in Days
  PROVE  Same3(f3, ComplianceRow(c, o, day)) <=> Says(f3, c, o)
  BY DEF Same3, Says

\* A row inserted today says so today.
LEMMA FreshRowSays ==
  ASSUME NEW c \in Catalogue, NEW o \in Observation, day \in Days
  PROVE  Says(ComplianceRow(c, o, day), c, o)
<1> DEFINE row == ComplianceRow(c, o, day)
<1>1. row \in Row3 /\ row.on = day
  BY ComplianceRowType
<1>2. row # None
  BY <1>1, ConstantsAssumption
<1>3. row = [row EXCEPT !.on = row.on]
  BY <1>1 DEF Row3
<1> QED
  BY <1>2, <1>3 DEF Says

---------------------------------------------------------------------------
(* Types *)

LEMMA IdleType == Idle \in Tx
  BY DEF Idle, Tx, Lifecycle

\* The catalogue a request sees.
LEMMA ViewType ==
  ASSUME TypeOK, NEW r \in Requests
  PROVE  View(r) \in Catalogue
  BY DEF TypeOK, View, Tx

\* The rows that can be the latest.
LEMMA LatestType ==
  ASSUME TypeOK, NEW r \in Requests
  PROVE  /\ Latest(r, tx[r].row3, f3, "F3") \subseteq Row3 \cup {None}
         /\ Latest(r, tx[r].row4, f4, "F4") \subseteq Row4 \cup {None}
  BY DEF TypeOK, Latest, Tx

LEMMA CallTypes ==
  ASSUME NEW op, NEW call
  PROVE  /\ op \in Ops => FirstCall(op) \in Calls
         /\ NextCall(op, call) \in Calls \cup {"commit"}
  BY DEF Ops, FirstCall, NextCall, Calls

\* An interrupted transaction keeps everything but late and alone.
LEMMA InterruptedType ==
  ASSUME NEW t \in Tx, NEW tables \in SUBSET {"F3", "F4"}
  PROVE  /\ Interrupted(t, tables) \in Tx
         /\ Interrupted(t, tables).op = t.op
         /\ Interrupted(t, tables).op # "none" => ~Interrupted(t, tables).alone
<1>1. CASE t.op = "none"
  BY <1>1 DEF Interrupted
<1>2. CASE t.op # "none"
  <2> DEFINE late == t.late \cup tables
  <2>1. Interrupted(t, tables) = [t EXCEPT !.late = late, !.alone = FALSE]
    BY <1>2 DEF Interrupted
  <2>2. late \in SUBSET {"F3", "F4"}
    BY DEF Tx
  <2> HIDE DEF late
  <2>3. [t EXCEPT !.late = late, !.alone = FALSE] \in Tx
    BY <2>2 DEF Tx
  <2>4. /\ [t EXCEPT !.late = late, !.alone = FALSE].op = t.op
        /\ ~[t EXCEPT !.late = late, !.alone = FALSE].alone
    BY DEF Tx
  <2> QED
    BY <2>1, <2>3, <2>4
<1> QED
  BY <1>1, <1>2

LEMMA TypeInit == Init => TypeOK
<1> SUFFICES ASSUME Init PROVE TypeOK
  OBVIOUS
<1>1. day \in Days /\ cat \in Catalogue /\ life \in Lifecycle /\ serial \in BOOLEAN
  BY ConstantsAssumption DEF Init, Days, Lifecycle, F2States
<1>2. obs \in Observation
  BY ConstantsAssumption DEF Init, Observation, Firmware, Days
<1>3. changes \in 0..MaxChanges
  BY ConstantsAssumption DEF Init
<1>4. tx \in [Requests -> Tx]
  BY IdleType DEF Init
<1> QED
  BY <1>1, <1>2, <1>3, <1>4 DEF Init, TypeOK

\* A step that gives one transaction a new private state and leaves the rest.
LEMMA TypePrivate ==
  ASSUME TypeOK, NEW r \in Requests, NEW t \in Tx, tx' = [tx EXCEPT ![r] = t],
         changes' \in 0..MaxChanges,
         UNCHANGED <<day, cat, obs, life, f3, f4, serial>>
  PROVE  TypeOK'
  BY DEF TypeOK

LEMMA BegunType ==
  ASSUME TypeOK, NEW op \in Ops, NEW call \in Calls \cup {"commit"}
  PROVE  Begun(op, call) \in Tx
  BY DEF TypeOK, Begun, Idle, Tx, Calls, Ops

LEMMA AfterF2Type ==
  ASSUME NEW t \in Tx, NEW verdict \in F2States
  PROVE  /\ AfterF2(t, verdict) \in Tx
         /\ AfterF2(t, verdict).put = verdict
         /\ AfterF2(t, verdict).next = NextCall(t.op, t.next)
         /\ AfterF2(t, verdict).op = t.op /\ AfterF2(t, verdict).cat = t.cat
         /\ AfterF2(t, verdict).row3 = t.row3 /\ AfterF2(t, verdict).row4 = t.row4
         /\ AfterF2(t, verdict).new = t.new /\ AfterF2(t, verdict).late = t.late
         /\ AfterF2(t, verdict).alone = t.alone
         /\ AfterF2(t, verdict).held = (t.held \/ verdict # t.put)
         /\ AfterF2(t, verdict).seen = IF verdict = t.put THEN t.seen ELSE verdict
<1>1. NextCall(t.op, t.next) \in Calls \cup {"commit"} /\ verdict \in Lifecycle
  BY CallTypes DEF Lifecycle
<1> DEFINE n == NextCall(t.op, t.next)
           seen == IF verdict = t.put THEN t.seen ELSE verdict
           held == t.held \/ verdict # t.put
<1>2. AfterF2(t, verdict) = [t EXCEPT !.next = n, !.seen = seen, !.put = verdict, !.held = held]
  BY DEF AfterF2, After
<1>3. seen \in Lifecycle /\ held \in BOOLEAN
  BY <1>1 DEF Tx
<1> HIDE DEF n, seen, held
<1> DEFINE x == [t EXCEPT !.next = n, !.seen = seen, !.put = verdict, !.held = held]
<1>a. x \in Tx
  BY <1>1, <1>3 DEF Tx, n
<1>b. /\ x.put = verdict /\ x.next = n /\ x.held = held /\ x.seen = seen
      /\ \A f \in {"op", "cat", "row3", "row4", "new", "late", "alone"} : x[f] = t[f]
  BY DEF Tx
<1> HIDE DEF x
<1>c. AfterF2(t, verdict) = x
  BY <1>2 DEF x
<1>4. /\ AfterF2(t, verdict) \in Tx
      /\ AfterF2(t, verdict).put = verdict
      /\ AfterF2(t, verdict).next = n
      /\ AfterF2(t, verdict).held = held
      /\ AfterF2(t, verdict).seen = seen
      /\ \A f \in {"op", "cat", "row3", "row4", "new", "late", "alone"} :
           AfterF2(t, verdict)[f] = t[f]
  BY <1>a, <1>b, <1>c
<1> QED
  BY <1>4 DEF n, seen, held

LEMMA TypeStep == TypeOK /\ [Next]_vars => TypeOK'
<1> SUFFICES ASSUME TypeOK, [Next]_vars PROVE TypeOK'
  OBVIOUS
<1>1. ASSUME NEW r \in Requests, NEW op \in Ops \ {"reload", "batch"}, Begin(r, op) PROVE TypeOK'
  <2>1. Begun(op, FirstCall(op)) \in Tx
    BY CallTypes, BegunType
  <2>2. changes' \in 0..MaxChanges
    BY <1>1, ConstantsAssumption DEF Begin, Change, TypeOK
  <2> QED
    BY <1>1, <2>1, <2>2, TypePrivate DEF Begin
<1>2. ASSUME NEW r \in Requests, BeginReload(r) PROVE TypeOK'
  <2>1. PICK c \in Catalogues, narrowed \in BOOLEAN :
          tx' = [tx EXCEPT ![r] =
                  [Begun("reload", IF Affected(c, narrowed) THEN FirstCall("reload")
                                   ELSE "commit") EXCEPT !.cat = c]]
    BY <1>2 DEF BeginReload
  <2> DEFINE call == IF Affected(c, narrowed) THEN FirstCall("reload") ELSE "commit"
  <2>2. call \in Calls \cup {"commit"} /\ "reload" \in Ops
    BY CallTypes DEF Ops
  <2>3. Begun("reload", call) \in Tx /\ c \in Catalogue
    BY <2>2, BegunType, ConstantsAssumption
  <2>4. [Begun("reload", call) EXCEPT !.cat = c] \in Tx
    <3> HIDE DEF call
    <3> QED
      BY <2>3 DEF Tx
  <2>5. changes' \in 0..MaxChanges
    BY <1>2, ConstantsAssumption DEF BeginReload, Change, TypeOK
  <2> QED
    BY <1>2, <2>1, <2>4, <2>5, TypePrivate DEF BeginReload
<1>3. ASSUME NEW r \in Requests, F2(r) PROVE TypeOK'
  <2> DEFINE verdict == F2Verdict(View(r), obs)
             x == AfterF2(tx[r], verdict)
  <2>1. verdict \in F2States /\ tx[r] \in Tx
    BY ViewType, ComplianceRowType DEF TypeOK
  <2>2. x \in Tx
    BY <2>1, AfterF2Type
  <2>3. [x EXCEPT !.late = {}] \in Tx
    <3> HIDE DEF x
    <3> QED
      BY <2>2 DEF Tx
  <2> QED
    BY <1>3, <2>3, TypePrivate DEF F2, TypeOK
<1>4. ASSUME NEW r \in Requests, F3(r) PROVE TypeOK'
  <2> DEFINE row == ComplianceRow(View(r), obs, day)
             x == AfterF2(tx[r], row.state)
             new3 == IF Same3(f3, row) THEN None ELSE row
  <2>1. row \in Row3 /\ row.state \in F2States /\ tx[r] \in Tx
    BY ViewType, ComplianceRowType DEF TypeOK
  <2>2. x \in Tx /\ new3 \in Row3 \cup {None}
    BY <2>1, AfterF2Type
  <2>3. [x EXCEPT !.late = {}, !.row3 = new3] \in Tx
    <3> HIDE DEF x, new3
    <3> QED
      BY <2>2 DEF Tx
  <2> QED
    BY <1>4, <2>3, TypePrivate DEF F3, TypeOK
<1>5. ASSUME NEW r \in Requests, F4Judge(r) PROVE TypeOK'
  <2>1. PICK latest \in Latest(r, tx[r].row3, f3, "F3") :
          LET row == ReadinessRow(latest, View(r))
              fresh == ~Same4(f4, row)
          IN tx' = [tx EXCEPT ![r].next = After(tx[r]),
                              ![r].row3 = IF latest = @ THEN @ ELSE None,
                              ![r].row4 = IF fresh THEN row ELSE None,
                              ![r].put = IF fresh THEN LifecycleOf(row, @) ELSE @,
                              ![r].late = {}]
    BY <1>5 DEF F4Judge
  <2> DEFINE row == ReadinessRow(latest, View(r))
             fresh == ~Same4(f4, row)
             n == After(tx[r])
             a3 == IF latest = tx[r].row3 THEN tx[r].row3 ELSE None
             a4 == IF fresh THEN row ELSE None
             p == IF fresh THEN LifecycleOf(row, tx[r].put) ELSE tx[r].put
             x == [tx[r] EXCEPT !.next = n, !.row3 = a3, !.row4 = a4, !.put = p, !.late = {}]
  <2>2. row \in Row4
    BY <2>1, LatestType, ViewType, ReadinessRowType
  <2>3. tx[r] \in Tx
    BY DEF TypeOK
  <2>4. n \in Calls \cup {"commit"} /\ a3 \in Row3 \cup {None} /\ a4 \in Row4 \cup {None}
    BY <2>2, <2>3, CallTypes DEF After, Tx
  <2>5. p \in Lifecycle
    BY <2>2, <2>3 DEF LifecycleOf, Lifecycle, Tx, Row4
  <2>6. x \in Tx
    <3> HIDE DEF n, a3, a4, p
    <3> QED
      BY <2>3, <2>4, <2>5 DEF Tx
  <2>7. tx' = [tx EXCEPT ![r] = x]
    BY <2>1, <2>3 DEF TypeOK
  <2> HIDE DEF x
  <2> QED
    BY <1>5, <2>6, <2>7, TypePrivate DEF F4Judge, TypeOK
<1>6. ASSUME NEW r \in Requests, F4Refuse(r) \/ F4Skip(r) PROVE TypeOK'
  <2>1. CASE F4Refuse(r)
    BY <2>1, IdleType, TypePrivate DEF F4Refuse, TypeOK
  <2>2. CASE F4Skip(r)
    <3> DEFINE t == [tx[r] EXCEPT !.next = After(tx[r]),
                                  !.op = IF @ = "readiness" THEN "batch" ELSE @]
    <3>1. t \in Tx
      <4> DEFINE n  == After(tx[r])
                 op == IF tx[r].op = "readiness" THEN "batch" ELSE tx[r].op
      <4>1. n \in Calls \cup {"commit"} /\ tx[r] \in Tx
        BY CallTypes DEF After, TypeOK
      <4>2. op \in Ops \cup {"none"}
        BY <4>1 DEF Tx, Ops
      <4>3. t = [tx[r] EXCEPT !.next = n, !.op = op]
        BY <4>1 DEF Tx
      <4> HIDE DEF n, op, t
      <4> QED
        BY <4>1, <4>2, <4>3 DEF Tx
    <3>2. tx' = [tx EXCEPT ![r] = t]
      BY <2>2 DEF F4Skip, TypeOK
    <3> HIDE DEF t
    <3> QED
      BY <2>2, <3>1, <3>2, TypePrivate DEF F4Skip, TypeOK
  <2> QED
    BY <1>6, <2>1, <2>2
<1>7. ASSUME NEW r \in Requests, Observe(r) PROVE TypeOK'
  <2>1. PICK firmware \in Reported, lag \in Lags, classified \in BOOLEAN :
          LET put == IF classified /\ tx[r].seen = "imported" THEN "classified"
                     ELSE tx[r].seen
          IN /\ lag <= day
             /\ tx' = [tx EXCEPT ![r].next = After(tx[r]),
                                 ![r].seen = put, ![r].put = put, ![r].held = TRUE,
                                 ![r].new = [firmware |-> firmware, on |-> day - lag]]
    BY <1>7 DEF Observe
  <2> DEFINE put == IF classified /\ tx[r].seen = "imported" THEN "classified"
                    ELSE tx[r].seen
             n == After(tx[r])
             new == [firmware |-> firmware, on |-> day - lag]
             x == [tx[r] EXCEPT !.next = n, !.seen = put, !.put = put, !.held = TRUE,
                                !.new = new]
  <2>2. tx[r] \in Tx
    BY DEF TypeOK
  <2>3. n \in Calls \cup {"commit"} /\ put \in Lifecycle
    BY <2>2, CallTypes DEF After, Tx, Lifecycle, F2States
  <2>4. new \in Observation
    <3>1. day - lag \in Days
      BY <2>1, ConstantsAssumption DEF Days, TypeOK
    <3> QED
      BY <3>1, ConstantsAssumption DEF Observation, Firmware
  <2>5. x \in Tx
    <3> HIDE DEF n, put, new
    <3> QED
      BY <2>2, <2>3, <2>4 DEF Tx
  <2>6. tx' = [tx EXCEPT ![r] = x]
    BY <2>1, <2>2 DEF TypeOK
  <2> HIDE DEF x
  <2> QED
    BY <1>7, <2>5, <2>6, TypePrivate DEF Observe, TypeOK
<1>8. ASSUME NEW r \in Requests, Commit(r) PROVE TypeOK'
  <2>1. tx[r] \in Tx /\ cat' \in Catalogue
    BY <1>8, ViewType DEF Commit, TypeOK
  <2>2. obs' \in Observation
    <3>1. CASE tx[r].new = None
      BY <1>8, <3>1 DEF Commit, TypeOK
    <3>2. CASE tx[r].new # None
      <4>1. tx[r].new \in Observation /\ obs \in Observation
        BY <2>1, <3>2 DEF Tx, TypeOK
      <4> QED
        BY <1>8, <3>2, <4>1 DEF Commit, Observed, Observation
    <3> QED
      BY <3>1, <3>2
  <2>3. life' \in Lifecycle
    BY <1>8, <2>1 DEF Commit, Tx, TypeOK
  <2>4. f3' \in Row3 \cup {None} /\ f4' \in Row4 \cup {None}
    BY <1>8, LatestType DEF Commit
  <2>5. tx' \in [Requests -> Tx]
    <3>1. Inserted(r) \in SUBSET {"F3", "F4"}
      BY DEF Inserted
    <3>2. \A q \in Requests : Interrupted(tx[q], Inserted(r)) \in Tx
      BY <3>1, InterruptedType DEF TypeOK
    <3> QED
      BY <1>8, <3>2, IdleType DEF Commit
  <2>6. serial' \in BOOLEAN /\ day' \in Days /\ changes' \in 0..MaxChanges
    BY <1>8, <2>1 DEF Commit, TypeOK, Tx
  <2> QED
    BY <2>1, <2>2, <2>3, <2>4, <2>5, <2>6 DEF TypeOK
<1>9. ASSUME NEW r \in Requests, Abort(r) PROVE TypeOK'
  BY <1>9, IdleType, TypePrivate DEF Abort, TypeOK
<1>10. CASE DaysPass
  <2>1. \A q \in Requests : Interrupted(tx[q], {}) \in Tx
    BY InterruptedType DEF TypeOK
  <2>2. tx' \in [Requests -> Tx]
    BY <1>10, <2>1 DEF DaysPass
  <2>3. day' \in Days
    BY <1>10, ConstantsAssumption DEF DaysPass, TypeOK, Days
  <2> QED
    BY <1>10, <2>2, <2>3 DEF DaysPass, TypeOK
<1>11. CASE UNCHANGED vars
  BY <1>11 DEF vars, TypeOK
<1> QED
  BY <1>1, <1>2, <1>3, <1>4, <1>5, <1>6, <1>7, <1>8, <1>9, <1>10, <1>11 DEF Next

---------------------------------------------------------------------------
(* The invariant *)

LEMMA InvInit == Init => IInv
<1> SUFFICES ASSUME Init PROVE IInv
  OBVIOUS
<1>1. TypeOK
  BY TypeInit
<1>2. VerdictOnlyOutside
  BY DEF Init, VerdictOnlyOutside, F4States
<1>3. \A r \in Requests : AloneInv(r)
  BY DEF Init, AloneInv, Idle
<1> QED
  BY <1>1, <1>2, <1>3 DEF IInv

\* A step of one request that commits nothing leaves the others as they are.
LEMMA AloneFrame ==
  ASSUME IInv, NEW r \in Requests, NEW t, tx' = [tx EXCEPT ![r] = t],
         UNCHANGED <<day, cat, obs, life, f3, f4, serial>>, AloneInv(r)'
  PROVE  VerdictOnlyOutside' /\ \A q \in Requests : AloneInv(q)'
<1>1. VerdictOnlyOutside'
  BY DEF IInv, VerdictOnlyOutside
<1>2. ASSUME NEW q \in Requests, q # r PROVE AloneInv(q)'
  <2>1. tx[q]' = tx[q]
    BY <1>2 DEF IInv, TypeOK
  <2>2. AloneInv(q)
    BY DEF IInv
  <2> QED
    BY <2>1, <2>2 DEF AloneInv, ComplianceSoFar, ReadinessSoFar, Outside, Says
<1> QED
  BY <1>1, <1>2

\* The private state t of request r satisfies the invariant: AloneInv in terms of t.
Holds(t) == t.op # "none" /\ t.alone =>
    /\ t.late = {}
    /\ ~t.held => t.seen = life
    /\ t.next = "observe" => ~t.held /\ t.row3 = None
    /\ t.put \in F4States => \/ t.put = life /\ t.row3 = None
                             \/ IF t.row3 # None THEN t.row3.state = "outside_target"
                                ELSE f3 # None /\ f3.state = "outside_target"
    /\ t.op = "compliance" =>
         /\ t.cat = None /\ t.row4 = None /\ t.new = None /\ t.put = t.seen
         /\ t.next \in {"F3", "commit"}
         /\ t.next = "F3" => ~t.held /\ t.row3 = None
         /\ t.next = "commit" =>
              /\ t.put = F2Verdict(cat, obs)
              /\ t.row3 = None => Says(f3, cat, obs)
              /\ t.row3 # None => t.row3 = ComplianceRow(cat, obs, day) /\ ~Says(f3, cat, obs)
    /\ t.op = "readiness" =>
         /\ t.cat = None /\ t.row3 = None /\ t.new = None /\ ~t.held
         /\ t.next \in {"F4", "commit"}
         /\ t.next = "F4" => t.put = t.seen /\ t.row4 = None
         /\ t.next = "commit" =>
              /\ t.row4 = None => t.put = t.seen /\ f4 = ReadinessRow(f3, cat)
              /\ t.row4 # None => /\ t.row4 = ReadinessRow(f3, cat) /\ t.row4 # f4
                                  /\ t.put = LifecycleOf(t.row4, t.seen)

LEMMA HoldsIsAloneInv ==
  ASSUME NEW r \in Requests
  PROVE  AloneInv(r) <=> Holds(tx[r])
  BY DEF AloneInv, ComplianceSoFar, ReadinessSoFar, Outside, Holds

\* A private step is right when its new private state is.
LEMMA PrivateStep ==
  ASSUME IInv, NEW r \in Requests, NEW t, tx' = [tx EXCEPT ![r] = t],
         UNCHANGED <<day, cat, obs, life, f3, f4, serial>>, Holds(t)
  PROVE  VerdictOnlyOutside' /\ \A q \in Requests : AloneInv(q)'
<1>1. tx'[r] = t
  BY DEF IInv, TypeOK
<1>2. AloneInv(r)'
  BY <1>1 DEF AloneInv, ComplianceSoFar, ReadinessSoFar, Outside, Holds, Says
<1> QED
  BY <1>2, AloneFrame


\* The calls of the requests that make one.
LEMMA FirstCalls ==
  /\ FirstCall("status") = "F2" /\ FirstCall("compliance") = "F3"
  /\ FirstCall("readiness") = "F4" /\ FirstCall("import") = "observe"
  /\ FirstCall("reload") = "F2"
  BY DEF FirstCall

\* What follows a call: never an import's own call, and for F3 of a compliance request and
\* F4 of a readiness request the commit.
LEMMA NextCalls ==
  ASSUME NEW op, NEW call
  PROVE  /\ NextCall(op, call) # "observe"
         /\ op # "reload" => NextCall(op, call) = "commit"
  BY DEF NextCall

LEMMA BeginStep ==
  ASSUME IInv, NEW r \in Requests, NEW op \in Ops \ {"reload", "batch"}, Begin(r, op)
  PROVE  VerdictOnlyOutside' /\ \A q \in Requests : AloneInv(q)'
<1> DEFINE t == Begun(op, FirstCall(op))
<1>1. /\ t.op = op /\ t.next = FirstCall(op) /\ t.seen = life /\ t.put = life
      /\ ~t.held /\ t.late = {}
      /\ t.cat = None /\ t.row3 = None /\ t.row4 = None /\ t.new = None
  BY DEF Begun, Idle
<1>2. op = "compliance" => t.next = "F3"
  BY <1>1, FirstCalls
<1>3. op = "readiness" => t.next = "F4"
  BY <1>1, FirstCalls
<1>4. tx' = [tx EXCEPT ![r] = t] /\ UNCHANGED <<day, cat, obs, life, f3, f4, serial>>
  BY DEF Begin
<1> HIDE DEF t
<1>5. Holds(t)
  BY <1>1, <1>2, <1>3 DEF Holds
<1> QED
  BY <1>4, <1>5, PrivateStep

LEMMA BeginReloadStep ==
  ASSUME IInv, NEW r \in Requests, BeginReload(r)
  PROVE  VerdictOnlyOutside' /\ \A q \in Requests : AloneInv(q)'
<1>1. PICK c \in Catalogues, narrowed \in BOOLEAN :
        tx' = [tx EXCEPT ![r] =
                [Begun("reload", IF Affected(c, narrowed) THEN FirstCall("reload")
                                 ELSE "commit") EXCEPT !.cat = c]]
  BY DEF BeginReload
<1> DEFINE call == IF Affected(c, narrowed) THEN FirstCall("reload") ELSE "commit"
           t == [Begun("reload", call) EXCEPT !.cat = c]
<1>2. call # "observe"
  BY FirstCalls
<1>3. /\ t.op = "reload" /\ t.next # "observe" /\ t.seen = life /\ t.put = life
      /\ t.late = {} /\ t.row3 = None
  <2> HIDE DEF call
  <2> QED
    BY <1>2 DEF Begun, Idle
<1>4. tx' = [tx EXCEPT ![r] = t] /\ UNCHANGED <<day, cat, obs, life, f3, f4, serial>>
  BY <1>1 DEF BeginReload
<1> HIDE DEF t
<1>5. Holds(t)
  BY <1>3 DEF Holds
<1> QED
  BY <1>4, <1>5, PrivateStep

\* After an F2 call the lifecycle is no readiness verdict.
LEMMA F2Step ==
  ASSUME IInv, NEW r \in Requests, F2(r)
  PROVE  VerdictOnlyOutside' /\ \A q \in Requests : AloneInv(q)'
<1> DEFINE verdict == F2Verdict(View(r), obs)
           x == AfterF2(tx[r], verdict)
           t == [x EXCEPT !.late = {}]
<1>1. TypeOK /\ Holds(tx[r]) /\ tx[r] \in Tx
  BY HoldsIsAloneInv DEF IInv, TypeOK
<1>2. verdict \in F2States
  BY <1>1, ViewType, ComplianceRowType DEF TypeOK
<1>3. verdict \notin F4States
  BY <1>2 DEF F2States, F4States
<1>4. tx[r].next = "F2" /\ tx' = [tx EXCEPT ![r] = t]
  BY DEF F2, Ready
<1> HIDE DEF verdict
<1>5. /\ x \in Tx /\ x.put = verdict /\ x.op = tx[r].op /\ x.alone = tx[r].alone
      /\ x.held = (tx[r].held \/ verdict # tx[r].put)
      /\ x.seen = IF verdict = tx[r].put THEN tx[r].seen ELSE verdict
      /\ x.next # "observe"
  BY <1>1, <1>2, AfterF2Type, NextCalls
<1> HIDE DEF x
<1>6. /\ t.put = verdict /\ t.op = tx[r].op /\ t.alone = tx[r].alone /\ t.late = {}
      /\ t.held = (tx[r].held \/ verdict # tx[r].put)
      /\ t.seen = IF verdict = tx[r].put THEN tx[r].seen ELSE verdict
      /\ t.next # "observe"
  BY <1>5 DEF Tx
<1> HIDE DEF t
<1>7. Holds(t)
  BY <1>1, <1>3, <1>4, <1>6 DEF Holds
<1> QED
  BY <1>4, <1>7, PrivateStep DEF F2

\* After an F3 call of a compliance request the lifecycle and the row agree.
LEMMA F3Step ==
  ASSUME IInv, NEW r \in Requests, F3(r)
  PROVE  VerdictOnlyOutside' /\ \A q \in Requests : AloneInv(q)'
<1> DEFINE row == ComplianceRow(View(r), obs, day)
           x == AfterF2(tx[r], row.state)
           new3 == IF Same3(f3, row) THEN None ELSE row
           t == [x EXCEPT !.late = {}, !.row3 = new3]
<1>1. TypeOK /\ Holds(tx[r]) /\ tx[r] \in Tx /\ day \in Days /\ obs \in Observation
  BY HoldsIsAloneInv DEF IInv, TypeOK
<1>2. /\ row \in Row3 /\ row.state \in F2States
      /\ row.state = F2Verdict(View(r), obs)
  BY <1>1, ViewType, ComplianceRowType
<1>3. row.state \notin F4States /\ row # None
  BY <1>2, ConstantsAssumption DEF F2States, F4States
<1>4. tx[r].cat = None => View(r) = cat /\ (new3 = None <=> Says(f3, cat, obs))
  <2> SUFFICES ASSUME tx[r].cat = None PROVE View(r) = cat /\ (new3 = None <=> Says(f3, cat, obs))
    OBVIOUS
  <2>1. View(r) = cat
    BY DEF View
  <2>2. Same3(f3, row) <=> Says(f3, cat, obs)
    BY <2>1, <1>1, SameSays DEF TypeOK
  <2> QED
    BY <2>1, <2>2, <1>3
<1>5. tx[r].next = "F3" /\ tx' = [tx EXCEPT ![r] = t]
  BY DEF F3, Ready
<1>6. new3 # None => new3 = row
  OBVIOUS
<1>7. /\ x \in Tx /\ x.put = row.state /\ x.op = tx[r].op /\ x.alone = tx[r].alone
      /\ x.late = tx[r].late /\ x.cat = tx[r].cat
      /\ x.row4 = tx[r].row4 /\ x.new = tx[r].new
      /\ x.held = (tx[r].held \/ row.state # tx[r].put)
      /\ x.seen = IF row.state = tx[r].put THEN tx[r].seen ELSE row.state
      /\ x.next # "observe" /\ (x.op # "reload" => x.next = "commit")
  BY <1>1, <1>2, AfterF2Type, NextCalls
<1> HIDE DEF x, new3
<1>8. /\ t.put = row.state /\ t.op = tx[r].op /\ t.alone = tx[r].alone
      /\ t.late = {} /\ t.cat = tx[r].cat
      /\ t.row4 = tx[r].row4 /\ t.new = tx[r].new /\ t.row3 = new3
      /\ t.held = (tx[r].held \/ row.state # tx[r].put)
      /\ t.seen = IF row.state = tx[r].put THEN tx[r].seen ELSE row.state
      /\ t.next # "observe" /\ (t.op # "reload" => t.next = "commit")
  BY <1>7 DEF Tx
<1>9. tx[r].cat = None => row = ComplianceRow(cat, obs, day) /\ row.state = F2Verdict(cat, obs)
  BY <1>2, <1>4
<1> HIDE DEF t, row
<1>10. t.op # "none" /\ t.alone =>
         /\ t.late = {} /\ (~t.held => t.seen = life) /\ t.next # "observe"
         /\ t.put \notin F4States
  BY <1>1, <1>3, <1>5, <1>8 DEF Holds
<1>11. t.op = "compliance" /\ t.alone =>
         /\ t.cat = None /\ t.row4 = None /\ t.new = None /\ t.put = t.seen
         /\ t.next = "commit" /\ t.put = F2Verdict(cat, obs)
         /\ t.row3 = None => Says(f3, cat, obs)
         /\ t.row3 # None => t.row3 = ComplianceRow(cat, obs, day) /\ ~Says(f3, cat, obs)
  BY <1>1, <1>3, <1>4, <1>5, <1>6, <1>8, <1>9 DEF Holds
<1>12. ~(t.op = "readiness" /\ t.alone)
  BY <1>1, <1>5, <1>8 DEF Holds
<1>13. Holds(t)
  BY <1>10, <1>11, <1>12 DEF Holds
<1> QED
  BY <1>5, <1>13, PrivateStep DEF F3

\* After an F4 call a readiness verdict in the lifecycle is that of an outside_target row.
LEMMA F4JudgeStep ==
  ASSUME IInv, NEW r \in Requests, F4Judge(r)
  PROVE  VerdictOnlyOutside' /\ \A q \in Requests : AloneInv(q)'
<1>1. PICK latest \in Latest(r, tx[r].row3, f3, "F3") :
        LET row == ReadinessRow(latest, View(r))
            fresh == ~Same4(f4, row)
        IN tx' = [tx EXCEPT ![r].next = After(tx[r]),
                            ![r].row3 = IF latest = @ THEN @ ELSE None,
                            ![r].row4 = IF fresh THEN row ELSE None,
                            ![r].put = IF fresh THEN LifecycleOf(row, @) ELSE @,
                            ![r].late = {}]
  BY DEF F4Judge
<1> DEFINE row == ReadinessRow(latest, View(r))
           fresh == ~Same4(f4, row)
           n == After(tx[r])
           a3 == IF latest = tx[r].row3 THEN tx[r].row3 ELSE None
           a4 == IF fresh THEN row ELSE None
           p == IF fresh THEN LifecycleOf(row, tx[r].put) ELSE tx[r].put
           t == [tx[r] EXCEPT !.next = n, !.row3 = a3, !.row4 = a4, !.put = p, !.late = {}]
<1>2. TypeOK /\ Holds(tx[r]) /\ tx[r] \in Tx
  BY HoldsIsAloneInv DEF IInv, TypeOK
<1>3. tx' = [tx EXCEPT ![r] = t]
  BY <1>1, <1>2 DEF TypeOK
<1>4. tx[r].next = "F4"
  BY DEF F4Judge, Ready
<1>5. latest \in Row3 \cup {None} /\ View(r) \in Catalogue
  BY <1>1, <1>2, LatestType, ViewType
<1>6. row \in Row4 /\ (row.state \in F4States => latest # None /\ latest.state = "outside_target")
  BY <1>5, ReadinessRowType
<1>7. row # None
  BY <1>6, ConstantsAssumption
<1>8. n # "observe" /\ (tx[r].op # "reload" => n = "commit")
  BY NextCalls DEF After
<1>9. tx[r].late = {} =>
        /\ latest = IF tx[r].row3 = None THEN f3 ELSE tx[r].row3
        /\ a3 = tx[r].row3
  BY <1>1 DEF Latest
<1>10. tx[r].cat = None => View(r) = cat
  BY DEF View
<1>11. /\ t.op = tx[r].op /\ t.alone = tx[r].alone /\ t.late = {} /\ t.cat = tx[r].cat
       /\ t.new = tx[r].new /\ t.held = tx[r].held /\ t.seen = tx[r].seen
       /\ t.next = n /\ t.row3 = a3 /\ t.row4 = a4 /\ t.put = p
  <2> HIDE DEF n, a3, a4, p
  <2> QED
    BY <1>2 DEF Tx
<1>12. /\ fresh => a4 = row /\ a4 # None /\ p = LifecycleOf(row, tx[r].put) /\ row # f4
       /\ ~fresh => a4 = None /\ p = tx[r].put /\ f4 = row
  BY <1>7 DEF Same4
<1>13. p = row.state \/ p = tx[r].put
  BY DEF LifecycleOf
<1>14. p # tx[r].put => row.state \in F4States
  BY DEF LifecycleOf
<1> HIDE DEF t, p, a3, a4, n, fresh
<1>15. t.op # "none" /\ t.alone =>
         /\ t.late = {} /\ (~t.held => t.seen = life) /\ t.next # "observe"
         /\ t.op # "compliance"
  BY <1>2, <1>4, <1>8, <1>11 DEF Holds
<1>16. t.op # "none" /\ t.alone /\ t.put \in F4States =>
         \/ t.put = life /\ t.row3 = None
         \/ IF t.row3 # None THEN t.row3.state = "outside_target"
            ELSE f3 # None /\ f3.state = "outside_target"
  <2> HIDE DEF row
  <2>1. CASE p = tx[r].put
    BY <2>1, <1>2, <1>9, <1>11 DEF Holds
  <2>2. CASE p # tx[r].put
    BY <2>2, <1>2, <1>6, <1>9, <1>11, <1>14 DEF Holds
  <2> QED
    BY <2>1, <2>2
<1>17. t.op = "readiness" /\ t.alone =>
         /\ t.cat = None /\ t.row3 = None /\ t.new = None /\ ~t.held
         /\ t.next = "commit"
         /\ t.row4 = None => t.put = t.seen /\ f4 = ReadinessRow(f3, cat)
         /\ t.row4 # None => /\ t.row4 = ReadinessRow(f3, cat) /\ t.row4 # f4
                             /\ t.put = LifecycleOf(t.row4, t.seen)
  <2> SUFFICES ASSUME t.op = "readiness", t.alone
               PROVE  /\ t.cat = None /\ t.row3 = None /\ t.new = None /\ ~t.held
                      /\ t.next = "commit"
                      /\ t.row4 = None => t.put = t.seen /\ f4 = ReadinessRow(f3, cat)
                      /\ t.row4 # None => /\ t.row4 = ReadinessRow(f3, cat) /\ t.row4 # f4
                                          /\ t.put = LifecycleOf(t.row4, t.seen)
    OBVIOUS
  <2>1. /\ tx[r].late = {} /\ tx[r].cat = None /\ tx[r].row3 = None /\ tx[r].new = None
        /\ ~tx[r].held /\ tx[r].put = tx[r].seen
    BY <1>2, <1>4, <1>11 DEF Holds
  <2>2. row = ReadinessRow(f3, cat)
    BY <2>1, <1>9, <1>10
  <2> HIDE DEF row
  <2> QED
    BY <2>1, <2>2, <1>8, <1>9, <1>11, <1>12
<1>18. Holds(t)
  BY <1>15, <1>16, <1>17 DEF Holds
<1> QED
  BY <1>3, <1>18, PrivateStep DEF F4Judge

LEMMA F4RefuseStep ==
  ASSUME IInv, NEW r \in Requests, F4Refuse(r)
  PROVE  VerdictOnlyOutside' /\ \A q \in Requests : AloneInv(q)'
<1>1. Holds(Idle)
  BY DEF Holds, Idle
<1> QED
  BY <1>1, PrivateStep DEF F4Refuse

LEMMA F4SkipStep ==
  ASSUME IInv, NEW r \in Requests, F4Skip(r)
  PROVE  VerdictOnlyOutside' /\ \A q \in Requests : AloneInv(q)'
<1> DEFINE t == [tx[r] EXCEPT !.next = After(tx[r]),
                              !.op = IF @ = "readiness" THEN "batch" ELSE @]
<1>1. TypeOK /\ Holds(tx[r]) /\ tx[r] \in Tx /\ tx[r].next = "F4"
  BY HoldsIsAloneInv DEF IInv, TypeOK, F4Skip, Ready
<1>2. tx' = [tx EXCEPT ![r] = t]
  BY <1>1 DEF F4Skip, TypeOK
<1>3. After(tx[r]) # "observe"
  BY NextCalls DEF After
<1>4. /\ t.op # "none" /\ t.op # "readiness" /\ t.alone = tx[r].alone /\ t.late = tx[r].late
      /\ t.op = "compliance" => tx[r].op = "compliance"
      /\ t.held = tx[r].held /\ t.seen = tx[r].seen /\ t.put = tx[r].put
      /\ t.row3 = tx[r].row3 /\ t.next # "observe"
  <2>1. tx[r].op # "none"
    BY DEF F4Skip, Ready
  <2> QED
    BY <1>1, <1>3, <2>1 DEF Tx
<1> HIDE DEF t
<1>5. Holds(t)
  BY <1>1, <1>4 DEF Holds, F4Skip, Ready
<1> QED
  BY <1>2, <1>5, PrivateStep DEF F4Skip

LEMMA ObserveStep ==
  ASSUME IInv, NEW r \in Requests, Observe(r)
  PROVE  VerdictOnlyOutside' /\ \A q \in Requests : AloneInv(q)'
<1>1. PICK firmware \in Reported, lag \in Lags, classified \in BOOLEAN :
        LET put == IF classified /\ tx[r].seen = "imported" THEN "classified"
                   ELSE tx[r].seen
        IN tx' = [tx EXCEPT ![r].next = After(tx[r]),
                            ![r].seen = put, ![r].put = put, ![r].held = TRUE,
                            ![r].new = [firmware |-> firmware, on |-> day - lag]]
  BY DEF Observe
<1> DEFINE put == IF classified /\ tx[r].seen = "imported" THEN "classified"
                  ELSE tx[r].seen
           n == After(tx[r])
           new == [firmware |-> firmware, on |-> day - lag]
           t == [tx[r] EXCEPT !.next = n, !.seen = put, !.put = put, !.held = TRUE, !.new = new]
<1>2. TypeOK /\ Holds(tx[r]) /\ tx[r] \in Tx /\ tx[r].next = "observe"
  BY HoldsIsAloneInv DEF IInv, TypeOK, Observe, Ready
<1>3. tx' = [tx EXCEPT ![r] = t]
  BY <1>1, <1>2 DEF TypeOK
<1>4. n # "observe" /\ (put \in F4States => put = tx[r].seen)
  BY NextCalls DEF After, F4States
<1>5. /\ t.op = tx[r].op /\ t.alone = tx[r].alone /\ t.late = tx[r].late
      /\ t.held /\ t.put = put /\ t.row3 = tx[r].row3 /\ t.next = n
  <2> HIDE DEF put, n, new
  <2> QED
    BY <1>2 DEF Tx
<1> HIDE DEF t, put, n
<1>6. Holds(t)
  BY <1>2, <1>4, <1>5 DEF Holds
<1> QED
  BY <1>3, <1>6, PrivateStep DEF Observe

LEMMA AbortStep ==
  ASSUME IInv, NEW r \in Requests, Abort(r)
  PROVE  VerdictOnlyOutside' /\ \A q \in Requests : AloneInv(q)'
<1>1. Holds(Idle)
  BY DEF Holds, Idle
<1> QED
  BY <1>1, PrivateStep DEF Abort

\* After a commit of another request, or a pause, nobody is alone any more.
LEMMA NobodyAlone ==
  ASSUME TypeOK, NEW q \in Requests, NEW tables \in SUBSET {"F3", "F4"},
         tx'[q] = Idle \/ tx'[q] = Interrupted(tx[q], tables)
  PROVE  AloneInv(q)'
<1>1. CASE tx'[q] = Idle
  BY <1>1 DEF AloneInv, Idle
<1>2. CASE tx'[q] = Interrupted(tx[q], tables)
  <2>1. tx'[q].op # "none" => ~tx'[q].alone
    BY <1>2, InterruptedType DEF TypeOK
  <2> QED
    BY <2>1 DEF AloneInv
<1> QED
  BY <1>1, <1>2

\* What a request that nothing overlapped leaves behind.
LEMMA QuietCommit ==
  ASSUME IInv, NEW r \in Requests, Commit(r), tx[r].alone
  PROVE  /\ life' = tx[r].put
         /\ f3' = IF tx[r].row3 = None THEN f3 ELSE tx[r].row3
         /\ f4' = IF tx[r].row4 = None THEN f4 ELSE tx[r].row4
<1>1. tx[r].op # "none" /\ tx[r].late = {} /\ (~tx[r].held => tx[r].seen = life)
  BY DEF IInv, AloneInv, Commit, Ready
<1>2. life' = tx[r].put
  BY <1>1 DEF Commit, Dirty
<1>3. /\ f3' \in Latest(r, tx[r].row3, f3, "F3")
      /\ f4' \in Latest(r, tx[r].row4, f4, "F4")
  BY DEF Commit
<1> QED
  BY <1>1, <1>2, <1>3 DEF Latest

LEMMA CommitStep ==
  ASSUME IInv, NEW r \in Requests, Commit(r)
  PROVE  VerdictOnlyOutside' /\ \A q \in Requests : AloneInv(q)'
<1>1. Inserted(r) \in SUBSET {"F3", "F4"}
  BY DEF Inserted
<1>2. ASSUME NEW q \in Requests PROVE AloneInv(q)'
  <2>1. tx'[q] = Idle \/ tx'[q] = Interrupted(tx[q], Inserted(r))
    BY DEF Commit
  <2> QED
    BY <1>1, <2>1, NobodyAlone DEF IInv
<1>3. VerdictOnlyOutside'
  <2> SUFFICES ASSUME serial', life' \in F4States
               PROVE  f3' # None /\ f3'.state = "outside_target"
    BY DEF VerdictOnlyOutside
  <2>1. serial /\ tx[r].alone
    BY DEF Commit
  <2>2. life' = tx[r].put /\ f3' = IF tx[r].row3 = None THEN f3 ELSE tx[r].row3
    BY <2>1, QuietCommit
  <2>3. (tx[r].put = life /\ tx[r].row3 = None) \/ Outside(r)
    BY <2>1, <2>2 DEF IInv, AloneInv, Commit, Ready
  <2>4. CASE tx[r].put = life /\ tx[r].row3 = None
    BY <2>1, <2>2, <2>4 DEF IInv, VerdictOnlyOutside
  <2>5. CASE Outside(r)
    BY <2>2, <2>5 DEF Outside
  <2> QED
    BY <2>3, <2>4, <2>5
<1> QED
  BY <1>2, <1>3

LEMMA DaysPassStep ==
  ASSUME IInv, DaysPass
  PROVE  VerdictOnlyOutside' /\ \A q \in Requests : AloneInv(q)'
<1>1. VerdictOnlyOutside'
  BY DEF IInv, VerdictOnlyOutside, DaysPass
<1>2. ASSUME NEW q \in Requests PROVE AloneInv(q)'
  <2>1. tx'[q] = Interrupted(tx[q], {})
    BY DEF DaysPass
  <2> QED
    BY <2>1, NobodyAlone DEF IInv
<1> QED
  BY <1>1, <1>2

LEMMA InvStep == IInv /\ [Next]_vars => IInv'
<1> SUFFICES ASSUME IInv, [Next]_vars PROVE IInv'
  OBVIOUS
<1>1. TypeOK'
  BY TypeStep DEF IInv
<1>2. VerdictOnlyOutside' /\ \A q \in Requests : AloneInv(q)'
  <2>1. ASSUME NEW r \in Requests, NEW op \in Ops \ {"reload", "batch"}, Begin(r, op)
        PROVE  VerdictOnlyOutside' /\ \A q \in Requests : AloneInv(q)'
    BY <2>1, BeginStep
  <2>2. ASSUME NEW r \in Requests,
               BeginReload(r) \/ F2(r) \/ F3(r) \/ F4Judge(r) \/ F4Refuse(r)
                 \/ F4Skip(r) \/ Observe(r) \/ Commit(r) \/ Abort(r)
        PROVE  VerdictOnlyOutside' /\ \A q \in Requests : AloneInv(q)'
    BY <2>2, BeginReloadStep, F2Step, F3Step, F4JudgeStep, F4RefuseStep, F4SkipStep,
       ObserveStep, CommitStep, AbortStep
  <2>3. CASE DaysPass
    BY <2>3, DaysPassStep
  <2>4. CASE UNCHANGED vars
    BY <2>4 DEF vars, IInv, VerdictOnlyOutside, AloneInv, ComplianceSoFar, ReadinessSoFar,
       Outside, Says
  <2> QED
    BY <2>1, <2>2, <2>3, <2>4 DEF Next
<1> QED
  BY <1>1, <1>2 DEF IInv

---------------------------------------------------------------------------
(* The theorems *)

\* The strengthened invariant holds in every reachable state.
THEOREM Invariance == Spec => []IInv
<1>1. Init => IInv
  BY InvInit
<1>2. IInv /\ [Next]_vars => IInv'
  BY InvStep
<1> QED
  BY <1>1, <1>2, PTL DEF Spec

\* Every variable keeps its type: no call writes a lifecycle state or a verdict that its
\* table does not allow.
THEOREM TypeCorrect == Spec => []TypeOK
<1>1. IInv => TypeOK
  BY DEF IInv
<1> QED
  BY <1>1, Invariance, PTL

\* As long as requests do not overlap, a device in ready_for_uplift or blocked has
\* outside_target as its latest compliance verdict.
THEOREM VerdictSound == Spec => []VerdictOnlyOutside
<1>1. IInv => VerdictOnlyOutside
  BY DEF IInv
<1> QED
  BY <1>1, Invariance, PTL

\* A compliance evaluation that nothing overlapped leaves the lifecycle and the latest row
\* saying what the catalogue and the observations say.
THEOREM ComplianceAgrees == Spec => QuietComplianceAgrees
<1>1. ASSUME IInv, [Next]_vars, NEW r \in Requests, Commit(r), tx[r].op = "compliance",
             tx[r].alone
      PROVE  life' = F2Verdict(cat, obs) /\ Says(f3', cat, obs)
  <2>1. tx[r].next = "commit" /\ AloneInv(r)
    BY <1>1 DEF IInv, Commit, Ready
  <2>2. /\ tx[r].put = F2Verdict(cat, obs)
        /\ tx[r].row3 = None => Says(f3, cat, obs)
        /\ tx[r].row3 # None => tx[r].row3 = ComplianceRow(cat, obs, day)
    BY <1>1, <2>1 DEF AloneInv, ComplianceSoFar
  <2>3. life' = tx[r].put /\ f3' = IF tx[r].row3 = None THEN f3 ELSE tx[r].row3
    BY <1>1, QuietCommit
  <2>4. Says(ComplianceRow(cat, obs, day), cat, obs)
    BY <1>1, FreshRowSays DEF IInv, TypeOK
  <2> QED
    BY <2>2, <2>3, <2>4
<1>2. IInv /\ [Next]_vars =>
        [\A r \in Requests :
           Commit(r) /\ tx[r].op = "compliance" /\ tx[r].alone =>
             /\ life' = F2Verdict(cat, obs)
             /\ Says(f3', cat, obs)]_vars
  BY <1>1
<1> QED
  BY <1>2, Invariance, PTL DEF Spec, QuietComplianceAgrees

\* A readiness evaluation that nothing overlapped leaves the latest F4 row saying what
\* follows from the latest F3 row, and writes the verdict it inserts into the lifecycle.
THEOREM ReadinessAgrees == Spec => QuietReadinessAgrees
<1>1. ASSUME IInv, [Next]_vars, NEW r \in Requests, Commit(r), tx[r].op = "readiness",
             tx[r].alone
      PROVE  /\ f4' = ReadinessRow(f3, cat)
             /\ f4' # f4 /\ f4'.state \in F4States => life' = f4'.state
  <2>1. tx[r].next = "commit" /\ AloneInv(r)
    BY <1>1 DEF IInv, Commit, Ready
  <2>2. /\ tx[r].row4 = None => f4 = ReadinessRow(f3, cat)
        /\ tx[r].row4 # None => /\ tx[r].row4 = ReadinessRow(f3, cat)
                                /\ tx[r].put = LifecycleOf(tx[r].row4, tx[r].seen)
    BY <1>1, <2>1 DEF AloneInv, ReadinessSoFar
  <2>3. life' = tx[r].put /\ f4' = IF tx[r].row4 = None THEN f4 ELSE tx[r].row4
    BY <1>1, QuietCommit
  <2>4. CASE tx[r].row4 = None
    BY <2>2, <2>3, <2>4
  <2>5. CASE tx[r].row4 # None
    BY <2>2, <2>3, <2>5 DEF LifecycleOf
  <2> QED
    BY <2>4, <2>5
<1>2. IInv /\ [Next]_vars =>
        [\A r \in Requests :
           Commit(r) /\ tx[r].op = "readiness" /\ tx[r].alone =>
             /\ f4' = ReadinessRow(f3, cat)
             /\ f4' # f4 /\ f4'.state \in F4States => life' = f4'.state]_vars
  BY <1>1
<1> QED
  BY <1>2, Invariance, PTL DEF Spec, QuietReadinessAgrees

\* An evaluation of what was already judged, with nothing overlapping, writes nothing.
THEOREM SettledSilent == Spec => SettledIsSilent
<1>1. ASSUME IInv, NEW r \in Requests, Commit(r),
             tx[r].op \in {"compliance", "readiness"}, tx[r].alone,
             tx[r].op = "compliance" => life = F2Verdict(cat, obs) /\ Says(f3, cat, obs),
             tx[r].op = "readiness" => f4 = ReadinessRow(f3, cat)
      PROVE  UNCHANGED <<life, f3, f4>>
  <2>1. tx[r].next = "commit" /\ AloneInv(r) /\ (~tx[r].held => tx[r].seen = life)
    BY <1>1 DEF IInv, AloneInv, Commit, Ready
  <2>2. /\ life' = tx[r].put
        /\ f3' = IF tx[r].row3 = None THEN f3 ELSE tx[r].row3
        /\ f4' = IF tx[r].row4 = None THEN f4 ELSE tx[r].row4
    BY <1>1, QuietCommit
  <2>3. CASE tx[r].op = "compliance"
    BY <1>1, <2>1, <2>2, <2>3 DEF AloneInv, ComplianceSoFar
  <2>4. CASE tx[r].op = "readiness"
    BY <1>1, <2>1, <2>2, <2>4 DEF AloneInv, ReadinessSoFar
  <2> QED
    BY <1>1, <2>3, <2>4
<1>2. IInv /\ [Next]_vars =>
        [\A r \in Requests :
           /\ Commit(r) /\ tx[r].op \in {"compliance", "readiness"} /\ tx[r].alone
           /\ tx[r].op = "compliance" => life = F2Verdict(cat, obs) /\ Says(f3, cat, obs)
           /\ tx[r].op = "readiness" => f4 = ReadinessRow(f3, cat)
           => UNCHANGED <<life, f3, f4>>]_vars
  BY <1>1
<1> QED
  BY <1>2, Invariance, PTL DEF Spec, SettledIsSilent
=====================================================================================
