----------------------------- MODULE DeviceEvaluation -----------------------------
(***************************************************************************)
(* The evaluation pipeline of one device: F2 compares its firmware with    *)
(* the target and sets devices.lifecycle_state, F3 records a compliance    *)
(* verdict, F4 derives a readiness verdict from the latest F3 row.  Each   *)
(* runs in requests of its own, and a catalogue reload runs all three.     *)
(* What they judge changes under them: imports add observations, reloads   *)
(* change the catalogue, days pass.                                        *)
(*                                                                         *)
(* A request is one transaction at READ COMMITTED, and one call of an      *)
(* evaluator in it is one step: other transactions commit between the      *)
(* calls of a request, not between the reads of a call.  Times are whole   *)
(* days; of the rows of a table only the latest is kept, since nothing     *)
(* reads the others.                                                       *)
(***************************************************************************)
EXTENDS Naturals

CONSTANTS
    Versions,
    Rules,      \* required prerequisite rules
    Catalogues, \* what the catalogue files can say about this device
    Requests,   \* server workers, one transaction at a time each
    MaxChanges, \* bound of the imports and reloads
    Reported,   \* the firmware an import row can report, None for an empty column
    Lags,       \* how many days before its import an observation can have been made
    MaxDay,     \* bound of the clock
    Pauses,     \* the numbers of days that can pass with nothing happening
    DiscoveryStaleDays, ReadinessStaleDays, \* settings of those names
    None

PathBlocker == "missing_upgrade_path"
Blockers == Rules \cup {PathBlocker}

\* The target row is live (removed_at is null), its selector covers the device, it asks
\* for a version; `applicable' live rules cover the device, which fails those in `failing';
\* live edges lead to the versions in `reached'; `paths' are the pairs of versions joined by
\* a chain of them within the weight cap.
Catalogue == [live: BOOLEAN, covers: BOOLEAN, version: Versions, applicable: Nat,
              failing: SUBSET Rules, reached: SUBSET Versions,
              paths: SUBSET {pair \in Versions \X Versions : pair[1] # pair[2]}]

VARIABLES
    day,    \* the clock
    cat,    \* the committed catalogue
    obs,    \* the latest observed firmware by created_at, and the latest observed_at
    life,   \* devices.lifecycle_state
    f3,     \* the latest compliance_evaluations row
    f4,     \* the latest readiness_evaluations row
    changes, \* imports and reloads begun
    tx,     \* tx[r]: the transaction of request r
    serial  \* history: no request that committed so far overlapped another's commit

vars == <<day, cat, obs, life, f3, f4, changes, tx, serial>>

Days == 0..MaxDay
Firmware == Versions \cup {None}
Observation == [firmware: Firmware, on: Days]

F2States == {"classified", "unknown", "compliant", "outside_target"}
F4States == {"ready_for_uplift", "blocked"}
\* The states of this pipeline; those of waves and exceptions have modules of their own.
Lifecycle == {"imported"} \cup F2States \cup F4States

DriftReasons == {"empty_catalog", "no_target_matched", "missing_upgrade_path",
                 "missing_observation"}
\* age: days of the stale observation the reasons cite, 0 when they cite none.
Row3 == [state: F2States, target: Firmware, observed: Firmware,
         drift: SUBSET DriftReasons, age: Days, on: Days]
\* because: what a not_applicable row gives as its reason.
Row4 == [state: F4States \cup {"not_applicable"},
         because: {"", "no_compliance_evaluation"} \cup F2States,
         applicable: Nat, blockers: SUBSET Blockers,
         target: Firmware, observed: Firmware]

ASSUME ConstantsAssumption ==
    /\ MaxDay \in Nat /\ MaxChanges \in Nat /\ Pauses \subseteq Nat \ {0} /\ Lags \subseteq Nat
    /\ DiscoveryStaleDays \in Nat \ {0} /\ ReadinessStaleDays \in Nat \ {0}
    /\ Catalogues \subseteq Catalogue /\ Reported \subseteq Versions \cup {None}
    /\ \A c \in Catalogues, pair \in Versions \X Versions : pair \in c.paths => pair[2] \in c.reached
    /\ PathBlocker \notin Rules
    /\ None \notin Versions \cup Catalogue \cup Observation \cup Row3 \cup Row4

---------------------------------------------------------------------------
(* The verdicts *)

Resolved(c) == c.live /\ c.covers
TargetVersion(c) == IF Resolved(c) THEN c.version ELSE None

F2Verdict(c, o) ==
    IF ~Resolved(c) THEN "classified"
    ELSE IF o.firmware = None THEN "unknown"
    ELSE IF o.firmware = c.version THEN "compliant" ELSE "outside_target"

\* Rules whose inputs never change a verdict here are left out: package drift, and
\* evidence drift, which every compliant device has.
DriftOf(c, o) ==
    LET state == F2Verdict(c, o) IN
    {d \in DriftReasons :
        \/ d = "empty_catalog" /\ state = "classified" /\ ~c.live
        \/ d = "no_target_matched" /\ state = "classified" /\ c.live
        \/ d = "missing_upgrade_path" /\ state = "outside_target" /\ c.version \notin c.reached
        \/ d = "missing_observation" /\ o.firmware = None}

StaleAge(o, today) ==
    IF o.firmware # None /\ today - o.on > DiscoveryStaleDays THEN today - o.on ELSE 0

ComplianceRow(c, o, today) ==
    [state |-> F2Verdict(c, o), target |-> TargetVersion(c), observed |-> o.firmware,
     drift |-> DriftOf(c, o), age |-> StaleAge(o, today), on |-> today]

\* Mutants: the comparison is of states only; the time of the evaluation counts.
Same3ByState(prev, row) == prev # None /\ prev.state = row.state
Same3WithTime(prev, row) == prev = row

\* _verdict_unchanged: everything but the time of the evaluation.
Same3(prev, row) == prev # None /\ prev = [row EXCEPT !.on = prev.on]

\* Its versions are left out: they are copied from the F3 row and never compared.
NotApplicable(reason) ==
    [state |-> "not_applicable", because |-> reason, applicable |-> 0, blockers |-> {},
     target |-> None, observed |-> None]

\* Blockers of severity recommended change no verdict and are left out.
BlockersOf(row, c) ==
    c.failing \cup (IF <<row.observed, row.target>> \in c.paths THEN {} ELSE {PathBlocker})

ReadinessRow(row, c) ==
    IF row = None THEN NotApplicable("no_compliance_evaluation")
    ELSE IF row.state # "outside_target" THEN NotApplicable(row.state)
    ELSE [state |-> IF BlockersOf(row, c) = {} THEN "ready_for_uplift" ELSE "blocked",
          because |-> "", applicable |-> c.applicable, blockers |-> BlockersOf(row, c),
          target |-> row.target, observed |-> row.observed]

\* Mutant: the comparison is of states only.
Same4ByState(prev, row) == prev # None /\ prev.state = row.state

Same4(prev, row) == prev = row

TooOld(row) == row # None /\ day - row.on > ReadinessStaleDays

---------------------------------------------------------------------------
(* Transactions *)

\* The evaluator calls of each kind of request, in their order, and then "commit".
\* A readiness request is for this device or for many, this one among them: which of the two
\* shows only when the compliance row is stale, and then the latter is a "batch".
Ops == {"status", "compliance", "readiness", "batch", "reload", "import"}
Calls == {"F2", "F3", "F4", "observe"}
FirstCall(op) == CASE op \in {"status", "reload"} -> "F2"
                   [] op = "compliance" -> "F3"
                   [] op \in {"readiness", "batch"} -> "F4"
                   [] op = "import" -> "observe"
NextCall(op, call) == CASE op = "reload" /\ call = "F2" -> "F3"
                        [] op = "reload" /\ call = "F3" -> "F4"
                        [] OTHER -> "commit"

Tx == [op: Ops \cup {"none"},
       next: Calls \cup {"commit"},
       seen: Lifecycle,        \* lifecycle_state as read, or as last flushed
       put: Lifecycle,         \* lifecycle_state as the session holds it
       held: BOOLEAN,          \* the device row is updated, hence locked
       cat: Catalogue \cup {None},          \* reload: the rows it has loaded
       row3: Row3 \cup {None}, \* rows to insert
       row4: Row4 \cup {None},
       new: Observation \cup {None},
       late: SUBSET {"F3", "F4"},  \* tables others have inserted into since our `now'
       alone: BOOLEAN]         \* history: nobody committed and no day passed meanwhile

Idle == [op |-> "none", next |-> "commit", seen |-> "imported", put |-> "imported",
         held |-> FALSE, cat |-> None, row3 |-> None, row4 |-> None, new |-> None,
         late |-> {}, alone |-> TRUE]

View(r) == IF tx[r].cat = None THEN cat ELSE tx[r].cat
DeviceFree(r) == \A q \in Requests \ {r} : ~tx[q].held
Ready(r, call) == tx[r].op # "none" /\ tx[r].next = call

\* The latest row by evaluated_at once own is inserted: another transaction's row that was
\* committed after our `now' may or may not be newer.
Latest(r, own, committed, call) ==
    IF own = None THEN {committed}
    ELSE IF call \in tx[r].late THEN {own, committed} ELSE {own}

Begun(op, call) == [Idle EXCEPT !.op = op, !.next = call, !.seen = life, !.put = life]
After(t) == NextCall(t.op, t.next)

Change == changes < MaxChanges /\ changes' = changes + 1

Begin(r, op) ==
    /\ tx[r].op = "none"
    /\ IF op = "import" THEN Change ELSE UNCHANGED changes
    /\ tx' = [tx EXCEPT ![r] = Begun(op, FirstCall(op))]
    /\ UNCHANGED <<day, cat, obs, life, f3, f4, serial>>

\* The devices a reload evaluates again: set1, in a firmware-derived state; set2, covered
\* by a target this load changed, as its selector is now; set3, covered by a rule this
\* load changed, unless the change is that it covers the device no longer.
FirmwareStates == {"compliant", "outside_target", "unknown"}  \* target_defined is unused
TargetTouched(c) == /\ <<c.live, c.covers, c.version>> # <<cat.live, cat.covers, cat.version>>
                    /\ c.covers
RulesTouched(c, narrowed) ==
    \/ ~(c.failing \subseteq cat.failing) \/ c.applicable > cat.applicable
    \/ <<c.failing, c.applicable>> # <<cat.failing, cat.applicable>> /\ ~narrowed

Affected(c, narrowed) ==
    life \in FirmwareStates \/ TargetTouched(c) \/ RulesTouched(c, narrowed)

\* One reload at a time.
BeginReload(r) ==
    /\ tx[r].op = "none" /\ \A q \in Requests : tx[q].op # "reload"
    /\ Change
    /\ \E c \in Catalogues, narrowed \in BOOLEAN :
         tx' = [tx EXCEPT ![r] =
                  [Begun("reload", IF Affected(c, narrowed) THEN FirstCall("reload") ELSE "commit")
                     EXCEPT !.cat = c]]
    /\ UNCHANGED <<day, cat, obs, life, f3, f4, serial>>

\* Mutant: F2 leaves a readiness verdict in place.
AfterF2Politely(t, verdict) ==
    IF t.put \in F4States THEN [t EXCEPT !.next = After(t)]
    ELSE [t EXCEPT !.next = After(t), !.seen = verdict, !.put = verdict,
                   !.held = @ \/ verdict # t.put]

\* The transaction t after its next call, an F2 evaluation or one that begins with it, has
\* found `verdict'.  A changed lifecycle is flushed at once.
AfterF2(t, verdict) ==
    [t EXCEPT !.next = After(t), !.seen = IF verdict = t.put THEN @ ELSE verdict,
              !.put = verdict, !.held = @ \/ verdict # t.put]

\* The flush waits for the device row.
F2(r) ==
    /\ Ready(r, "F2")
    /\ LET verdict == F2Verdict(View(r), obs)
       IN /\ verdict # tx[r].put => DeviceFree(r)
          /\ tx' = [tx EXCEPT ![r] = [AfterF2(@, verdict) EXCEPT !.late = {}]]
    /\ UNCHANGED <<day, cat, obs, life, f3, f4, changes, serial>>

\* F3 calls F2 and makes a row of its answer.
F3(r) ==
    /\ Ready(r, "F3")
    /\ LET row == ComplianceRow(View(r), obs, day)
       IN /\ row.state # tx[r].put => DeviceFree(r)
          /\ tx' = [tx EXCEPT ![r] =
                      [AfterF2(@, row.state) EXCEPT !.late = {},
                         !.row3 = IF Same3(f3, row) THEN None ELSE row]]
    /\ UNCHANGED <<day, cat, obs, life, f3, f4, changes, serial>>

\* Mutant: a carve-out is written as well.
LifecycleOfAny(row, put) == row.state

\* A carve-out leaves the lifecycle alone.
LifecycleOf(row, put) == IF row.state \in F4States THEN row.state ELSE put

\* A row that is not the latest is dropped from the model.  The lifecycle is only assigned:
\* the session writes it at commit.
F4Judge(r) ==
    /\ Ready(r, "F4")
    /\ \E latest \in Latest(r, tx[r].row3, f3, "F3") :
         LET row == ReadinessRow(latest, View(r))
             fresh == ~Same4(f4, row)
         IN /\ ~TooOld(latest)
            /\ tx' = [tx EXCEPT ![r].next = After(tx[r]),
                                ![r].row3 = IF latest = @ THEN @ ELSE None,
                                ![r].row4 = IF fresh THEN row ELSE None,
                                ![r].put = IF fresh THEN LifecycleOf(row, @) ELSE @,
                                ![r].late = {}]
    /\ UNCHANGED <<day, cat, obs, life, f3, f4, changes, serial>>

Stale(r) == \E latest \in Latest(r, tx[r].row3, f3, "F3") : TooOld(latest)

\* 409 READINESS_INPUT_STALE: the request is rolled back.
F4Refuse(r) ==
    /\ Ready(r, "F4") /\ tx[r].op = "readiness" /\ Stale(r)
    /\ tx' = [tx EXCEPT ![r] = Idle]
    /\ UNCHANGED <<day, cat, obs, life, f3, f4, changes, serial>>

\* A batch counts the device and goes on to the next; a reload does the same.
F4Skip(r) ==
    /\ Ready(r, "F4") /\ Stale(r)
    /\ tx' = [tx EXCEPT ![r].next = After(tx[r]),
                        ![r].op = IF @ = "readiness" THEN "batch" ELSE @]
    /\ UNCHANGED <<day, cat, obs, life, f3, f4, changes, serial>>

\* One row of an import of a device already known: the device row is always updated, its
\* lifecycle only from imported and when the row could be normalized.
Observe(r) ==
    /\ Ready(r, "observe") /\ DeviceFree(r)
    /\ \E firmware \in Reported, lag \in Lags, classified \in BOOLEAN :
         LET put == IF classified /\ tx[r].seen = "imported" THEN "classified"
                    ELSE tx[r].seen
         IN /\ lag <= day
            /\ tx' = [tx EXCEPT ![r].next = After(tx[r]),
                                ![r].seen = put, ![r].put = put, ![r].held = TRUE,
                                ![r].new = [firmware |-> firmware, on |-> day - lag]]
    /\ UNCHANGED <<day, cat, obs, life, f3, f4, changes, serial>>

Dirty(r) == tx[r].put # tx[r].seen

Observed(o, new) == [firmware |-> IF new.firmware = None THEN o.firmware ELSE new.firmware,
                     on |-> IF new.on > o.on THEN new.on ELSE o.on]

Inserted(r) == {t \in {"F3", "F4"} : \/ t = "F3" /\ tx[r].row3 # None
                                     \/ t = "F4" /\ tx[r].row4 # None}

Interrupted(t, tables) ==
    IF t.op = "none" THEN t ELSE [t EXCEPT !.late = @ \cup tables, !.alone = FALSE]

Commit(r) ==
    /\ Ready(r, "commit")
    /\ Dirty(r) => DeviceFree(r)
    /\ cat' = View(r)
    /\ obs' = IF tx[r].new = None THEN obs ELSE Observed(obs, tx[r].new)
    /\ life' = IF tx[r].held \/ Dirty(r) THEN tx[r].put ELSE life
    /\ f3' \in Latest(r, tx[r].row3, f3, "F3")
    /\ f4' \in Latest(r, tx[r].row4, f4, "F4")
    /\ tx' = [q \in Requests |-> IF q = r THEN Idle ELSE Interrupted(tx[q], Inserted(r))]
    /\ serial' = (serial /\ tx[r].alone)
    /\ UNCHANGED <<day, changes>>

\* A crash, an error or a lost connection.
Abort(r) ==
    /\ tx[r].op # "none"
    /\ tx' = [tx EXCEPT ![r] = Idle]
    /\ UNCHANGED <<day, cat, obs, life, f3, f4, changes, serial>>

DaysPass ==
    /\ \E n \in Pauses : day + n <= MaxDay /\ day' = day + n
    /\ tx' = [q \in Requests |-> Interrupted(tx[q], {})]
    /\ UNCHANGED <<cat, obs, life, f3, f4, changes, serial>>

Next ==
    \/ \E r \in Requests :
         \/ \E op \in Ops \ {"reload", "batch"} : Begin(r, op)
         \/ BeginReload(r) \/ F2(r) \/ F3(r) \/ F4Judge(r) \/ F4Refuse(r) \/ F4Skip(r)
         \/ Observe(r) \/ Commit(r) \/ Abort(r)
    \/ DaysPass

\* A device that an import has just created.
Init ==
    /\ day = 0 /\ cat \in Catalogues
    /\ obs \in [firmware : Reported, on : {0}]
    /\ life \in {"imported", "classified"}
    /\ f3 = None /\ f4 = None /\ changes = 0
    /\ tx = [r \in Requests |-> Idle] /\ serial = TRUE

Spec == Init /\ [][Next]_vars

---------------------------------------------------------------------------
(* Properties *)

TypeOK ==
    /\ day \in Days /\ cat \in Catalogue /\ obs \in Observation /\ life \in Lifecycle
    /\ f3 \in Row3 \cup {None} /\ f4 \in Row4 \cup {None}
    /\ changes \in 0..MaxChanges /\ tx \in [Requests -> Tx] /\ serial \in BOOLEAN

\* A device whose lifecycle is a readiness verdict has outside_target as its latest
\* compliance verdict, as long as no two requests overlapped: F4 judges nothing else, and
\* F3 cannot record anything else without F2 taking the lifecycle back.
VerdictOnlyOutside ==
    serial /\ life \in F4States => f3 # None /\ f3.state = "outside_target"

\* A row, whenever inserted, that says what the catalogue and the observations say today.
Says(row, c, o) == row # None /\ row = [ComplianceRow(c, o, day) EXCEPT !.on = row.on]

\* A compliance evaluation that nothing overlapped leaves the lifecycle and the latest F3
\* row saying what the catalogue and the observations say at that moment, also when it
\* finds the verdict unchanged and inserts nothing.
QuietComplianceAgrees ==
    [][\A r \in Requests :
         Commit(r) /\ tx[r].op = "compliance" /\ tx[r].alone =>
           /\ life' = F2Verdict(cat, obs)
           /\ Says(f3', cat, obs)]_vars

\* A readiness evaluation that nothing overlapped leaves the latest F4 row saying what
\* follows from the latest F3 row and the catalogue; a row it inserts is also in the
\* lifecycle of the device.
QuietReadinessAgrees ==
    [][\A r \in Requests :
         Commit(r) /\ tx[r].op = "readiness" /\ tx[r].alone =>
           /\ f4' = ReadinessRow(f3, cat)
           /\ f4' # f4 /\ f4'.state \in F4States => life' = f4'.state]_vars

\* An evaluation of what was already judged, with nothing overlapping, writes nothing:
\* "re-calling against unchanged inputs produces no DB write".
SettledIsSilent ==
    [][\A r \in Requests :
         /\ Commit(r) /\ tx[r].op \in {"compliance", "readiness"} /\ tx[r].alone
         /\ tx[r].op = "compliance" => life = F2Verdict(cat, obs) /\ Says(f3, cat, obs)
         /\ tx[r].op = "readiness" => f4 = ReadinessRow(f3, cat)
         => UNCHANGED <<life, f3, f4>>]_vars

---------------------------------------------------------------------------
(* What documents and messages say, and the code does not do *)

\* The 409 of a stale F3 row tells the caller to refresh it with a compliance evaluation:
\* after one, the row is not stale.
RefreshClearsStale ==
    [][\A r \in Requests :
         Commit(r) /\ tx[r].op = "compliance" /\ tx[r].alone
           => day - f3'.on <= ReadinessStaleDays]_vars

==================================================================================
