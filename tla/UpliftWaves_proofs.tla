----------------------------- MODULE UpliftWaves_proofs -----------------------------
(***************************************************************************)
(* Proofs about UpliftWaves, for every set of waves, devices, principals   *)
(* and requests.  The argument turns on the wave row lock: a transaction   *)
(* that won the guarded UPDATE of a wave is the only one that can change   *)
(* its state until it commits, so what it decided from stays true.         *)
(***************************************************************************)
EXTENDS UpliftWaves, TLAPS

(***************************************************************************)
(* The inductive invariant.                                                *)
(***************************************************************************)

\* Two transactions never hold the same wave row.
WonExclusive ==
    \A q, r \in Requests : q # r => tx[q].won \cap tx[r].won = {}

\* Which fields a transaction has filled in at each of its steps.
Shape(r) ==
    /\ tx[r].pc = "idle" => tx[r] = Idle
    /\ tx[r].op = "none" => tx[r].pc = "idle"
    /\ tx[r].op \in WaveOps => tx[r].pc \in {"guard", "load", "flush"} /\ tx[r].wave \in Waves
                                 /\ tx[r].actor \in Users
    /\ tx[r].op = "evaluate" => tx[r].pc = "flush" /\ tx[r].won = {}
    /\ tx[r].op = "reload" => tx[r].pc \in {"verdicts", "pick", "guard", "load"}
    /\ tx[r].pc \in {"guard", "load"} => tx[r].wave \in Waves
    /\ tx[r].pc = "guard" /\ tx[r].op \in WaveOps => tx[r].won = {}
    /\ tx[r].pc \in {"load", "flush"} /\ tx[r].op \in WaveOps => tx[r].won = {tx[r].wave}
    /\ tx[r].pc = "load" => tx[r].wave \in tx[r].won

\* Only a submit writes approval_pending and only an approve writes approved, to members
\* of the wave it holds.
PutOrigin(r) ==
    \A d \in Devices :
        /\ tx[r].put[d] = "approval_pending" =>
               tx[r].op = "submit" /\ tx[r].pc = "flush" /\ d \in wave[tx[r].wave].members
        /\ tx[r].put[d] = "approved" =>
               tx[r].op = "approve" /\ tx[r].pc = "flush" /\ d \in wave[tx[r].wave].members

\* The decision a transaction is carrying out was legal in the state it read.
Decision(r) ==
    /\ tx[r].wave \in Waves => wave[tx[r].wave].state # "none"
    /\ tx[r].pc \in {"guard", "load"} => <<tx[r].from, Target(tx[r].op)>> \in WaveEdges
    /\ tx[r].op = "approve" => tx[r].actor # wave[tx[r].wave].drafted_by

\* ... and still is in every wave whose row it holds.
WonLegal(r) ==
    /\ \A w \in tx[r].won : <<wave[w].state, Target(tx[r].op)>> \in WaveEdges
    /\ tx[r].pc = "load" => wave[tx[r].wave].state = tx[r].from

ReqInv(r) == Shape(r) /\ PutOrigin(r) /\ Decision(r) /\ WonLegal(r)

\* A parked device has a submitted wave whose holder, if it has one, has either not
\* loaded the members yet or is about to write this device.
Carries(w, d) ==
    /\ wave[w].state = "submitted"
    /\ d \in wave[w].members
    /\ \A r \in Requests :
          w \in tx[r].won /\ ~(tx[r].pc = "load" /\ tx[r].wave = w) => tx[r].put[d] # Keep

Carried ==
    \A d \in Devices : life[d] = "approval_pending" => \E w \in Waves : Carries(w, d)

IInv ==
    /\ TypeOK
    /\ WonExclusive
    /\ \A r \in Requests : ReqInv(r)
    /\ Carried
    /\ ApprovedHasApprovedWave

-----------------------------------------------------------------------------
(***************************************************************************)
(* Type correctness.                                                       *)
(***************************************************************************)

\* What a transaction record contains before it starts has the right type.
LEMMA IdleType == Idle \in Tx
BY DEF Idle, Tx, WaveOps, Lifecycle, EvalStates, Keep, WaveState

\* The initial state has its types.
LEMMA InitType == Init => TypeOK
BY IdleType DEF Init, TypeOK, WaveRow, WaveState, Lifecycle, EvalStates, Users

\* Every action keeps the types; Shape says that a guard or a load has a wave.
LEMMA StepType == TypeOK /\ (\A r \in Requests : Shape(r)) /\ [Next]_vars => TypeOK'
<1> SUFFICES ASSUME TypeOK, \A r \in Requests : Shape(r), [Next]_vars PROVE TypeOK'
    OBVIOUS
<1> USE ConstantsAssumption
<1> DEFINE Update(r, t) == tx' = [tx EXCEPT ![r] = t] /\ UNCHANGED <<wave, life>>
<1>0. ASSUME NEW r \in Requests, NEW t \in Tx, Update(r, t) PROVE TypeOK'
  BY <1>0 DEF TypeOK
<1>1. ASSUME NEW w \in Waves, NEW u \in Drafters, NEW S \in Scopes, Draft(w, u, S)
      PROVE  TypeOK'
  <2>1. wave[w] \in WaveRow /\ S \in SUBSET Devices /\ u \in Users
    BY DEF TypeOK, Users
  <2>2. [wave[w] EXCEPT !.state = "draft", !.drafted_by = u, !.members = S] \in WaveRow
    BY <2>1 DEF WaveRow, WaveState
  <2> QED
    BY <1>1, <2>2 DEF Draft, TypeOK
<1>2. ASSUME NEW r \in Requests, NEW op \in WaveOps, NEW w \in Waves, NEW u \in Users,
             Begin(r, op, w, u)
      PROVE  TypeOK'
  <2> DEFINE t == [Idle EXCEPT !.pc = "guard", !.op = op, !.actor = u, !.wave = w,
                               !.from = wave[w].state]
  <2>1. wave[w].state \in WaveState \cup {"none"}
    BY DEF TypeOK, WaveRow
  <2>2. t \in Tx
    BY <2>1, IdleType DEF Tx, WaveOps
  <2>3. Update(r, t)
    BY <1>2 DEF Begin
  <2> QED
    BY <1>0, <2>2, <2>3
<1>3. ASSUME NEW r \in Requests, NEW d \in Devices, NEW v \in EvalStates, Evaluate(r, d, v)
      PROVE  TypeOK'
  <2> DEFINE t == [Idle EXCEPT !.pc = "flush", !.op = "evaluate",
                               !.put = [@ EXCEPT ![d] = v]]
  <2>1. t \in Tx
    BY IdleType DEF Tx, Lifecycle
  <2>2. Update(r, t)
    BY <1>3 DEF Evaluate
  <2> QED
    BY <1>0, <2>1, <2>2
<1>4. ASSUME NEW r \in Requests, NEW A \in SUBSET Devices,
             NEW v \in [Devices -> EvalStates], Reload(r, A, v)
      PROVE  TypeOK'
  <2> DEFINE put == [d \in Devices |-> IF d \in A /\ v[d] # life[d] THEN v[d] ELSE Keep]
             t == [Idle EXCEPT !.pc = "verdicts", !.op = "reload", !.aff = A, !.put = put]
  <2>1. put \in [Devices -> Lifecycle \cup {Keep}]
    BY DEF Lifecycle
  <2>2. t \in Tx
    BY <2>1, IdleType DEF Tx
  <2>3. Update(r, t)
    BY <1>4 DEF Reload
  <2> QED
    BY <1>0, <2>2, <2>3
<1>5. ASSUME NEW r \in Requests, Guard(r) PROVE TypeOK'
  <2> DEFINE t == [tx[r] EXCEPT !.pc = "load", !.won = tx[r].won \cup {tx[r].wave}]
  <2>1. tx[r] \in Tx /\ tx[r].wave \in Waves
    BY <1>5 DEF Guard, TypeOK, Shape
  <2>2. t \in Tx
    BY <2>1 DEF Tx
  <2>3. Update(r, t)
    BY <1>5 DEF Guard
  <2> QED
    BY <1>0, <2>2, <2>3
<1>6. ASSUME NEW r \in Requests, GuardLost(r) PROVE TypeOK'
  <2> DEFINE t == IF tx[r].op = "reload"
                  THEN [tx[r] EXCEPT !.pc = "pick", !.wave = None,
                                     !.cands = tx[r].cands \ {tx[r].wave}]
                  ELSE Idle
  <2>1. tx[r] \in Tx
    BY DEF TypeOK
  <2>2. t \in Tx
    <3>1. tx[r].cands \ {tx[r].wave} \in SUBSET Waves
      BY <2>1 DEF Tx
    <3>2. [tx[r] EXCEPT !.pc = "pick", !.wave = None,
                        !.cands = tx[r].cands \ {tx[r].wave}] \in Tx
      BY <2>1, <3>1 DEF Tx
    <3> QED
      BY <3>2, IdleType
  <2>3. Update(r, t)
    BY <1>6 DEF GuardLost
  <2> QED
    BY <1>0, <2>2, <2>3
<1>7. ASSUME NEW r \in Requests, Load(r) PROVE TypeOK'
  <2> DEFINE put == [d \in Devices |-> IF d \in Moves(r) THEN MovesTo(tx[r].op)
                                       ELSE tx[r].put[d]]
             t == IF tx[r].op = "reload"
                  THEN [tx[r] EXCEPT !.pc = "pick", !.put = put,
                                     !.cands = tx[r].cands \ {tx[r].wave}, !.wave = None]
                  ELSE [tx[r] EXCEPT !.pc = "flush", !.put = put]
  <2>1. tx[r] \in Tx
    BY DEF TypeOK
  <2>2. put \in [Devices -> Lifecycle \cup {Keep}]
    <3>1. MovesTo(tx[r].op) \in Lifecycle
      BY DEF MovesTo, Lifecycle, EvalStates
    <3> QED
      BY <2>1, <3>1 DEF Tx
  <2>3. t \in Tx
    BY <2>1, <2>2 DEF Tx
  <2>4. Update(r, t)
    BY <1>7 DEF Load
  <2> QED
    BY <1>0, <2>3, <2>4
<1>8. ASSUME NEW r \in Requests, Candidates(r) PROVE TypeOK'
  <2> DEFINE c == {w \in Waves : /\ wave[w].state \in {"draft", "submitted"}
                                 /\ wave[w].members \cap tx[r].aff # {}}
             t == [tx[r] EXCEPT !.pc = "pick", !.cands = c]
  <2>1. tx[r] \in Tx /\ c \in SUBSET Waves
    BY DEF TypeOK
  <2>2. t \in Tx
    BY <2>1 DEF Tx
  <2>3. Update(r, t)
    BY <1>8 DEF Candidates
  <2> QED
    BY <1>0, <2>2, <2>3
<1>9. ASSUME NEW r \in Requests, NEW w \in Waves, Pick(r, w) PROVE TypeOK'
  <2> DEFINE t == IF wave[w].state \in {"draft", "submitted"}
                  THEN [tx[r] EXCEPT !.pc = "guard", !.wave = w, !.from = wave[w].state]
                  ELSE [tx[r] EXCEPT !.cands = tx[r].cands \ {w}]
  <2>1. tx[r] \in Tx /\ wave[w].state \in WaveState \cup {"none"}
    BY DEF TypeOK, WaveRow
  <2>2. t \in Tx
    BY <2>1 DEF Tx
  <2>3. Update(r, t)
    BY <1>9 DEF Pick
  <2> QED
    BY <1>0, <2>2, <2>3
<1>10. ASSUME NEW r \in Requests, NEW d \in Devices, Flush(r, d) PROVE TypeOK'
  <2> DEFINE t == [tx[r] EXCEPT !.held = tx[r].held \cup {d}]
  <2>1. tx[r] \in Tx
    BY DEF TypeOK
  <2>2. t \in Tx
    BY <2>1 DEF Tx
  <2>3. Update(r, t)
    BY <1>10 DEF Flush
  <2> QED
    BY <1>0, <2>2, <2>3
<1>11. ASSUME NEW r \in Requests, Commit(r) PROVE TypeOK'
  <2>1. tx[r] \in Tx
    BY DEF TypeOK
  <2>2. \A w \in Waves : Decided(r, w) \in WaveRow
    <3>1. Target(tx[r].op) \in WaveState
      BY DEF Target, WaveState
    <3>2. tx[r].actor \in Users \cup {None}
      BY <2>1 DEF Tx
    <3>3. TAKE w \in Waves
    <3>4. wave[w] \in WaveRow
      BY DEF TypeOK
    <3> DEFINE a == IF tx[r].op = "approve" THEN tx[r].actor ELSE wave[w].approved_by
    <3>5. a \in Users \cup {None}
      BY <3>2, <3>4 DEF WaveRow
    <3>6. [wave[w] EXCEPT !.state = Target(tx[r].op), !.approved_by = a] \in WaveRow
      BY <3>1, <3>4, <3>5 DEF WaveRow
    <3> QED
      BY <3>6 DEF Decided
  <2>3. wave' \in [Waves -> WaveRow]
    BY <1>11, <2>2 DEF Commit, TypeOK
  <2>4. \A d \in Devices : View(r, d) \in Lifecycle
    BY <2>1 DEF View, Tx, TypeOK
  <2>5. life' \in [Devices -> Lifecycle]
    BY <1>11, <2>4 DEF Commit
  <2>6. tx' \in [Requests -> Tx]
    BY <1>11, IdleType DEF Commit, TypeOK
  <2> QED
    BY <2>3, <2>5, <2>6 DEF TypeOK
<1>12. ASSUME NEW r \in Requests, Abort(r) PROVE TypeOK'
  <2>1. Update(r, Idle)
    BY <1>12 DEF Abort
  <2> QED
    BY <1>0, <2>1, IdleType
<1>13. CASE UNCHANGED vars
  BY <1>13 DEF vars, TypeOK
<1> QED
  BY <1>1, <1>2, <1>3, <1>4, <1>5, <1>6, <1>7, <1>8, <1>9, <1>10, <1>11, <1>12, <1>13
  DEF Next, Arrive, Step

-----------------------------------------------------------------------------
(***************************************************************************)
(* What a transaction knows while it runs.                                 *)
(***************************************************************************)

\* A transaction that does not move keeps its invariant when the others leave alone the
\* rows it holds, and the drafter and the members of every drafted wave.
LEMMA Frame ==
    ASSUME TypeOK, NEW q \in Requests, ReqInv(q),
           tx'[q] = tx[q],
           \A w \in Waves : wave[w].state # "none" =>
               /\ wave'[w].state # "none"
               /\ wave'[w].drafted_by = wave[w].drafted_by
               /\ wave'[w].members = wave[w].members,
           \A w \in tx[q].won : wave'[w] = wave[w]
    PROVE  ReqInv(q)'
<1>1. tx[q].won \subseteq Waves
  BY DEF TypeOK, Tx
<1>2. Shape(q)'
  BY DEF ReqInv, Shape
<1>3. PutOrigin(q)'
  <2>1. \A d \in Devices : tx[q].put[d] \in {"approval_pending", "approved"} =>
            tx[q].wave \in Waves /\ wave[tx[q].wave].state # "none"
    BY DEF ReqInv, PutOrigin, Shape, Decision, WaveOps
  <2> QED
    BY <2>1 DEF ReqInv, PutOrigin
<1>4. Decision(q)'
  <2>1. tx[q].op = "approve" => tx[q].wave \in Waves
    BY DEF ReqInv, Shape, WaveOps
  <2> QED
    BY <2>1 DEF ReqInv, Decision
<1>5. WonLegal(q)'
  BY <1>1 DEF ReqInv, WonLegal, Shape
<1> QED
  BY <1>2, <1>3, <1>4, <1>5 DEF ReqInv

\* A request with no transaction satisfies its invariant.
LEMMA IdleInv ==
    ASSUME NEW r \in Requests, tx[r] = Idle
    PROVE  ReqInv(r)
BY ConstantsAssumption DEF ReqInv, Shape, PutOrigin, Decision, WonLegal, Idle, WaveOps, Keep

\* A request touches no transaction but its own, and no committed row before it commits.
LEMMA OwnStep ==
    ASSUME TypeOK, \A q \in Requests : ReqInv(q),
           NEW r \in Requests, NEW t, tx' = [tx EXCEPT ![r] = t], UNCHANGED <<wave, life>>,
           ReqInv(r)'
    PROVE  \A q \in Requests : ReqInv(q)'
<1> TAKE q \in Requests
<1>1. CASE q = r
  BY <1>1
<1>2. CASE q # r
  <2>1. tx'[q] = tx[q]
    BY <1>2 DEF TypeOK
  <2> QED
    BY <2>1, Frame
<1> QED
  BY <1>1, <1>2

\* The state of a wave that may be decided is drafted, open, and leads where it leads.
LEMMA EdgeFacts ==
    /\ \A s, t : <<s, t>> \in WaveEdges => s \in {"draft", "submitted"}
    /\ \A t : <<"none", t>> \notin WaveEdges
    /\ \A s \in {"draft", "submitted"} : <<s, "invalidated">> \in WaveEdges
    /\ \A s : <<s, "submitted">> \in WaveEdges => s = "draft"
BY DEF WaveEdges

\* A decision that wave_decide accepts is a legal edge; an approval is not the drafter's.
LEMMA DecideFacts ==
    ASSUME NEW s, NEW op \in WaveOps, NEW k, NEW u, NEW v,
           WaveDecide(s, Target(op), k, u, v) = "ok"
    PROVE  /\ <<s, Target(op)>> \in WaveEdges
           /\ op = "approve" => u # v
<1>1. <<s, Target(op)>> \in WaveEdges
  BY DEF WaveDecide
<1>2. ASSUME op = "approve" PROVE u # v
  <2>1. Target(op) = "approved"
    BY <1>2 DEF Target
  <2>2. s = "submitted"
    BY <1>1, <2>1 DEF WaveEdges
  <2> QED
    BY <2>1, <2>2 DEF WaveDecide, WaveSodEdges
<1> QED
  BY <1>1, <1>2

\* Every action but a commit keeps the invariant of every transaction.
LEMMA StepReq ==
    ASSUME TypeOK, WonExclusive, \A q \in Requests : ReqInv(q), NEW r \in Requests,
           Arrive(r) \/ Step(r) \/ Abort(r), ~ Commit(r)
    PROVE  \A q \in Requests : ReqInv(q)'
<1> USE ConstantsAssumption
<1>0. tx[r] \in Tx /\ ReqInv(r)
  BY DEF TypeOK
<1>1. ASSUME NEW op \in WaveOps, NEW w \in Waves, NEW u \in Users, Begin(r, op, w, u)
      PROVE  \A q \in Requests : ReqInv(q)'
  <2> DEFINE t == [Idle EXCEPT !.pc = "guard", !.op = op, !.actor = u, !.wave = w,
                               !.from = wave[w].state]
  <2>1. tx' = [tx EXCEPT ![r] = t] /\ UNCHANGED <<wave, life>> /\ tx'[r] = t
    BY <1>1 DEF Begin, TypeOK
  <2>2. /\ <<wave[w].state, Target(op)>> \in WaveEdges
        /\ op = "approve" => u # wave[w].drafted_by
    BY <1>1, DecideFacts DEF Begin
  <2>3. t.pc = "guard" /\ t.op = op /\ t.actor = u /\ t.wave = w
        /\ t.from = wave[w].state /\ t.won = {} /\ t.put = [d \in Devices |-> Keep]
    BY DEF Idle
  <2>4. ReqInv(r)'
    <3>1. Shape(r)'
      BY <2>1, <2>3 DEF Shape, WaveOps
    <3>2. PutOrigin(r)'
      <4>1. \A d \in Devices : tx'[r].put[d] = Keep
        BY <2>1, <2>3
      <4> QED
        BY <4>1 DEF PutOrigin, Keep
    <3>3. Decision(r)'
      BY <1>1, <2>1, <2>2, <2>3 DEF Decision, Begin
    <3>4. WonLegal(r)'
      BY <2>1, <2>3 DEF WonLegal
    <3> QED
      BY <3>1, <3>2, <3>3, <3>4 DEF ReqInv
  <2> QED
    BY <2>1, <2>4, OwnStep
<1>2. ASSUME NEW d \in Devices, NEW v \in EvalStates, Evaluate(r, d, v)
      PROVE  \A q \in Requests : ReqInv(q)'
  <2> DEFINE t == [Idle EXCEPT !.pc = "flush", !.op = "evaluate",
                               !.put = [@ EXCEPT ![d] = v]]
  <2>1. tx' = [tx EXCEPT ![r] = t] /\ UNCHANGED <<wave, life>> /\ tx'[r] = t
    BY <1>2 DEF Evaluate, TypeOK
  <2>2. t.pc = "flush" /\ t.op = "evaluate" /\ t.wave = None /\ t.won = {}
        /\ \A e \in Devices : t.put[e] \in EvalStates \cup {Keep}
    BY DEF Idle
  <2>3. ReqInv(r)'
    BY <2>1, <2>2
    DEF ReqInv, Shape, PutOrigin, Decision, WonLegal, WaveOps, EvalStates, Keep
  <2> QED
    BY <2>1, <2>3, OwnStep
<1>3. ASSUME NEW A \in SUBSET Devices, NEW v \in [Devices -> EvalStates], Reload(r, A, v)
      PROVE  \A q \in Requests : ReqInv(q)'
  <2> DEFINE put == [d \in Devices |-> IF d \in A /\ v[d] # life[d] THEN v[d] ELSE Keep]
             t == [Idle EXCEPT !.pc = "verdicts", !.op = "reload", !.aff = A, !.put = put]
  <2>1. tx' = [tx EXCEPT ![r] = t] /\ UNCHANGED <<wave, life>> /\ tx'[r] = t
    BY <1>3 DEF Reload, TypeOK
  <2>2. t.pc = "verdicts" /\ t.op = "reload" /\ t.wave = None /\ t.won = {}
        /\ \A e \in Devices : t.put[e] \in EvalStates \cup {Keep}
    BY DEF Idle
  <2>3. ReqInv(r)'
    BY <2>1, <2>2
    DEF ReqInv, Shape, PutOrigin, Decision, WonLegal, WaveOps, EvalStates, Keep
  <2> QED
    BY <2>1, <2>3, OwnStep
<1>4. ASSUME Guard(r) PROVE \A q \in Requests : ReqInv(q)'
  <2> DEFINE t == [tx[r] EXCEPT !.pc = "load", !.won = tx[r].won \cup {tx[r].wave}]
  <2>1. tx' = [tx EXCEPT ![r] = t] /\ UNCHANGED <<wave, life>> /\ tx'[r] = t
    BY <1>4 DEF Guard, TypeOK
  <2>2. /\ t.pc = "load" /\ t.won = tx[r].won \cup {tx[r].wave}
        /\ t.op = tx[r].op /\ t.wave = tx[r].wave /\ t.from = tx[r].from
        /\ t.put = tx[r].put /\ t.actor = tx[r].actor
    BY <1>0 DEF Tx
  <2>3. tx[r].pc = "guard" /\ wave[tx[r].wave].state = tx[r].from
    BY <1>4 DEF Guard
  <2>4. Shape(r)'
    BY <1>0, <2>1, <2>2, <2>3 DEF ReqInv, Shape, WaveOps
  <2>5. PutOrigin(r)'
    BY <1>0, <2>1, <2>2, <2>3 DEF ReqInv, PutOrigin
  <2>6. Decision(r)'
    BY <1>0, <2>1, <2>2, <2>3 DEF ReqInv, Decision
  <2>7. WonLegal(r)'
    BY <1>0, <2>1, <2>2, <2>3 DEF ReqInv, Decision, WonLegal
  <2> QED
    BY <2>1, <2>4, <2>5, <2>6, <2>7, OwnStep DEF ReqInv
<1>5. ASSUME GuardLost(r) PROVE \A q \in Requests : ReqInv(q)'
  <2> DEFINE t == [tx[r] EXCEPT !.pc = "pick", !.wave = None,
                                !.cands = tx[r].cands \ {tx[r].wave}]
  <2>1. CASE tx[r].op = "reload"
    <3>1. tx' = [tx EXCEPT ![r] = t] /\ UNCHANGED <<wave, life>> /\ tx'[r] = t
      BY <1>5, <2>1 DEF GuardLost, TypeOK
    <3>2. /\ t.pc = "pick" /\ t.wave = None /\ t.op = "reload"
          /\ t.won = tx[r].won /\ t.put = tx[r].put
      BY <1>0, <2>1 DEF Tx
    <3>3. ReqInv(r)'
      BY <1>0, <2>1, <3>1, <3>2
      DEF ReqInv, Shape, PutOrigin, Decision, WonLegal, WaveOps
    <3> QED
      BY <3>1, <3>3, OwnStep
  <2>2. CASE tx[r].op # "reload"
    <3>1. tx' = [tx EXCEPT ![r] = Idle] /\ UNCHANGED <<wave, life>> /\ tx'[r] = Idle
      BY <1>5, <2>2 DEF GuardLost, TypeOK
    <3>2. ReqInv(r)'
      BY <3>1, ConstantsAssumption
      DEF ReqInv, Shape, PutOrigin, Decision, WonLegal, Idle, WaveOps, Keep
    <3> QED
      BY <3>1, <3>2, OwnStep
  <2> QED
    BY <2>1, <2>2
<1>6. ASSUME Load(r) PROVE \A q \in Requests : ReqInv(q)'
  <2> DEFINE put == [d \in Devices |-> IF d \in Moves(r) THEN MovesTo(tx[r].op)
                                       ELSE tx[r].put[d]]
  <2>0. /\ tx[r].pc = "load"
        /\ tx[r].op \in WaveOps \cup {"reload"}
    BY <1>0, <1>6 DEF Load, ReqInv, Shape, Tx
  <2>1. CASE tx[r].op = "reload"
    <3> DEFINE t == [tx[r] EXCEPT !.pc = "pick", !.put = put,
                                  !.cands = tx[r].cands \ {tx[r].wave}, !.wave = None]
    <3>1. tx' = [tx EXCEPT ![r] = t] /\ UNCHANGED <<wave, life>> /\ tx'[r] = t
      BY <1>6, <2>1 DEF Load, TypeOK
    <3>2. /\ t.pc = "pick" /\ t.wave = None /\ t.op = "reload"
          /\ t.won = tx[r].won /\ t.put = put
      BY <1>0, <2>1 DEF Tx
    <3>3. \A d \in Devices : put[d] \notin {"approval_pending", "approved"}
      BY <1>0, <2>0, <2>1 DEF MovesTo, ReqInv, PutOrigin
    <3>4. ReqInv(r)'
      BY <1>0, <2>1, <3>1, <3>2, <3>3
      DEF ReqInv, Shape, PutOrigin, Decision, WonLegal, WaveOps
    <3> QED
      BY <3>1, <3>4, OwnStep
  <2>2. CASE tx[r].op # "reload"
    <3> DEFINE t == [tx[r] EXCEPT !.pc = "flush", !.put = put]
    <3>1. tx' = [tx EXCEPT ![r] = t] /\ UNCHANGED <<wave, life>> /\ tx'[r] = t
      BY <1>6, <2>2 DEF Load, TypeOK
    <3>2. /\ t.pc = "flush" /\ t.wave = tx[r].wave /\ t.op = tx[r].op
          /\ t.won = tx[r].won /\ t.put = put /\ t.actor = tx[r].actor
      BY <1>0 DEF Tx
    <3>3. \A d \in Devices :
             /\ put[d] = "approval_pending" =>
                   tx[r].op = "submit" /\ d \in wave[tx[r].wave].members
             /\ put[d] = "approved" =>
                   tx[r].op = "approve" /\ d \in wave[tx[r].wave].members
      BY <1>0, <2>0 DEF MovesTo, Moves, ReqInv, PutOrigin
    <3>4. Shape(r)'
      BY <1>0, <2>0, <2>2, <3>1, <3>2 DEF ReqInv, Shape, WaveOps
    <3>5. PutOrigin(r)'
      BY <3>1, <3>2, <3>3 DEF PutOrigin
    <3>6. Decision(r)' /\ WonLegal(r)'
      BY <1>0, <3>1, <3>2 DEF ReqInv, Decision, WonLegal
    <3> QED
      BY <3>1, <3>4, <3>5, <3>6, OwnStep DEF ReqInv
  <2> QED
    BY <2>1, <2>2
<1>7. ASSUME Candidates(r) PROVE \A q \in Requests : ReqInv(q)'
  <2> DEFINE open == {w \in Waves : /\ wave[w].state \in {"draft", "submitted"}
                                    /\ wave[w].members \cap tx[r].aff # {}}
             t == [tx[r] EXCEPT !.pc = "pick", !.cands = open]
  <2>1. tx' = [tx EXCEPT ![r] = t] /\ UNCHANGED <<wave, life>> /\ tx'[r] = t
    BY <1>7 DEF Candidates, TypeOK
  <2>2. /\ t.pc = "pick" /\ t.wave = tx[r].wave /\ t.op = tx[r].op
        /\ t.won = tx[r].won /\ t.put = tx[r].put /\ t.actor = tx[r].actor
        /\ t.from = tx[r].from
    BY <1>0 DEF Tx
  <2>3. tx[r].pc = "verdicts" /\ tx[r].op = "reload"
    BY <1>0, <1>7 DEF Candidates, ReqInv, Shape, Tx
  <2>4. ReqInv(r)'
    BY <1>0, <2>1, <2>2, <2>3 DEF ReqInv, Shape, PutOrigin, Decision, WonLegal, WaveOps
  <2> QED
    BY <2>1, <2>4, OwnStep
<1>8. ASSUME NEW w \in Waves, Pick(r, w) PROVE \A q \in Requests : ReqInv(q)'
  <2>0. tx[r].pc = "pick" /\ tx[r].op = "reload"
    BY <1>0, <1>8 DEF Pick, ReqInv, Shape, Tx
  <2>1. CASE wave[w].state \in {"draft", "submitted"}
    <3> DEFINE t == [tx[r] EXCEPT !.pc = "guard", !.wave = w, !.from = wave[w].state]
    <3>1. tx' = [tx EXCEPT ![r] = t] /\ UNCHANGED <<wave, life>> /\ tx'[r] = t
      BY <1>8, <2>1 DEF Pick, TypeOK
    <3>2. /\ t.pc = "guard" /\ t.wave = w /\ t.op = "reload" /\ t.from = wave[w].state
          /\ t.won = tx[r].won /\ t.put = tx[r].put
      BY <1>0, <2>0 DEF Tx
    <3>3. <<wave[w].state, Target("reload")>> \in WaveEdges
      BY <2>1, EdgeFacts DEF Target
    <3>4. Shape(r)' /\ PutOrigin(r)'
      BY <1>0, <2>0, <3>1, <3>2 DEF ReqInv, Shape, PutOrigin, WaveOps
    <3>5. Decision(r)' /\ WonLegal(r)'
      BY <1>0, <2>0, <2>1, <3>1, <3>2, <3>3 DEF ReqInv, Decision, WonLegal
    <3> QED
      BY <3>1, <3>4, <3>5, OwnStep DEF ReqInv
  <2>2. CASE wave[w].state \notin {"draft", "submitted"}
    <3> DEFINE t == [tx[r] EXCEPT !.cands = tx[r].cands \ {w}]
    <3>1. tx' = [tx EXCEPT ![r] = t] /\ UNCHANGED <<wave, life>> /\ tx'[r] = t
      BY <1>8, <2>2 DEF Pick, TypeOK
    <3>2. /\ t.pc = "pick" /\ t.wave = tx[r].wave /\ t.op = "reload"
          /\ t.won = tx[r].won /\ t.put = tx[r].put
      BY <1>0, <2>0 DEF Tx
    <3>3. ReqInv(r)'
      BY <1>0, <2>0, <3>1, <3>2 DEF ReqInv, Shape, PutOrigin, Decision, WonLegal, WaveOps
    <3> QED
      BY <3>1, <3>3, OwnStep
  <2> QED
    BY <2>1, <2>2
<1>9. ASSUME NEW d \in Devices, Flush(r, d) PROVE \A q \in Requests : ReqInv(q)'
  <2> DEFINE t == [tx[r] EXCEPT !.held = tx[r].held \cup {d}]
  <2>1. tx' = [tx EXCEPT ![r] = t] /\ UNCHANGED <<wave, life>> /\ tx'[r] = t
    BY <1>9 DEF Flush, TypeOK
  <2>2. /\ t.pc = tx[r].pc /\ t.wave = tx[r].wave /\ t.op = tx[r].op
        /\ t.won = tx[r].won /\ t.put = tx[r].put /\ t.actor = tx[r].actor
        /\ t.from = tx[r].from
    BY <1>0 DEF Tx
  <2>3. tx[r].pc # "idle"
    <3>1. tx[r].put[d] # Keep
      BY <1>9 DEF Flush, FlushNext, Unflushed
    <3>2. Idle.put[d] = Keep
      BY DEF Idle
    <3> QED
      BY <1>0, <3>1, <3>2 DEF ReqInv, Shape
  <2>4. ReqInv(r)'
    BY <1>0, <2>1, <2>2, <2>3 DEF ReqInv, Shape, PutOrigin, Decision, WonLegal
  <2> QED
    BY <2>1, <2>4, OwnStep
<1>10. ASSUME Abort(r) PROVE \A q \in Requests : ReqInv(q)'
  <2>1. tx' = [tx EXCEPT ![r] = Idle] /\ UNCHANGED <<wave, life>> /\ tx'[r] = Idle
    BY <1>10 DEF Abort, TypeOK
  <2>2. ReqInv(r)'
    BY <2>1, ConstantsAssumption
    DEF ReqInv, Shape, PutOrigin, Decision, WonLegal, Idle, WaveOps, Keep
  <2> QED
    BY <2>1, <2>2, OwnStep
<1> QED
  BY <1>1, <1>2, <1>3, <1>4, <1>5, <1>6, <1>7, <1>8, <1>9, <1>10 DEF Arrive, Step

\* A commit and a new draft keep it too: they change no wave another transaction holds.
LEMMA CommitReq ==
    ASSUME TypeOK, WonExclusive, \A q \in Requests : ReqInv(q), NEW r \in Requests, Commit(r)
    PROVE  \A q \in Requests : ReqInv(q)'
<1>1. tx' = [tx EXCEPT ![r] = Idle] /\ tx'[r] = Idle
  BY DEF Commit, TypeOK
<1>2. \A w \in Waves : /\ wave'[w].members = wave[w].members
                       /\ wave'[w].drafted_by = wave[w].drafted_by
                       /\ wave[w].state # "none" => wave'[w].state # "none"
  BY DEF Commit, Decided, Target, TypeOK, WaveRow
<1>3. SUFFICES ASSUME NEW q \in Requests PROVE ReqInv(q)'
  OBVIOUS
<1>4. CASE q = r
  BY <1>1, <1>4, ConstantsAssumption
  DEF ReqInv, Shape, PutOrigin, Decision, WonLegal, Idle, WaveOps, Keep
<1>5. CASE q # r
  <2>1. tx'[q] = tx[q]
    BY <1>1, <1>5 DEF TypeOK
  <2>2. \A w \in tx[q].won : wave'[w] = wave[w]
    BY <1>5 DEF Commit, WonExclusive, TypeOK, Tx
  <2> QED
    BY <1>2, <2>1, <2>2, Frame
<1> QED
  BY <1>4, <1>5

LEMMA DraftReq ==
    ASSUME TypeOK, \A q \in Requests : ReqInv(q),
           NEW w \in Waves, NEW u \in Drafters, NEW S \in Scopes, Draft(w, u, S)
    PROVE  \A q \in Requests : ReqInv(q)'
<1>1. SUFFICES ASSUME NEW q \in Requests PROVE ReqInv(q)'
  OBVIOUS
<1>2. \A x \in Waves : x # w => wave'[x] = wave[x]
  BY DEF Draft, TypeOK
<1>3. wave[w].state = "none"
  BY DEF Draft
<1>4. w \notin tx[q].won
  BY <1>3, EdgeFacts DEF ReqInv, WonLegal
<1>5. tx'[q] = tx[q] /\ tx[q].won \subseteq Waves
  BY DEF Draft, TypeOK, Tx
<1> QED
  BY <1>2, <1>3, <1>4, <1>5, Frame

-----------------------------------------------------------------------------
(***************************************************************************)
(* The invariants about committed rows.                                    *)
(***************************************************************************)

\* Only Guard takes a wave row, and only a free one.
LEMMA StepWon == TypeOK /\ WonExclusive /\ [Next]_vars => WonExclusive'
<1> SUFFICES ASSUME TypeOK, WonExclusive, [Next]_vars PROVE WonExclusive'
  OBVIOUS
<1>1. ASSUME NEW r \in Requests, NEW t, tx' = [tx EXCEPT ![r] = t],
             \A q \in Requests \ {r} : t.won \cap tx[q].won = {}
      PROVE  WonExclusive'
  BY <1>1 DEF WonExclusive, TypeOK
<1>2. \A r \in Requests : tx[r] \in Tx
  BY DEF TypeOK
<1>3. Idle.won = {}
  BY DEF Idle
<1>4. ASSUME NEW w \in Waves, NEW u \in Drafters, NEW S \in Scopes, Draft(w, u, S)
      PROVE  WonExclusive'
  BY <1>4 DEF Draft, WonExclusive
<1>5. ASSUME NEW r \in Requests, Guard(r) PROVE WonExclusive'
  <2> DEFINE t == [tx[r] EXCEPT !.pc = "load", !.won = tx[r].won \cup {tx[r].wave}]
  <2>1. t.won = tx[r].won \cup {tx[r].wave}
    BY <1>2 DEF Tx
  <2>2. \A q \in Requests \ {r} : t.won \cap tx[q].won = {}
    BY <1>5, <2>1 DEF Guard, WaveFree, WonExclusive
  <2> QED
    BY <1>1, <1>5, <2>2 DEF Guard
<1>6. ASSUME NEW r \in Requests, NEW t, tx' = [tx EXCEPT ![r] = t],
             t.won = tx[r].won \/ t.won = {}
      PROVE  WonExclusive'
  BY <1>1, <1>6 DEF WonExclusive
<1>7. ASSUME NEW r \in Requests, Arrive(r) PROVE WonExclusive'
  <2>1. CASE \E op \in WaveOps, w \in Waves, u \in Users : Begin(r, op, w, u)
    <3>1. PICK op \in WaveOps, w \in Waves, u \in Users : Begin(r, op, w, u)
      BY <2>1
    <3> DEFINE t == [Idle EXCEPT !.pc = "guard", !.op = op, !.actor = u, !.wave = w,
                                 !.from = wave[w].state]
    <3>2. t.won = {}
      BY DEF Idle
    <3> QED
      BY <1>6, <3>1, <3>2 DEF Begin
  <2>2. CASE \E d \in Devices, v \in EvalStates : Evaluate(r, d, v)
    <3>1. PICK d \in Devices, v \in EvalStates : Evaluate(r, d, v)
      BY <2>2
    <3> DEFINE t == [Idle EXCEPT !.pc = "flush", !.op = "evaluate",
                                 !.put = [@ EXCEPT ![d] = v]]
    <3>2. t.won = {}
      BY DEF Idle
    <3> QED
      BY <1>6, <3>1, <3>2 DEF Evaluate
  <2>3. CASE \E A \in SUBSET Devices, v \in [Devices -> EvalStates] : Reload(r, A, v)
    <3>1. PICK A \in SUBSET Devices, v \in [Devices -> EvalStates] : Reload(r, A, v)
      BY <2>3
    <3> DEFINE put == [d \in Devices |-> IF d \in A /\ v[d] # life[d] THEN v[d] ELSE Keep]
               t == [Idle EXCEPT !.pc = "verdicts", !.op = "reload", !.aff = A, !.put = put]
    <3>2. t.won = {}
      BY DEF Idle
    <3> QED
      BY <1>6, <3>1, <3>2 DEF Reload
  <2> QED
    BY <1>7, <2>1, <2>2, <2>3 DEF Arrive
<1>8. ASSUME NEW r \in Requests, Commit(r) \/ Abort(r) PROVE WonExclusive'
  BY <1>3, <1>6, <1>8 DEF Commit, Abort
<1>9. ASSUME NEW r \in Requests, GuardLost(r) PROVE WonExclusive'
  <2> DEFINE t == IF tx[r].op = "reload"
                  THEN [tx[r] EXCEPT !.pc = "pick", !.wave = None,
                                     !.cands = tx[r].cands \ {tx[r].wave}]
                  ELSE Idle
  <2>1. t.won = tx[r].won \/ t.won = {}
    BY <1>2, <1>3 DEF Tx
  <2> QED
    BY <1>6, <1>9, <2>1 DEF GuardLost
<1>10. ASSUME NEW r \in Requests, Load(r) PROVE WonExclusive'
  <2> DEFINE put == [d \in Devices |-> IF d \in Moves(r) THEN MovesTo(tx[r].op)
                                       ELSE tx[r].put[d]]
             t == IF tx[r].op = "reload"
                  THEN [tx[r] EXCEPT !.pc = "pick", !.put = put,
                                     !.cands = tx[r].cands \ {tx[r].wave}, !.wave = None]
                  ELSE [tx[r] EXCEPT !.pc = "flush", !.put = put]
  <2>1. t.won = tx[r].won
    BY <1>2 DEF Tx
  <2>2. tx' = [tx EXCEPT ![r] = t]
    BY <1>10 DEF Load
  <2> QED
    BY <1>6, <2>1, <2>2
<1>11. ASSUME NEW r \in Requests, Candidates(r) PROVE WonExclusive'
  <2> DEFINE open == {w \in Waves : /\ wave[w].state \in {"draft", "submitted"}
                                    /\ wave[w].members \cap tx[r].aff # {}}
             t == [tx[r] EXCEPT !.pc = "pick", !.cands = open]
  <2>1. t.won = tx[r].won
    BY <1>2 DEF Tx
  <2> QED
    BY <1>6, <1>11, <2>1 DEF Candidates
<1>12. ASSUME NEW r \in Requests, NEW w \in Waves, Pick(r, w) PROVE WonExclusive'
  <2> DEFINE t == IF wave[w].state \in {"draft", "submitted"}
                  THEN [tx[r] EXCEPT !.pc = "guard", !.wave = w, !.from = wave[w].state]
                  ELSE [tx[r] EXCEPT !.cands = tx[r].cands \ {w}]
  <2>1. t.won = tx[r].won
    BY <1>2 DEF Tx
  <2> QED
    BY <1>6, <1>12, <2>1 DEF Pick
<1>13. ASSUME NEW r \in Requests, NEW d \in Devices, Flush(r, d) PROVE WonExclusive'
  <2> DEFINE t == [tx[r] EXCEPT !.held = tx[r].held \cup {d}]
  <2>1. t.won = tx[r].won
    BY <1>2 DEF Tx
  <2> QED
    BY <1>6, <1>13, <2>1 DEF Flush
<1>14. CASE UNCHANGED vars
  BY <1>14 DEF vars, WonExclusive
<1> QED
  BY <1>4, <1>5, <1>7, <1>8, <1>9, <1>10, <1>11, <1>12, <1>13, <1>14 DEF Next, Step

\* A step that commits nothing keeps Carried when the transaction that takes it does not
\* come to hold a parked device's wave past its load without writing the device.
LEMMA CarriedOwn ==
    ASSUME TypeOK, Carried, NEW r \in Requests, NEW t, tx' = [tx EXCEPT ![r] = t],
           UNCHANGED <<wave, life>>,
           \A w \in Waves, d \in Devices :
               life[d] = "approval_pending" /\ Carries(w, d) /\ w \in t.won
                   /\ ~(t.pc = "load" /\ t.wave = w) => t.put[d] # Keep
    PROVE  Carried'
<1>1. SUFFICES ASSUME NEW d \in Devices, life'[d] = "approval_pending"
               PROVE  \E w \in Waves : Carries(w, d)'
  BY DEF Carried
<1>2. PICK w \in Waves : Carries(w, d)
  BY <1>1 DEF Carried
<1>3. tx'[r] = t /\ \A q \in Requests \ {r} : tx'[q] = tx[q]
  BY DEF TypeOK
<1>4. life[d] = "approval_pending"
  BY <1>1
<1>5. Carries(w, d)'
  BY <1>2, <1>3, <1>4 DEF Carries
<1> QED
  BY <1>5

\* A parked device stays in a submitted wave through every step.
LEMMA StepCarried ==
    ASSUME TypeOK, WonExclusive, \A q \in Requests : ReqInv(q), Carried, [Next]_vars
    PROVE  Carried'
<1> USE ConstantsAssumption
<1>0. \A r \in Requests : tx[r] \in Tx
  BY DEF TypeOK
<1>1. ASSUME NEW w \in Waves, NEW u \in Drafters, NEW S \in Scopes, Draft(w, u, S)
      PROVE  Carried'
  <2>1. SUFFICES ASSUME NEW d \in Devices, life'[d] = "approval_pending"
                 PROVE  \E x \in Waves : Carries(x, d)'
    BY DEF Carried
  <2>2. PICK x \in Waves : Carries(x, d)
    BY <1>1, <2>1 DEF Carried, Draft
  <2>3. x # w
    BY <1>1, <2>2 DEF Draft, Carries
  <2>4. wave'[x] = wave[x] /\ tx' = tx
    BY <1>1, <2>3 DEF Draft, TypeOK
  <2>5. Carries(x, d)'
    BY <2>2, <2>4 DEF Carries
  <2> QED
    BY <2>5
<1>2. ASSUME NEW r \in Requests, NEW t, tx' = [tx EXCEPT ![r] = t], UNCHANGED <<wave, life>>,
             t.won = {}
      PROVE  Carried'
  BY <1>2, CarriedOwn
<1>3. ASSUME NEW r \in Requests, NEW op \in WaveOps, NEW w \in Waves, NEW u \in Users,
             Begin(r, op, w, u)
      PROVE  Carried'
  <2> DEFINE t == [Idle EXCEPT !.pc = "guard", !.op = op, !.actor = u, !.wave = w,
                               !.from = wave[w].state]
  <2>1. t.won = {}
    BY DEF Idle
  <2> QED
    BY <1>2, <1>3, <2>1 DEF Begin
<1>4. ASSUME NEW r \in Requests, NEW d \in Devices, NEW v \in EvalStates, Evaluate(r, d, v)
      PROVE  Carried'
  <2> DEFINE t == [Idle EXCEPT !.pc = "flush", !.op = "evaluate",
                               !.put = [@ EXCEPT ![d] = v]]
  <2>1. t.won = {}
    BY DEF Idle
  <2> QED
    BY <1>2, <1>4, <2>1 DEF Evaluate
<1>5. ASSUME NEW r \in Requests, NEW A \in SUBSET Devices,
             NEW v \in [Devices -> EvalStates], Reload(r, A, v)
      PROVE  Carried'
  <2> DEFINE put == [d \in Devices |-> IF d \in A /\ v[d] # life[d] THEN v[d] ELSE Keep]
             t == [Idle EXCEPT !.pc = "verdicts", !.op = "reload", !.aff = A, !.put = put]
  <2>1. t.won = {}
    BY DEF Idle
  <2> QED
    BY <1>2, <1>5, <2>1 DEF Reload
<1>6. ASSUME NEW r \in Requests, Guard(r) PROVE Carried'
  <2> DEFINE t == [tx[r] EXCEPT !.pc = "load", !.won = tx[r].won \cup {tx[r].wave}]
  <2>1. /\ t.pc = "load" /\ t.won = tx[r].won \cup {tx[r].wave}
        /\ t.wave = tx[r].wave /\ t.put = tx[r].put
    BY <1>0 DEF Tx
  <2>2. tx' = [tx EXCEPT ![r] = t] /\ UNCHANGED <<wave, life>> /\ tx[r].pc = "guard"
    BY <1>6 DEF Guard
  <2>3. ASSUME NEW w \in Waves, NEW d \in Devices, Carries(w, d), w \in t.won,
               ~(t.pc = "load" /\ t.wave = w)
        PROVE  t.put[d] # Keep
    BY <2>1, <2>2, <2>3 DEF Carries
  <2> QED
    BY <2>2, <2>3, CarriedOwn
<1>7. ASSUME NEW r \in Requests, GuardLost(r) PROVE Carried'
  <2> DEFINE t == [tx[r] EXCEPT !.pc = "pick", !.wave = None,
                                !.cands = tx[r].cands \ {tx[r].wave}]
  <2>1. CASE tx[r].op = "reload"
    <3>1. t.won = tx[r].won /\ t.put = tx[r].put
      BY <1>0 DEF Tx
    <3>2. tx' = [tx EXCEPT ![r] = t] /\ UNCHANGED <<wave, life>> /\ tx[r].pc = "guard"
      BY <1>7, <2>1 DEF GuardLost
    <3>3. ASSUME NEW w \in Waves, NEW d \in Devices, Carries(w, d), w \in t.won
          PROVE  t.put[d] # Keep
      BY <3>1, <3>2, <3>3 DEF Carries
    <3> QED
      BY <3>2, <3>3, CarriedOwn
  <2>2. CASE tx[r].op # "reload"
    <3>1. Idle.won = {}
      BY DEF Idle
    <3> QED
      BY <1>2, <1>7, <2>2, <3>1 DEF GuardLost
  <2> QED
    BY <2>1, <2>2
<1>8. ASSUME NEW r \in Requests, Load(r) PROVE Carried'
  <2> DEFINE put == [d \in Devices |-> IF d \in Moves(r) THEN MovesTo(tx[r].op)
                                       ELSE tx[r].put[d]]
             t == IF tx[r].op = "reload"
                  THEN [tx[r] EXCEPT !.pc = "pick", !.put = put,
                                     !.cands = tx[r].cands \ {tx[r].wave}, !.wave = None]
                  ELSE [tx[r] EXCEPT !.pc = "flush", !.put = put]
  <2>1. t.won = tx[r].won /\ t.put = put
    BY <1>0 DEF Tx
  <2>2. tx' = [tx EXCEPT ![r] = t] /\ UNCHANGED <<wave, life>> /\ tx[r].pc = "load"
    BY <1>8 DEF Load
  <2>3. /\ ReqInv(r)
        /\ tx[r].op \in WaveOps \cup {"reload"}
        /\ MovesTo(tx[r].op) # Keep
    BY <1>0, <2>2 DEF ReqInv, Shape, Tx, MovesTo, Keep
  <2>4. ASSUME NEW w \in Waves, NEW d \in Devices, life[d] = "approval_pending",
               Carries(w, d), w \in t.won
        PROVE  t.put[d] # Keep
    <3>1. CASE tx[r].put[d] # Keep
      BY <2>1, <2>3, <3>1
    <3>2. CASE tx[r].put[d] = Keep
      <4>1. w = tx[r].wave
        BY <2>1, <2>2, <2>4, <3>2 DEF Carries
      <4>2. tx[r].from = "submitted" /\ tx[r].op # "submit"
        <5>1. wave[w].state = "submitted" /\ tx[r].from = wave[w].state
          BY <2>2, <2>3, <2>4, <4>1 DEF Carries, ReqInv, WonLegal
        <5>2. <<tx[r].from, Target(tx[r].op)>> \in WaveEdges
          BY <2>2, <2>3 DEF ReqInv, Decision
        <5> QED
          BY <5>1, <5>2, EdgeFacts DEF Target
      <4>3. d \in Moves(r)
        BY <2>4, <3>2, <4>1, <4>2 DEF Moves, MovesFrom, View, Carries
      <4> QED
        BY <2>1, <2>3, <4>3
    <3> QED
      BY <3>1, <3>2
  <2> QED
    BY <2>2, <2>4, CarriedOwn
<1>9. ASSUME NEW r \in Requests, NEW t, tx' = [tx EXCEPT ![r] = t], UNCHANGED <<wave, life>>,
             t.won = tx[r].won, t.put = tx[r].put,
             tx[r].pc = "load" => t.pc = "load" /\ t.wave = tx[r].wave
      PROVE  Carried'
  <2>1. ASSUME NEW w \in Waves, NEW d \in Devices, Carries(w, d), w \in t.won,
               ~(t.pc = "load" /\ t.wave = w)
        PROVE  t.put[d] # Keep
    BY <1>9, <2>1 DEF Carries
  <2>2. tx' = [tx EXCEPT ![r] = t] /\ UNCHANGED <<wave, life>>
    BY <1>9
  <2> QED
    BY <2>1, <2>2, CarriedOwn
<1>10. ASSUME NEW r \in Requests, Candidates(r) PROVE Carried'
  <2> DEFINE open == {w \in Waves : /\ wave[w].state \in {"draft", "submitted"}
                                    /\ wave[w].members \cap tx[r].aff # {}}
             t == [tx[r] EXCEPT !.pc = "pick", !.cands = open]
  <2>1. t.won = tx[r].won /\ t.put = tx[r].put
    BY <1>0 DEF Tx
  <2> QED
    BY <1>9, <1>10, <2>1 DEF Candidates
<1>11. ASSUME NEW r \in Requests, NEW w \in Waves, Pick(r, w) PROVE Carried'
  <2> DEFINE t == IF wave[w].state \in {"draft", "submitted"}
                  THEN [tx[r] EXCEPT !.pc = "guard", !.wave = w, !.from = wave[w].state]
                  ELSE [tx[r] EXCEPT !.cands = tx[r].cands \ {w}]
  <2>1. t.won = tx[r].won /\ t.put = tx[r].put
    BY <1>0 DEF Tx
  <2> QED
    BY <1>9, <1>11, <2>1 DEF Pick
<1>12. ASSUME NEW r \in Requests, NEW d \in Devices, Flush(r, d) PROVE Carried'
  <2> DEFINE t == [tx[r] EXCEPT !.held = tx[r].held \cup {d}]
  <2>1. t.won = tx[r].won /\ t.put = tx[r].put /\ t.pc = tx[r].pc /\ t.wave = tx[r].wave
    BY <1>0 DEF Tx
  <2> QED
    BY <1>9, <1>12, <2>1 DEF Flush
<1>13. ASSUME NEW r \in Requests, Abort(r) PROVE Carried'
  <2>1. Idle.won = {}
    BY DEF Idle
  <2> QED
    BY <1>2, <1>13, <2>1 DEF Abort
<1>14. ASSUME NEW r \in Requests, Commit(r) PROVE Carried'
  <2>0. ReqInv(r)
    OBVIOUS
  <2>1. SUFFICES ASSUME NEW d \in Devices, life'[d] = "approval_pending"
                 PROVE  \E w \in Waves : Carries(w, d)'
    BY DEF Carried
  <2>2. View(r, d) = "approval_pending"
    BY <1>14, <2>1 DEF Commit
  <2>3. tx'[r] = Idle /\ \A q \in Requests \ {r} : tx'[q] = tx[q]
    BY <1>14 DEF Commit, TypeOK
  <2>4. Idle.won = {}
    BY DEF Idle
  <2>5. CASE tx[r].put[d] = Keep
    <3>1. life[d] = "approval_pending"
      BY <2>2, <2>5 DEF View
    <3>2. PICK w \in Waves : Carries(w, d)
      BY <3>1 DEF Carried
    <3>3. w \notin tx[r].won
      BY <1>14, <2>5, <3>2 DEF Carries, Commit, AtEnd
    <3>4. wave'[w] = wave[w]
      BY <1>14, <3>3 DEF Commit
    <3>5. Carries(w, d)'
      BY <2>3, <2>4, <3>2, <3>4 DEF Carries
    <3> QED
      BY <3>5
  <2>6. CASE tx[r].put[d] # Keep
    <3>1. tx[r].put[d] = "approval_pending"
      BY <2>2, <2>6 DEF View
    <3>2. PICK w \in Waves : w = tx[r].wave
      BY <2>0, <3>1 DEF ReqInv, PutOrigin, Shape, WaveOps
    <3>3. tx[r].op = "submit" /\ tx[r].won = {w} /\ d \in wave[w].members
      BY <2>0, <3>1, <3>2 DEF ReqInv, PutOrigin, Shape, WaveOps
    <3>4. wave'[w] = Decided(r, w)
      BY <1>14, <3>3 DEF Commit
    <3>5. wave'[w].state = "submitted" /\ d \in wave'[w].members
      BY <3>3, <3>4 DEF Decided, Target, TypeOK, WaveRow
    <3>6. \A q \in Requests : w \notin tx'[q].won
      BY <2>3, <2>4, <3>3 DEF WonExclusive
    <3>7. Carries(w, d)'
      BY <3>5, <3>6 DEF Carries
    <3> QED
      BY <3>7
  <2> QED
    BY <2>5, <2>6
<1>15. CASE UNCHANGED vars
  BY <1>15 DEF vars, Carried, Carries
<1> QED
  BY <1>1, <1>3, <1>4, <1>5, <1>6, <1>7, <1>8, <1>10, <1>11, <1>12, <1>13, <1>14, <1>15
  DEF Next, Arrive, Step

\* Only a commit of an approval makes a device approved, and approved is terminal.
LEMMA StepApproved ==
    ASSUME TypeOK, \A q \in Requests : ReqInv(q), ApprovedHasApprovedWave, [Next]_vars
    PROVE  ApprovedHasApprovedWave'
<1>1. ASSUME NEW w \in Waves, NEW u \in Drafters, NEW S \in Scopes, Draft(w, u, S)
      PROVE  ApprovedHasApprovedWave'
  <2>1. \A x \in Waves : x # w => wave'[x] = wave[x]
    BY <1>1 DEF Draft, TypeOK
  <2>2. wave[w].state = "none" /\ life' = life
    BY <1>1 DEF Draft
  <2> QED
    BY <2>1, <2>2 DEF ApprovedHasApprovedWave
<1>2. ASSUME UNCHANGED <<wave, life>> PROVE ApprovedHasApprovedWave'
  BY <1>2 DEF ApprovedHasApprovedWave
<1>3. ASSUME NEW r \in Requests, Commit(r) PROVE ApprovedHasApprovedWave'
  <2>0. ReqInv(r)
    OBVIOUS
  <2>1. SUFFICES ASSUME NEW d \in Devices, life'[d] = "approved"
                 PROVE  \E w \in Waves : wave'[w].state = "approved" /\ d \in wave'[w].members
    BY DEF ApprovedHasApprovedWave
  <2>2. View(r, d) = "approved"
    BY <1>3, <2>1 DEF Commit
  <2>3. CASE tx[r].put[d] = Keep
    <3>1. PICK w \in Waves : wave[w].state = "approved" /\ d \in wave[w].members
      BY <2>2, <2>3 DEF View, ApprovedHasApprovedWave
    <3>2. w \notin tx[r].won
      BY <2>0, <3>1, EdgeFacts DEF ReqInv, WonLegal
    <3>3. wave'[w] = wave[w]
      BY <1>3, <3>2 DEF Commit
    <3> QED
      BY <3>1, <3>3
  <2>4. CASE tx[r].put[d] # Keep
    <3>1. tx[r].put[d] = "approved"
      BY <2>2, <2>4 DEF View
    <3>2. PICK w \in Waves : w = tx[r].wave
      BY <2>0, <3>1 DEF ReqInv, PutOrigin, Shape, WaveOps
    <3>3. tx[r].op = "approve" /\ tx[r].won = {w} /\ d \in wave[w].members
      BY <2>0, <3>1, <3>2 DEF ReqInv, PutOrigin, Shape, WaveOps
    <3>4. wave'[w] = Decided(r, w)
      BY <1>3, <3>3 DEF Commit
    <3>5. wave'[w].state = "approved" /\ d \in wave'[w].members
      BY <3>3, <3>4 DEF Decided, Target, TypeOK, WaveRow
    <3> QED
      BY <3>5
  <2> QED
    BY <2>3, <2>4
<1>4. ASSUME NEW r \in Requests, Arrive(r) \/ Abort(r) PROVE UNCHANGED <<wave, life>>
  BY <1>4 DEF Arrive, Begin, Evaluate, Reload, Abort
<1>5. ASSUME NEW r \in Requests, Step(r), ~ Commit(r) PROVE UNCHANGED <<wave, life>>
  BY <1>5 DEF Step, Guard, GuardLost, Load, Candidates, Pick, Flush
<1>6. CASE UNCHANGED vars
  BY <1>2, <1>6 DEF vars
<1> QED
  BY <1>1, <1>2, <1>3, <1>4, <1>5, <1>6 DEF Next

-----------------------------------------------------------------------------
(***************************************************************************)
(* The theorems.                                                           *)
(***************************************************************************)

\* The invariant holds before any wave is drafted.
LEMMA InitInv == Init => IInv
<1> SUFFICES ASSUME Init PROVE IInv
  OBVIOUS
<1>1. TypeOK
  BY InitType
<1>2. \A r \in Requests : tx[r] = Idle
  BY DEF Init
<1>3. WonExclusive
  BY <1>2 DEF WonExclusive, Idle
<1>4. \A r \in Requests : ReqInv(r)
  BY <1>2, IdleInv
<1>5. Carried /\ ApprovedHasApprovedWave
  BY DEF Init, Carried, ApprovedHasApprovedWave, EvalStates
<1> QED
  BY <1>1, <1>3, <1>4, <1>5 DEF IInv

\* Every step keeps it.
LEMMA StepInv == IInv /\ [Next]_vars => IInv'
<1> SUFFICES ASSUME IInv, [Next]_vars PROVE IInv'
  OBVIOUS
<1> USE DEF IInv
<1>1. TypeOK'
  BY StepType DEF ReqInv
<1>2. WonExclusive'
  BY StepWon
<1>3. \A r \in Requests : ReqInv(r)'
  <2>1. CASE UNCHANGED vars
    BY <2>1 DEF vars, ReqInv, Shape, PutOrigin, Decision, WonLegal
  <2>2. CASE Next
    <3>1. CASE \E w \in Waves, u \in Drafters, S \in Scopes : Draft(w, u, S)
      BY <3>1, DraftReq
    <3>2. CASE \E r \in Requests : Commit(r)
      BY <3>2, CommitReq
    <3>3. CASE \E r \in Requests : (Arrive(r) \/ Step(r) \/ Abort(r)) /\ ~ Commit(r)
      BY <3>3, StepReq
    <3> QED
      BY <2>2, <3>1, <3>2, <3>3 DEF Next
  <2> QED
    BY <2>1, <2>2
<1>4. Carried'
  BY StepCarried
<1>5. ApprovedHasApprovedWave'
  BY StepApproved
<1> QED
  BY <1>1, <1>2, <1>3, <1>4, <1>5

\* The inductive invariant holds in every reachable state.
THEOREM Invariance == Spec => []IInv
BY InitInv, StepInv, PTL DEF Spec

\* Every row and every transaction keeps its type.
THEOREM TypeCorrect == Spec => []TypeOK
<1>1. IInv => TypeOK
  BY DEF IInv
<1> QED
  BY <1>1, Invariance, PTL

\* A device parked at approval_pending is always in a submitted wave, however many
\* requests, reloads and evaluations interleave.
THEOREM PendingReleasable == Spec => []PendingHasSubmittedWave
<1>1. IInv => PendingHasSubmittedWave
  BY DEF IInv, Carried, Carries, PendingHasSubmittedWave
<1> QED
  BY <1>1, Invariance, PTL

\* A device is approved only through an approved wave.
THEOREM ApprovedByWave == Spec => []ApprovedHasApprovedWave
<1>1. IInv => ApprovedHasApprovedWave
  BY DEF IInv
<1> QED
  BY <1>1, Invariance, PTL

\* No request of the drafter to approve reaches its guarded UPDATE.
THEOREM SelfApproval == Spec => []SelfApprovalStopped
<1>1. IInv => SelfApprovalStopped
  BY DEF IInv, ReqInv, Decision, SelfApprovalStopped
<1> QED
  BY <1>1, Invariance, PTL

\* A step of the concurrent requests is a move of WaveLifecycle or leaves its state alone.
LEMMA StepRefines == IInv /\ [Next]_vars => [Abstract!Next]_(Abstract!vars)
<1> SUFFICES ASSUME IInv, [Next]_vars PROVE [Abstract!Next]_(Abstract!vars)
  OBVIOUS
<1> USE DEF IInv
<1>0. \A w \in Waves : wave[w] \in WaveRow
  BY DEF TypeOK
<1>1. ASSUME wave' = wave PROVE [Abstract!Next]_(Abstract!vars)
  BY <1>1 DEF Abstract!vars
<1>2. ASSUME NEW w \in Waves, NEW u \in Drafters, NEW S \in Scopes, Draft(w, u, S)
      PROVE  Abstract!Next
  <2>1. /\ wave[w].state = "none"
        /\ wave' = [wave EXCEPT ![w] = [wave[w] EXCEPT !.state = "draft", !.drafted_by = u,
                                                       !.members = S]]
    BY <1>2 DEF Draft
  <2>2. /\ wave'[w].state = "draft" /\ wave'[w].drafted_by = u
        /\ wave'[w].approved_by = wave[w].approved_by
        /\ \A x \in Waves : x # w => wave'[x] = wave[x]
    BY <1>0, <2>1 DEF TypeOK, WaveRow
  <2>3. Abstract!Draft(w, u)
    <3>1. [x \in Waves |-> wave'[x].state]
            = [[x \in Waves |-> wave[x].state] EXCEPT ![w] = "draft"]
      BY <2>2
    <3>2. [x \in Waves |-> wave'[x].drafted_by]
            = [[x \in Waves |-> wave[x].drafted_by] EXCEPT ![w] = u]
      BY <2>2
    <3>3. [x \in Waves |-> wave'[x].approved_by] = [x \in Waves |-> wave[x].approved_by]
      BY <2>2
    <3> QED
      BY <2>1, <3>1, <3>2, <3>3 DEF Abstract!Draft
  <2> QED
    BY <2>3 DEF Abstract!Next, Users
<1>3. ASSUME NEW r \in Requests, Commit(r) PROVE [Abstract!Next]_(Abstract!vars)
  <2>0. ReqInv(r) /\ tx[r] \in Tx
    BY DEF TypeOK
  <2>1. /\ \A w \in tx[r].won : wave'[w] = Decided(r, w)
        /\ \A w \in Waves \ tx[r].won : wave'[w] = wave[w]
        /\ tx[r].won \subseteq Waves
    BY <1>3, <2>0 DEF Commit, Tx
  <2>2. \A w \in tx[r].won :
            /\ wave'[w].state = Target(tx[r].op)
            /\ wave'[w].drafted_by = wave[w].drafted_by
            /\ tx[r].op # "approve" => wave'[w].approved_by = wave[w].approved_by
            /\ tx[r].op = "approve" => wave'[w].approved_by = tx[r].actor
    BY <1>0, <2>1 DEF Decided, WaveRow
  <2>3. \A w \in tx[r].won : <<wave[w].state, Target(tx[r].op)>> \in WaveEdges
    BY <2>0 DEF ReqInv, WonLegal
  <2>4. CASE tx[r].op \in {"none", "evaluate"}
    <3>1. tx[r].won = {}
      BY <1>3, <2>0, <2>4 DEF ReqInv, Shape, Idle
    <3>2. wave' = wave
      BY <1>3, <3>1 DEF Commit, TypeOK
    <3> QED
      BY <1>1, <3>2
  <2>5. CASE tx[r].op = "reload"
    <3>1. PICK S \in SUBSET Waves : S = tx[r].won
      BY <2>1
    <3>2. Abstract!Invalidate(S)
      BY <2>1, <2>2, <2>3, <2>5, <3>1
      DEF Abstract!Invalidate, Abstract!WaveEdges, WaveEdges, Target
    <3>3. Abstract!Next
      BY <3>2 DEF Abstract!Next
    <3> QED
      BY <3>3
  <2>6. CASE tx[r].op \in WaveOps
    <3>1. PICK w \in Waves : w = tx[r].wave
      BY <2>0, <2>6 DEF ReqInv, Shape
    <3>2. tx[r].won = {w} /\ tx[r].actor \in Users
      BY <1>3, <2>0, <2>6, <3>1 DEF ReqInv, Shape, Commit, AtEnd
    <3>3. CASE tx[r].op = "approve"
      <4>1. tx[r].actor # wave[w].drafted_by
        BY <2>0, <3>1, <3>3 DEF ReqInv, Decision
      <4>2. Target(tx[r].op) = "approved"
        BY <3>3 DEF Target
      <4>3. PICK u \in Users : u = tx[r].actor
        BY <3>2
      <4>4. Abstract!Approve(w, u)
        BY <2>1, <2>2, <2>3, <3>2, <3>3, <4>1, <4>2, <4>3, ZenonT(60)
        DEF Abstract!Approve, Abstract!WaveEdges, WaveEdges
      <4>5. Abstract!Next
        BY <4>4 DEF Abstract!Next
      <4> QED
        BY <4>5
    <3>4. CASE tx[r].op # "approve"
      <4>1. PICK to \in Abstract!WaveState \ {"approved"} : to = Target(tx[r].op)
        BY <2>6, <3>4 DEF Target, WaveOps, Abstract!WaveState
      <4>2. Abstract!Move(w, to)
        BY <2>1, <2>2, <2>3, <3>2, <3>4, <4>1
        DEF Abstract!Move, Abstract!WaveEdges, WaveEdges
      <4>3. Abstract!Next
        BY <4>1, <4>2 DEF Abstract!Next
      <4> QED
        BY <4>3
    <3> QED
      BY <3>3, <3>4
  <2> QED
    BY <2>0, <2>4, <2>5, <2>6 DEF Tx
<1>4. ASSUME NEW r \in Requests, Arrive(r) \/ Abort(r) PROVE wave' = wave
  BY <1>4 DEF Arrive, Begin, Evaluate, Reload, Abort
<1>5. ASSUME NEW r \in Requests, Step(r), ~ Commit(r) PROVE wave' = wave
  BY <1>5 DEF Step, Guard, GuardLost, Load, Candidates, Pick, Flush
<1>6. CASE UNCHANGED vars
  BY <1>1, <1>6 DEF vars
<1> QED
  BY <1>1, <1>2, <1>3, <1>4, <1>5, <1>6 DEF Next

\* The concurrent requests implement the lifecycle the controller promises.
THEOREM Refinement == Spec => ImplementsWaveLifecycle
<1>1. Init => Abstract!Init
  BY DEF Init, Abstract!Init
<1> QED
  BY <1>1, StepRefines, Invariance, PTL DEF Spec, ImplementsWaveLifecycle, Abstract!Spec

-----------------------------------------------------------------------------
(***************************************************************************)
(* Lock order.  A request that is not a reload holds no row while it waits *)
(* for a wave, and while it waits for a device holds only smaller ones.    *)
(***************************************************************************)

Ordered(r) ==
    tx[r].op # "reload" =>
        /\ tx[r].pc # "flush" => tx[r].held = {} /\ \A d \in Devices : tx[r].put[d] = Keep
        /\ \A e \in tx[r].held, d \in Unflushed(r) : e < d

\* The flush by primary key keeps the order; nothing else adds a device row.
LEMMA StepOrdered ==
    ASSUME IInv, \A r \in Requests : Ordered(r), [Next]_vars
    PROVE  \A r \in Requests : Ordered(r)'
<1> USE ConstantsAssumption
<1>0. TypeOK /\ \A r \in Requests : tx[r] \in Tx /\ Shape(r)
  BY DEF IInv, TypeOK, ReqInv
<1>1. ASSUME NEW r \in Requests, NEW t, tx' = [tx EXCEPT ![r] = t], Ordered(r)'
      PROVE  \A q \in Requests : Ordered(q)'
  <2>1. \A q \in Requests \ {r} : tx'[q] = tx[q]
    BY <1>0, <1>1 DEF TypeOK
  <2>2. \A q \in Requests \ {r} : Ordered(q)'
    BY <2>1 DEF Ordered, Unflushed
  <2> QED
    BY <1>1, <2>2
<1>2. ASSUME NEW r \in Requests, NEW t, tx' = [tx EXCEPT ![r] = t],
             \/ t.op = "reload"
             \/ t.held = {} /\ t.pc = "flush"
             \/ t.held = {} /\ \A d \in Devices : t.put[d] = Keep
      PROVE  \A q \in Requests : Ordered(q)'
  <2>1. tx'[r] = t
    BY <1>0, <1>2 DEF TypeOK
  <2>2. Ordered(r)'
    BY <1>2, <2>1 DEF Ordered
  <2> QED
    BY <1>1, <1>2, <2>2
<1>3. Idle.held = {} /\ \A d \in Devices : Idle.put[d] = Keep
  BY DEF Idle
<1>4. ASSUME NEW r \in Requests, NEW op \in WaveOps, NEW w \in Waves, NEW u \in Users,
             Begin(r, op, w, u)
      PROVE  \A q \in Requests : Ordered(q)'
  <2> DEFINE t == [Idle EXCEPT !.pc = "guard", !.op = op, !.actor = u, !.wave = w,
                               !.from = wave[w].state]
  <2>1. t.held = {} /\ \A d \in Devices : t.put[d] = Keep
    BY DEF Idle
  <2> QED
    BY <1>2, <1>4, <2>1 DEF Begin
<1>5. ASSUME NEW r \in Requests, NEW d \in Devices, NEW v \in EvalStates, Evaluate(r, d, v)
      PROVE  \A q \in Requests : Ordered(q)'
  <2> DEFINE t == [Idle EXCEPT !.pc = "flush", !.op = "evaluate",
                               !.put = [@ EXCEPT ![d] = v]]
  <2>1. t.held = {} /\ t.pc = "flush"
    BY DEF Idle
  <2> QED
    BY <1>2, <1>5, <2>1 DEF Evaluate
<1>6. ASSUME NEW r \in Requests, NEW A \in SUBSET Devices,
             NEW v \in [Devices -> EvalStates], Reload(r, A, v)
      PROVE  \A q \in Requests : Ordered(q)'
  <2> DEFINE put == [d \in Devices |-> IF d \in A /\ v[d] # life[d] THEN v[d] ELSE Keep]
             t == [Idle EXCEPT !.pc = "verdicts", !.op = "reload", !.aff = A, !.put = put]
  <2>1. t.op = "reload"
    BY DEF Idle
  <2> QED
    BY <1>2, <1>6, <2>1 DEF Reload
<1>7. ASSUME NEW r \in Requests, Guard(r) PROVE \A q \in Requests : Ordered(q)'
  <2> DEFINE t == [tx[r] EXCEPT !.pc = "load", !.won = tx[r].won \cup {tx[r].wave}]
  <2>1. t.op = tx[r].op /\ t.held = tx[r].held /\ t.put = tx[r].put
    BY <1>0 DEF Tx
  <2>2. tx[r].pc = "guard" /\ tx' = [tx EXCEPT ![r] = t]
    BY <1>7 DEF Guard
  <2>3. \/ t.op = "reload"
        \/ t.held = {} /\ \A d \in Devices : t.put[d] = Keep
    BY <2>1, <2>2 DEF Ordered
  <2> QED
    BY <1>2, <2>2, <2>3
<1>8. ASSUME NEW r \in Requests, GuardLost(r) PROVE \A q \in Requests : Ordered(q)'
  <2> DEFINE t == IF tx[r].op = "reload"
                  THEN [tx[r] EXCEPT !.pc = "pick", !.wave = None,
                                     !.cands = tx[r].cands \ {tx[r].wave}]
                  ELSE Idle
  <2>1. t.op = "reload" \/ t = Idle
    BY <1>0 DEF Tx
  <2> QED
    BY <1>2, <1>3, <1>8, <2>1 DEF GuardLost
<1>9. ASSUME NEW r \in Requests, Load(r) PROVE \A q \in Requests : Ordered(q)'
  <2> DEFINE put == [d \in Devices |-> IF d \in Moves(r) THEN MovesTo(tx[r].op)
                                       ELSE tx[r].put[d]]
             t == IF tx[r].op = "reload"
                  THEN [tx[r] EXCEPT !.pc = "pick", !.put = put,
                                     !.cands = tx[r].cands \ {tx[r].wave}, !.wave = None]
                  ELSE [tx[r] EXCEPT !.pc = "flush", !.put = put]
  <2>1. t.op = tx[r].op /\ t.held = tx[r].held /\ (t.op # "reload" => t.pc = "flush")
    BY <1>0 DEF Tx
  <2>2. tx[r].pc = "load" /\ tx' = [tx EXCEPT ![r] = t]
    BY <1>9 DEF Load
  <2>3. \/ t.op = "reload"
        \/ t.held = {} /\ t.pc = "flush"
    BY <2>1, <2>2 DEF Ordered
  <2> QED
    BY <1>2, <2>2, <2>3
<1>10. ASSUME NEW r \in Requests, Candidates(r) PROVE \A q \in Requests : Ordered(q)'
  <2> DEFINE open == {w \in Waves : /\ wave[w].state \in {"draft", "submitted"}
                                    /\ wave[w].members \cap tx[r].aff # {}}
             t == [tx[r] EXCEPT !.pc = "pick", !.cands = open]
  <2>1. tx[r].pc = "verdicts" /\ tx' = [tx EXCEPT ![r] = t]
    BY <1>10 DEF Candidates
  <2>2. t.op = "reload"
    BY <1>0, <2>1 DEF Tx, Shape
  <2> QED
    BY <1>2, <2>1, <2>2
<1>11. ASSUME NEW r \in Requests, NEW w \in Waves, Pick(r, w)
       PROVE  \A q \in Requests : Ordered(q)'
  <2> DEFINE t == IF wave[w].state \in {"draft", "submitted"}
                  THEN [tx[r] EXCEPT !.pc = "guard", !.wave = w, !.from = wave[w].state]
                  ELSE [tx[r] EXCEPT !.cands = tx[r].cands \ {w}]
  <2>1. tx[r].pc = "pick" /\ tx' = [tx EXCEPT ![r] = t]
    BY <1>11 DEF Pick
  <2>2. t.op = "reload"
    BY <1>0, <2>1 DEF Tx, Shape
  <2> QED
    BY <1>2, <2>1, <2>2
<1>12. ASSUME NEW r \in Requests, NEW d \in Devices, Flush(r, d)
       PROVE  \A q \in Requests : Ordered(q)'
  <2> DEFINE t == [tx[r] EXCEPT !.held = tx[r].held \cup {d}]
  <2>1. t.op = tx[r].op /\ t.held = tx[r].held \cup {d} /\ t.pc = tx[r].pc /\ t.put = tx[r].put
    BY <1>0 DEF Tx
  <2>2. tx' = [tx EXCEPT ![r] = t] /\ tx'[r] = t /\ FlushNext(r, d)
    BY <1>0, <1>12 DEF Flush, TypeOK
  <2>3. Ordered(r)'
    <3>1. SUFFICES ASSUME tx[r].op # "reload"
                   PROVE  /\ tx[r].pc = "flush"
                          /\ \A e \in t.held, f \in Unflushed(r)' : e < f
      BY <2>1, <2>2 DEF Ordered
    <3>2. tx[r].put[d] # Keep /\ d \in Unflushed(r)
      BY <2>2 DEF FlushNext, Unflushed
    <3>3. tx[r].pc = "flush"
      BY <3>1, <3>2 DEF Ordered
    <3>4. Unflushed(r)' = Unflushed(r) \ {d}
      BY <2>1, <2>2 DEF Unflushed
    <3>5. \A f \in Unflushed(r) \ {d} : d < f
      <4>1. \A f \in Unflushed(r) : d <= f /\ f \in Nat
        BY <2>2, <3>1 DEF FlushNext, Unflushed
      <4> QED
        BY <4>1
    <3>6. \A e \in tx[r].held, f \in Unflushed(r) \ {d} : e < f
      BY <3>1 DEF Ordered
    <3> QED
      BY <2>1, <3>3, <3>4, <3>5, <3>6
  <2> QED
    BY <1>1, <2>2, <2>3
<1>13. ASSUME NEW r \in Requests, Commit(r) \/ Abort(r) PROVE \A q \in Requests : Ordered(q)'
  BY <1>2, <1>3, <1>13 DEF Commit, Abort
<1>14. ASSUME tx' = tx PROVE \A q \in Requests : Ordered(q)'
  BY <1>14 DEF Ordered, Unflushed
<1>15. ASSUME NEW w \in Waves, NEW u \in Drafters, NEW S \in Scopes, Draft(w, u, S)
       PROVE  tx' = tx
  BY <1>15 DEF Draft
<1>16. CASE UNCHANGED vars
  BY <1>14, <1>16 DEF vars
<1> QED
  BY <1>4, <1>5, <1>6, <1>7, <1>8, <1>9, <1>10, <1>11, <1>12, <1>13, <1>14, <1>15, <1>16
  DEF Next, Arrive, Step

\* A request that waits and is not a reload waits at its flush when something waits for it.
LEMMA WaitAtFlush ==
    ASSUME IInv, \A r \in Requests : Ordered(r),
           NEW p \in Requests, NEW r \in Requests, NEW q \in Requests,
           tx[r].op # "reload", WaitsFor(p, r), WaitsFor(r, q)
    PROVE  /\ \E d \in Devices : d \in tx[q].held /\ FlushNext(r, d)
           /\ tx[r].pc = "flush"
<1>0. tx[r] \in Tx /\ Shape(r) /\ tx[p] \in Tx
  BY DEF IInv, TypeOK, ReqInv
<1>1. CASE tx[r].pc = "guard"
  <2>1. tx[r].won = {} /\ tx[r].held = {}
    BY <1>0, <1>1 DEF Shape, Ordered, Tx
  <2> QED
    BY <2>1 DEF WaitsFor
<1>2. CASE tx[r].pc # "guard"
  <2>1. PICK d \in tx[q].held : FlushNext(r, d)
    BY <1>2 DEF WaitsFor
  <2>2. d \in Devices /\ tx[r].put[d] # Keep
    BY <2>1 DEF FlushNext, Unflushed
  <2>3. tx[r].pc = "flush"
    BY <2>2 DEF Ordered
  <2> QED
    BY <2>1, <2>2, <2>3
<1> QED
  BY <1>1, <1>2

\* Devices are locked upwards: what r waits for lies above all that r holds.
LEMMA WaitAbove ==
    ASSUME \A r \in Requests : Ordered(r), NEW r \in Requests, tx[r].op # "reload",
           NEW d \in Devices, FlushNext(r, d)
    PROVE  \A e \in tx[r].held : e < d
BY DEF Ordered, FlushNext

\* Among requests that are not reloads there is no cycle of two or three.
LEMMA NoCycle ==
    ASSUME IInv, \A r \in Requests : Ordered(r), \A q \in Requests : tx[q].op # "reload",
           NEW r \in Requests
    PROVE  ~ InCycle(r)
<1> USE ConstantsAssumption
<1>1. ASSUME NEW q \in Requests, WaitsFor(r, q), WaitsFor(q, r) PROVE FALSE
  <2>1. PICK d \in Devices : d \in tx[q].held /\ FlushNext(r, d)
    BY <1>1, WaitAtFlush
  <2>2. PICK e \in Devices : e \in tx[r].held /\ FlushNext(q, e)
    BY <1>1, WaitAtFlush
  <2>3. e < d /\ d < e
    BY <2>1, <2>2, WaitAbove
  <2> QED
    BY <2>3
<1>2. ASSUME NEW p \in Requests, NEW q \in Requests,
             WaitsFor(r, p), WaitsFor(p, q), WaitsFor(q, r)
      PROVE  FALSE
  <2>1. PICK d \in Devices : d \in tx[p].held /\ FlushNext(r, d)
    BY <1>2, WaitAtFlush
  <2>2. PICK e \in Devices : e \in tx[q].held /\ FlushNext(p, e)
    BY <1>2, WaitAtFlush
  <2>3. PICK f \in Devices : f \in tx[r].held /\ FlushNext(q, f)
    BY <1>2, WaitAtFlush
  <2>4. f < d /\ d < e /\ e < f
    BY <2>1, <2>2, <2>3, WaitAbove
  <2>5. d \in Nat /\ e \in Nat /\ f \in Nat
    OBVIOUS
  <2> QED
    BY <2>4, <2>5
<1> QED
  BY <1>1, <1>2 DEF InCycle

\* Deadlocks need a catalogue reload, whatever the number of requests and devices.
THEOREM LockOrder == Spec => []LockCycleNeedsReload
<1> DEFINE Inv == IInv /\ \A r \in Requests : Ordered(r)
<1>1. Init => Inv
  <2>1. Init => \A r \in Requests : Ordered(r)
    BY DEF Init, Idle, Ordered
  <2> QED
    BY <2>1, InitInv
<1>2. Inv /\ [Next]_vars => Inv'
  BY StepInv, StepOrdered
<1>3. Inv => LockCycleNeedsReload
  BY NoCycle DEF LockCycleNeedsReload
<1> QED
  <2>1. Spec => []Inv
    BY <1>1, <1>2, PTL DEF Spec
  <2> QED
    BY <1>3, <2>1, PTL
=====================================================================================
