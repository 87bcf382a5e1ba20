---------------------------- MODULE IntakeServes_proofs ----------------------------
(***************************************************************************)
(* A proof about Intake, on top of Intake_proofs: what a commit leaves that   *)
(* no other commit overlapped.  The session reads what was there when it     *)
(* began, so that every row of the file finds the device of its identity as  *)
(* the rows before have left it; the invariant says, row by row, what has     *)
(* been written so far, and the action property reads it off at the commit.  *)
(***************************************************************************)
EXTENDS Intake_proofs

---------------------------------------------------------------------------
(* The invariant: what a request that nobody overlapped has served.         *)

\* How many rows r is through.
Upto(r) == IF req[r].pc \in {"job", "row", "flush"} THEN req[r].i - 1 ELSE Len(Rows(r))

\* Nobody has committed since r began, and no identity of its rows is a pattern.
Serving(r) ==
  /\ req[r].pc \in Active /\ req[r].quiet
  /\ req[r].op.kind # "judge" /\ req[r].job.status # "failed"
  /\ \A i \in DOMAIN Rows(r) : Literal(Key(Rows(r)[i])[2])

\* The rows that r goes through are those of devices it has loaded, or none.
Listed(r) ==
  /\ \A j \in DOMAIN req[r].todo : /\ req[r].todo[j] \in DOMAIN req[r].base
                                   /\ req[r].base[req[r].todo[j]] # NoDevice
  /\ req[r].pc = "load" => req[r].todo = <<>>

\* A loaded row is as the session would find it again.
Mirrors(r) == \A s \in DOMAIN req[r].base : req[r].base[s] = View(r)[s]

\* The rows up to the n-th that say a fact of an identity, and the fact that they leave.
Saying(file, n, key) == {i \in 1..n : file[i].valid /\ Key(file[i]) = key /\ file[i].fact # None}

Leaves(file, n, key, old, fact) ==
  IF Saying(file, n, key) = {} THEN fact = old
  ELSE \E i \in Saying(file, n, key) :
         (\A j \in Saying(file, n, key) : j <= i) /\ fact = file[i].fact

FactsServed(r) ==
  \A s \in Slots : View(r)[s] # NoDevice =>
    Leaves(Rows(r), Upto(r), Key(View(r)[s]), dev[s].fact, View(r)[s].fact)

\* When a rule matches, d is as one that decides says.
Ruled(d, raw, among) ==
  (\E x \in among : raw \in x.matches) =>
    \E x \in among : /\ Decides(x, raw, among)
                     /\ x.family # None => d.family = x.family
                     /\ ~ x.review => d.life # "imported"

Has(r, s, row) == View(r)[s] # NoDevice /\ Key(View(r)[s]) = Key(row)

RowsPlaced(r) ==
  \A i \in 1..Upto(r) : Rows(r)[i].valid => \E s \in Slots : Has(r, s, Rows(r)[i])

Final(file, n, i) ==
  file[i].valid /\ \A j \in 1..n : j > i => ~ file[j].valid \/ Key(file[j]) # Key(file[i])

RowsServed(r) ==
  \A i \in 1..Upto(r) : Final(Rows(r), Upto(r), i) =>
    \E s \in Slots : /\ Has(r, s, Rows(r)[i]) /\ View(r)[s].raw = Rows(r)[i].raw
                     /\ Ruled(View(r)[s], Rows(r)[i].raw, Visible(r))

\* What r is about to write serves the row it is at.
PlanServes(r) ==
  req[r].pc = "flush" =>
    LET row == Rows(r)[req[r].i]
        old == req[r].base[req[r].slot]
    IN /\ row.valid /\ Key(req[r].plan) = Key(row) /\ req[r].plan.raw = row.raw
       /\ old # NoDevice => Key(old) = Key(row)
       /\ req[r].plan.fact = IF row.fact # None THEN row.fact ELSE old.fact
       /\ Ruled(req[r].plan, row.raw, Visible(r))

Served(r) == Mirrors(r) /\ FactsServed(r) /\ RowsPlaced(r) /\ RowsServed(r) /\ PlanServes(r)

QuietSound(r) == Listed(r) /\ (Serving(r) => Served(r))

QuietInv == \A r \in Requests : QuietSound(r)

---------------------------------------------------------------------------
(* Keys, facts and rules.                                                  *)

\* No two rows that a session sees have the same key.
LEMMA ViewKeys ==
  ASSUME Types, RowsInv, NEW r \in Requests, NEW s \in Slots, NEW t \in Slots, s # t,
         View(r)[s] # NoDevice, View(r)[t] # NoDevice
  PROVE  Key(View(r)[s]) # Key(View(r)[t])
<1>1. KeysApart
  BY DEF RowsInv
<1>2. \A x \in Locks(r) : x \in Slots /\ View(r)[x] = req[r].locked[x]
  BY ViewType
<1>3. \A x \in Slots \ Locks(r) : View(r)[x] = dev[x]
  BY ViewType
<1>4. CASE s \in Locks(r) /\ t \in Locks(r)
  BY <1>1, <1>2, <1>4 DEF KeysApart
<1>5. CASE s \in Locks(r) /\ t \notin Locks(r)
  BY <1>1, <1>2, <1>3, <1>5 DEF KeysApart
<1>6. CASE s \notin Locks(r) /\ t \in Locks(r)
  BY <1>1, <1>2, <1>3, <1>6 DEF KeysApart
<1>7. CASE s \notin Locks(r) /\ t \notin Locks(r)
  BY <1>1, <1>3, <1>7 DEF KeysApart
<1> QED
  BY <1>4, <1>5, <1>6, <1>7

\* An identity that is no pattern finds the device that has it.
LEMMA FindKey ==
  ASSUME Types, NEW r \in Requests, NEW row \in Row, Literal(Key(row)[2]),
         NEW s \in Find(r, row)
  PROVE  s \in Slots /\ Has(r, s, row)
<1> DEFINE d == View(r)[s]
<1>1. /\ s \in Slots /\ d # NoDevice
      /\ IF row.serial # None THEN d.serial # None /\ Like(row.serial, d.serial)
         ELSE d.serial = None /\ Like(row.place, d.place)
  BY DEF Find
<1>2. d \in Existing
  BY <1>1, ViewType
<1> HIDE DEF d
<1>3. d.serial \in Serials \cup {None} /\ d.place \in Places \cup {None}
  BY <1>2 DEF Existing, Device
<1>4. CASE row.serial # None
  <2>1. Key(row) = <<"serial", row.serial>> /\ Key(row)[2] = row.serial
    BY <1>4 DEF Key
  <2>2. row.serial = d.serial
    BY <1>1, <1>3, <1>4, <2>1 DEF Literal
  <2> QED
    BY <1>1, <1>4, <2>1, <2>2 DEF Has, Key, d
<1>5. CASE row.serial = None
  <2>1. Key(row) = <<"place", row.place>> /\ Key(row)[2] = row.place
    BY <1>5 DEF Key
  <2>2. d.serial = None /\ Like(row.place, d.place)
    BY <1>1, <1>5
  <2>3. row.place \in Places \cup {None}
    BY DEF Row
  <2>4. d.place \in Places
    BY <1>3, <2>2, <2>3, LikeAssumption
  <2>5. row.place = d.place
    BY <2>1, <2>2, <2>4 DEF Literal
  <2> QED
    BY <1>1, <2>1, <2>2, <2>5 DEF Has, Key, d
<1> QED
  BY <1>4, <1>5

\* A row that does not say anything of an identity leaves its fact alone.
LEMMA LeavesOther ==
  ASSUME NEW file, NEW n \in Nat, NEW key, NEW old, NEW fact,
         Leaves(file, n, key, old, fact),
         ~ file[n + 1].valid \/ Key(file[n + 1]) # key
  PROVE  Leaves(file, n + 1, key, old, fact)
<1>1. Saying(file, n + 1, key) = Saying(file, n, key)
  BY DEF Saying
<1> QED
  BY <1>1 DEF Leaves

\* A row of the identity leaves what it says, or what was known.
LEMMA LeavesThis ==
  ASSUME NEW file, NEW n \in Nat, NEW key, NEW old, NEW fact,
         Leaves(file, n, key, old, fact),
         file[n + 1].valid, Key(file[n + 1]) = key
  PROVE  Leaves(file, n + 1, key, old, IF file[n + 1].fact # None THEN file[n + 1].fact ELSE fact)
<1> DEFINE S == Saying(file, n, key)
           T == Saying(file, n + 1, key)
<1>1. CASE file[n + 1].fact # None
  <2>1. n + 1 \in T /\ \A j \in T : j <= n + 1
    BY <1>1 DEF Saying
  <2> QED
    BY <1>1, <2>1 DEF Leaves
<1>2. CASE file[n + 1].fact = None
  <2>1. T = S
    BY <1>2 DEF Saying
  <2> QED
    BY <1>2, <2>1 DEF Leaves
<1> QED
  BY <1>1, <1>2

\* The fact that the rows of a whole file leave is the last one they say.
LEMMA LeavesLast ==
  ASSUME NEW file, NEW n \in Nat, DOMAIN file = 1..n, NEW key, NEW old, NEW fact,
         Leaves(file, n, key, old, fact)
  PROVE  fact = LastFact(file, key, old)
<1> DEFINE said == Saying(file, n, key)
<1>1. LastFact(file, key, old) =
        IF said = {} THEN old ELSE file[CHOOSE i \in said : \A j \in said : j <= i].fact
  BY DEF LastFact, Saying
<1>2. CASE said = {}
  BY <1>1, <1>2 DEF Leaves
<1>3. CASE said # {}
  <2>1. PICK i \in said : (\A j \in said : j <= i) /\ fact = file[i].fact
    BY <1>3 DEF Leaves
  <2>2. said \subseteq Nat
    BY DEF Saying
  <2> DEFINE last == CHOOSE x \in said : \A j \in said : j <= x
  <2>3. last \in said /\ \A j \in said : j <= last
    BY <2>1
  <2> HIDE DEF last, said
  <2>4. last = i
    BY <2>1, <2>2, <2>3
  <2> QED
    BY <1>1, <1>3, <2>1, <2>4 DEF last
<1> QED
  BY <1>2, <1>3

\* What the order of rules means to an operator.
LEMMA NotOutranked ==
  ASSUME NEW x \in Rule, NEW y \in Rule, ~ Outranks(y, x)
  PROVE  /\ y.tier = "db" => x.tier = "db"
         /\ y.tier = x.tier => y.priority <= x.priority
         /\ (y.tier = x.tier /\ y.priority = x.priority) => y.specificity <= x.specificity
<1> DEFINE rank(z) == <<IF z.tier = "db" THEN 1 ELSE 0, z.priority, z.specificity, z.created>>
<1>1. /\ x.priority \in Int /\ x.specificity \in Int /\ y.priority \in Int /\ y.specificity \in Int
  BY DEF Rule
<1>2. \A k \in 1..4 : ~ /\ rank(y)[k] > rank(x)[k]
                        /\ \A j \in 1..(k - 1) : rank(y)[j] = rank(x)[j]
  BY DEF Outranks
<1>3. \A z : /\ rank(z)[1] = (IF z.tier = "db" THEN 1 ELSE 0)
             /\ rank(z)[2] = z.priority /\ rank(z)[3] = z.specificity
  OBVIOUS
<1> HIDE DEF rank
<1>4. 1..(1 - 1) = {} /\ 1..(2 - 1) = {1} /\ 1..(3 - 1) = {1, 2} /\ {1, 2, 3} \subseteq 1..4
  OBVIOUS
<1>5. ~ (rank(y)[1] > rank(x)[1])
  BY <1>2, <1>4
<1>6. rank(y)[1] = rank(x)[1] => ~ (rank(y)[2] > rank(x)[2])
  BY <1>2, <1>4
<1>7. (rank(y)[1] = rank(x)[1] /\ rank(y)[2] = rank(x)[2]) => ~ (rank(y)[3] > rank(x)[3])
  BY <1>2, <1>4
<1> QED
  BY <1>1, <1>3, <1>5, <1>6, <1>7

\* What normalize returns is what a rule puts out that decides.
LEMMA NormalizedRuled ==
  ASSUME Types, NEW r \in Requests, NEW row, NEW norm \in Normalized(r, row),
         NEW x \in Visible(r), row.raw \in x.matches
  PROVE  \E y \in Visible(r) : /\ Decides(y, row.raw, Visible(r))
                               /\ y.family = norm.family /\ y.review = norm.review
<1> DEFINE matching == {y \in Visible(r) : Recognises(y, row)}
<1>1. Visible(r) \subseteq Rule
  BY DEF Visible, Types, IsReq
<1>2. x \in matching
  BY DEF Recognises
<1>3. PICK y \in matching : /\ ~ \E z \in matching : Outranks(z, y)
                           /\ norm = [family |-> y.family, review |-> y.review]
  BY <1>2 DEF Normalized
<1>4. y \in Visible(r) /\ y \in Rule /\ row.raw \in y.matches
  BY <1>1 DEF Recognises
<1>5. Decides(y, row.raw, Visible(r))
  <2> SUFFICES ASSUME NEW z \in Visible(r), row.raw \in z.matches
               PROVE  /\ z.tier = "db" => y.tier = "db"
                      /\ z.tier = y.tier => z.priority <= y.priority
                      /\ (z.tier = y.tier /\ z.priority = y.priority) =>
                           z.specificity <= y.specificity
    BY <1>4 DEF Decides
  <2>1. z \in matching /\ z \in Rule
    BY <1>1 DEF Recognises
  <2> QED
    BY <1>3, <1>4, <2>1, NotOutranked
<1>6. y.family = norm.family /\ y.review = norm.review
  BY <1>3
<1> QED
  BY <1>4, <1>5, <1>6

---------------------------------------------------------------------------
(* Steps that write no row.                                                *)

\* What Served speaks of, in the record of r.
Untouched(r, t) == /\ t.op = req[r].op /\ t.todo = req[r].todo /\ t.base = req[r].base
              /\ t.locked = req[r].locked /\ t.added = req[r].added

\* A session that keeps its rows, and where it is, serves what it has served.
LEMMA ServedKept ==
  ASSUME NEW r \in Requests, Untouched(r, req'[r]), dev' = dev, rules' = rules,
         Upto(r)' = Upto(r), Served(r),
         req'[r].pc = "flush" => /\ req[r].pc = "flush" /\ req'[r].i = req[r].i
                                 /\ req'[r].slot = req[r].slot /\ req'[r].plan = req[r].plan
  PROVE  Served(r)'
<1>1. Rows(r)' = Rows(r) /\ View(r)' = View(r) /\ Visible(r)' = Visible(r)
  BY DEF Untouched, Rows, View, Visible
<1>2. Mirrors(r)'
  BY <1>1 DEF Served, Untouched, Mirrors
<1>3. FactsServed(r)'
  BY <1>1 DEF Served, FactsServed
<1>4. RowsPlaced(r)'
  BY <1>1 DEF Served, RowsPlaced, Has
<1>5. RowsServed(r)'
  BY <1>1 DEF Served, RowsServed, Has
<1>6. PlanServes(r)'
  BY <1>1 DEF Served, Untouched, PlanServes
<1> QED
  BY <1>2, <1>3, <1>4, <1>5, <1>6 DEF Served

\* Nothing has been served before the first row.
LEMMA ServedNothing ==
  ASSUME NEW r \in Requests, Mirrors(r)', \A s \in Slots : View(r)'[s] = dev'[s],
         Upto(r)' = 0, req'[r].pc # "flush"
  PROVE  Served(r)'
<1>1. 1..0 = {}
  OBVIOUS
<1>2. FactsServed(r)'
  BY <1>1 DEF FactsServed, Leaves, Saying
<1>3. RowsPlaced(r)' /\ RowsServed(r)'
  BY <1>1 DEF RowsPlaced, RowsServed
<1> QED
  BY <1>2, <1>3 DEF Served, PlanServes

\* A request that lists no device has no rows, unless it is an upload.
LEMMA NoRowsListed ==
  ASSUME NEW r \in Requests, req'[r].op.kind # "upload", req'[r].todo = <<>>
  PROVE  DOMAIN (Rows(r)') = {} /\ Len(Rows(r)') = 0
<1>1. Rows(r)' = [i \in DOMAIN <<>> |->
                   LET d == req'[r].base[req'[r].todo[i]]
                   IN [valid |-> TRUE, serial |-> d.serial, place |-> d.place, raw |-> d.raw,
                       fact |-> d.fact]]
  BY DEF Rows
<1>2. DOMAIN (Rows(r)') = {}
  BY <1>1
<1>3. Rows(r)' = <<>>
  BY <1>1
<1> QED
  BY <1>2, <1>3

\* A request that does nothing, and sees nothing change.
LEMMA StillSound ==
  ASSUME NEW r \in Requests, req'[r] = req[r], dev' = dev, rules' = rules, QuietSound(r)
  PROVE  QuietSound(r)'
<1>1. Rows(r)' = Rows(r) /\ Upto(r)' = Upto(r)
  BY DEF Rows, Upto
<1>2. Serving(r)' => Serving(r)
  BY <1>1 DEF Serving
<1>3. Listed(r)'
  BY DEF QuietSound, Listed
<1>4. Served(r) => Served(r)'
  BY <1>1, ServedKept DEF Untouched
<1> QED
  BY <1>2, <1>3, <1>4 DEF QuietSound

\* A request that is over.
LEMMA OverSound ==
  ASSUME Types, NEW r \in Requests, NEW pc \in Ended, req'[r] = Over(r, pc)
  PROVE  QuietSound(r)'
<1>1. req'[r].pc = pc /\ req'[r].todo = <<>>
  BY OverFacts DEF Pcs
<1>2. pc \notin Active
  BY DEF Ended, Active, Handling
<1>3. Listed(r)'
  <2>1. DOMAIN req'[r].todo = {}
    BY <1>1
  <2>2. req'[r].pc # "load"
    BY <1>1 DEF Ended
  <2> QED
    BY <2>1, <2>2 DEF Listed
<1> QED
  BY <1>1, <1>2, <1>3 DEF QuietSound, Serving

\* A request that goes on to its next step.
LEMMA PassSound ==
  ASSUME Types, NEW r \in Requests, Progress(r), Untouched(r, req'[r]), dev' = dev, rules' = rules,
         req'[r].quiet = req[r].quiet, req[r].pc \in Active \ {"load"},
         req'[r].pc \notin {"flush", "load"}, Upto(r)' = Upto(r),
         req[r].job.status # "failed", QuietSound(r)
  PROVE  QuietSound(r)'
<1>1. Rows(r)' = Rows(r)
  BY DEF Untouched, Rows
<1>2. Serving(r)' => Serving(r)
  BY <1>1 DEF Serving, Untouched
<1>3. Listed(r)'
  BY DEF QuietSound, Listed, Untouched
<1>4. Served(r) => Served(r)'
  BY ServedKept
<1> QED
  BY <1>2, <1>3, <1>4 DEF QuietSound

\* A request that begins lists no device unless it goes through the estate.
LEMMA BeginListed ==
  ASSUME Types, NEW r \in Requests, Begin(r)
  PROVE  req'[r].pc \in {"load", "commit"} => req'[r].todo = <<>>
<1>1. DOMAIN req = Requests
  BY DEF Types
<1>2. PICK op \in setting.ops :
       LET taken == [Idle EXCEPT !.op = op]
       IN CASE op.kind = "upload" ->
                 req' = [req EXCEPT ![r] = [taken EXCEPT !.pc =
                   IF ~ op.override /\ \E q \in Requests :
                        jobs[q].status # None /\ ~ jobs[q].override /\ jobs[q].file = op.file
                   THEN "failed" ELSE "job"]]
            [] op.kind = "judge" ->
                 /\ dev[op.slot] # NoDevice
                 /\ req' = [req EXCEPT ![r] = [taken EXCEPT !.slot = op.slot,
                      !.pc = IF dev[op.slot].life = "judged" THEN "returned" ELSE "flush",
                      !.base = Put(NoRows, op.slot, dev[op.slot]),
                      !.plan = [dev[op.slot] EXCEPT !.life = "judged"]]]
            [] op.kind = "load" ->
                 req' = [req EXCEPT ![r] = [taken EXCEPT !.pc = "load",
                   !.found = {x \in rules : \E y \in FileRules : x.id = y.id}]]
            [] OTHER ->
                 \E estate \in Estates \cup (IF op.kind = "rule" THEN {<<>>} ELSE {}) :
                   req' = [req EXCEPT ![r] = [taken EXCEPT
                     !.pc = IF estate = <<>> THEN "commit" ELSE "row", !.todo = estate,
                     !.added = IF op.kind = "rule"
                               THEN {[op.rule EXCEPT !.id = NewId(r), !.created = r]} ELSE {},
                     !.base = [s \in {estate[i] : i \in DOMAIN estate} |-> dev[s]]]]
  BY DEF Begin
<1>3. CASE op.kind = "upload"
  BY <1>1, <1>2, <1>3 DEF Idle
<1>4. CASE op.kind = "judge"
  <2> DEFINE pc == IF dev[op.slot].life = "judged" THEN "returned" ELSE "flush"
             base == Put(NoRows, op.slot, dev[op.slot])
             plan == [dev[op.slot] EXCEPT !.life = "judged"]
  <2>1. req' = [req EXCEPT ![r] = [[Idle EXCEPT !.op = op] EXCEPT !.slot = op.slot, !.pc = pc,
                                                                   !.base = base, !.plan = plan]]
    BY <1>2, <1>4
  <2>2. pc \notin {"load", "commit"}
    OBVIOUS
  <2> HIDE DEF pc, base, plan
  <2>3. req'[r].pc = pc
    BY <1>1, <2>1 DEF Idle
  <2> QED
    BY <2>2, <2>3
<1>5. CASE op.kind = "load"
  BY <1>1, <1>2, <1>5 DEF Idle
<1>6. CASE op.kind \notin {"upload", "judge", "load"}
  <2> DEFINE pc(estate) == IF estate = <<>> THEN "commit" ELSE "row"
             added == IF op.kind = "rule"
                      THEN {[op.rule EXCEPT !.id = NewId(r), !.created = r]} ELSE {}
             base(estate) == [s \in {estate[i] : i \in DOMAIN estate} |-> dev[s]]
  <2>1. PICK estate \in Estates \cup (IF op.kind = "rule" THEN {<<>>} ELSE {}) :
          req' = [req EXCEPT ![r] = [[Idle EXCEPT !.op = op] EXCEPT
                    !.pc = pc(estate), !.todo = estate, !.added = added, !.base = base(estate)]]
    BY <1>2, <1>6
  <2>2. pc(estate) = "commit" => estate = <<>>
    OBVIOUS
  <2>3. pc(estate) # "load"
    OBVIOUS
  <2> HIDE DEF pc, added, base
  <2>4. req'[r].pc = pc(estate) /\ req'[r].todo = estate
    BY <1>1, <2>1 DEF Idle
  <2> QED
    BY <2>2, <2>3, <2>4
<1> QED
  BY <1>3, <1>4, <1>5, <1>6

LEMMA BeginSound ==
  ASSUME IInv, NEW r \in Requests, Begin(r)
  PROVE  QuietSound(r)'
<1> DEFINE t == req'[r]
<1>1. Types /\ dev' = dev /\ Begins(t)
  BY BeginEffect DEF IInv, Begin
<1>2. /\ t.i = 1 /\ t.locked = NoRows /\ \A s \in DOMAIN t.base : t.base[s] = dev[s] /\ dev[s] # NoDevice
      /\ \A j \in DOMAIN t.todo : t.todo[j] \in DOMAIN t.base
      /\ DOMAIN t.base \subseteq Slots
  BY <1>1 DEF Begins, IsReq, IsTable
<1>3. t.pc \in {"load", "commit"} => t.todo = <<>>
  BY <1>1, BeginListed
<1>4. Listed(r)'
  BY <1>2, <1>3 DEF Listed
<1>5. ASSUME Serving(r)' PROVE Served(r)'
  <2>1. t.pc \in {"job", "row"} \/ (t.pc \in {"load", "commit"} /\ t.op.kind # "upload")
    BY <1>1, <1>5 DEF Serving, Begins, Active, Handling
  <2>2. Upto(r)' = 0 /\ t.pc # "flush"
    BY <1>2, <1>3, <2>1, NoRowsListed DEF Upto
  <2>3. \A s \in Slots : View(r)'[s] = dev[s]
    BY <1>1, <1>2, NoRowsTable DEF View
  <2>4. Mirrors(r)'
    BY <1>2, <2>3 DEF Mirrors
  <2> QED
    BY <1>1, <2>2, <2>3, <2>4, ServedNothing
<1> QED
  BY <1>4, <1>5 DEF QuietSound

---------------------------------------------------------------------------
(* The other steps that write no row.                                      *)

LEMMA InsertJobSound ==
  ASSUME IInv, NEW r \in Requests, InsertJob(r), QuietSound(r)
  PROVE  QuietSound(r)'
<1>1. /\ Types /\ Progress(r) /\ IsReq(req[r]) /\ req[r].pc = "job" /\ dev' = dev /\ rules' = rules
  BY DEF IInv, Types, JobsInv, InsertJob
<1>2. CASE Taken(r)
  BY <1>1, <1>2, InsertJobEffect, OverSound DEF Ended
<1>3. CASE ~ Taken(r)
  <2>1. PICK status \in {"completed", "failed"}, pc \in Pcs :
          /\ req'[r] = [req[r] EXCEPT !.pc = pc, !.job = NewJob(req[r].op, status)]
          /\ status = "failed" => pc = "audit"
          /\ status = "completed" => pc = After(r, 0).pc
    BY <1>1, <1>3, InsertJobEffect
  <2> DEFINE t == req'[r]
             job == NewJob(req[r].op, status)
  <2>2. job.status = status
    BY DEF NewJob, NoJob
  <2> HIDE DEF job
  <2>3. /\ Untouched(r, t) /\ t.quiet = req[r].quiet /\ t.pc = pc /\ t.job.status = status
        /\ t.i = req[r].i
    BY <1>1, <2>1, <2>2 DEF IsReq, Untouched, job
  <2>4. pc \in {"row", "audit", "commit"}
    BY <1>1, <2>1, AfterFacts
  <2>5. Rows(r)' = Rows(r)
    BY <2>3 DEF Untouched, Rows
  <2>6. CASE status = "completed"
    <3>1. req[r].i = 1 /\ req[r].job.status # "failed" /\ Upto(r) = 0
      <4>1. req[r].i = 1 /\ req[r].job = NoJob
        BY <1>1 DEF Progress
      <4>2. NoJob.status # "failed"
        BY DEF NoJob, None
      <4> QED
        BY <1>1, <4>1, <4>2 DEF Upto
    <3>2. Len(Rows(r)) \in Nat
      BY <1>1, RowsFacts
    <3>3. Upto(r)' = 0
      <4>1. CASE 0 < Len(Rows(r))
        BY <1>1, <2>1, <2>3, <2>6, <3>1, <4>1, AfterFacts DEF Upto
      <4>2. CASE ~ (0 < Len(Rows(r)))
        BY <1>1, <2>3, <2>4, <2>5, <2>1, <2>6, <3>2, <4>2, AfterFacts DEF Upto
      <4> QED
        BY <4>1, <4>2
    <3> QED
      BY <1>1, <2>3, <2>4, <3>1, <3>3, PassSound DEF Active, Handling
  <2>7. CASE status = "failed"
    <3>1. Listed(r)'
      BY <2>3, <2>4 DEF QuietSound, Listed, Untouched
    <3> QED
      BY <2>3, <2>7, <3>1 DEF QuietSound, Serving
  <2> QED
    BY <2>6, <2>7
<1> QED
  BY <1>2, <1>3

LEMMA LoadCatalogSound ==
  ASSUME IInv, NEW r \in Requests, LoadCatalog(r), QuietSound(r)
  PROVE  QuietSound(r)'
<1>1. /\ Types /\ Progress(r) /\ IsReq(req[r]) /\ req[r].pc = "load" /\ dev' = dev
      /\ req[r].op.kind = "load" /\ req[r].todo = <<>>
  BY DEF IInv, Types, JobsInv, LoadCatalog, QuietSound, Listed, Progress
<1>2. CASE req'[r] = Over(r, "failed")
  BY <1>1, <1>2, OverSound DEF Ended
<1>3. CASE req'[r] = [req[r] EXCEPT !.pc = "commit", !.added = req'[r].added]
  <2> DEFINE t == req'[r]
  <2>1. /\ t.pc = "commit" /\ t.op = req[r].op /\ t.todo = <<>> /\ t.base = req[r].base
        /\ t.locked = req[r].locked /\ t.quiet = req[r].quiet /\ t.job = req[r].job
    BY <1>1, <1>3 DEF IsReq
  <2> HIDE DEF t
  <2>2. Rows(r)' = Rows(r) /\ View(r)' = View(r)
    BY <1>1, <2>1 DEF Rows, View, t
  <2>3. Upto(r)' = 0 /\ Upto(r) = 0
    <3>1. Len(Rows(r)') = 0
      BY <1>1, <2>1, NoRowsListed DEF t
    <3> QED
      BY <1>1, <2>1, <2>2, <3>1 DEF Upto, t
  <2>4. Listed(r)'
    <3>1. DOMAIN t.todo = {}
      BY <2>1
    <3> QED
      BY <2>1, <3>1 DEF Listed, t
  <2>5. ASSUME Serving(r)' PROVE Served(r)'
    <3>1. Serving(r)
      BY <1>1, <2>1, <2>2, <2>5 DEF Serving, t, Active, Handling
    <3>2. Mirrors(r)'
      BY <2>1, <2>2, <3>1 DEF QuietSound, Served, Mirrors, t
    <3>3. FactsServed(r)'
      BY <1>1, <2>2, <2>3, <3>1 DEF QuietSound, Served, FactsServed
    <3>4. RowsPlaced(r)' /\ RowsServed(r)'
      <4>1. 1..0 = {}
        OBVIOUS
      <4> QED
        BY <2>3, <4>1 DEF RowsPlaced, RowsServed
    <3>5. PlanServes(r)'
      BY <2>1 DEF PlanServes, t
    <3> QED
      BY <3>2, <3>3, <3>4, <3>5 DEF Served
  <2> QED
    BY <2>4, <2>5 DEF QuietSound
<1> QED
  BY <1>1, <1>2, <1>3, LoadCatalogEffect

\* The number of rows that a request is through grows by one.
LEMMA UptoNext ==
  ASSUME Types, NEW r \in Requests, Progress(r), req[r].pc \in {"row", "flush"},
         req[r].op.kind # "judge", Len(Rows(r)') = Len(Rows(r)),
         req'[r].pc = After(r, req[r].i).pc, req'[r].i = After(r, req[r].i).i
  PROVE  /\ Upto(r)' = Upto(r) + 1 /\ Upto(r) \in Nat /\ req[r].i = Upto(r) + 1
         /\ req[r].i \in DOMAIN Rows(r) /\ req'[r].pc \in {"row", "audit", "commit"}
<1> DEFINE n == Len(Rows(r))
           i == req[r].i
<1>1. i \in 1..n /\ n \in Nat /\ DOMAIN Rows(r) = 1..n
  BY RowsFacts DEF Progress
<1>2. /\ i < n => req'[r].pc = "row" /\ req'[r].i = i + 1
      /\ ~ (i < n) => req'[r].pc \in {"audit", "commit"}
  BY <1>1, AfterFacts
<1>3. Len(Rows(r)') = n
  OBVIOUS
<1> HIDE DEF n
<1>4. Upto(r)' = i
  <2>1. CASE i < n
    BY <1>1, <1>2, <2>1 DEF Upto
  <2>2. CASE ~ (i < n)
    BY <1>1, <1>2, <1>3, <2>2 DEF Upto
  <2> QED
    BY <2>1, <2>2
<1> QED
  BY <1>1, <1>2, <1>4 DEF Upto

\* A rejected row serves nothing, and leaves everything as it was.
LEMMA RejectSound ==
  ASSUME IInv, NEW r \in Requests, Look(r), ~ Rows(r)[req[r].i].valid, QuietSound(r)
  PROVE  QuietSound(r)'
<1> DEFINE t == req'[r]
           job == [req[r].job EXCEPT !.count = Counted(r, {"total", "rejected"})]
           n == Upto(r)
           file == Rows(r)
<1>1. /\ Types /\ Progress(r) /\ IsReq(req[r]) /\ req[r].pc = "row" /\ dev' = dev /\ rules' = rules
      /\ req[r].op.kind # "judge"
  BY DEF IInv, Types, JobsInv, Look, Progress
<1>2. t = [req[r] EXCEPT !.job = job, !.pc = After(r, req[r].i).pc, !.i = After(r, req[r].i).i]
  BY <1>1, RejectEffect
<1>3. job.status = req[r].job.status
  BY <1>1 DEF IsReq, Job
<1> HIDE DEF job
<1>4. /\ Untouched(r, t) /\ t.quiet = req[r].quiet /\ t.job.status = req[r].job.status
      /\ t.pc = After(r, req[r].i).pc /\ t.i = After(r, req[r].i).i
  BY <1>1, <1>2, <1>3 DEF IsReq, Untouched
<1> HIDE DEF t
<1>5. Rows(r)' = file /\ View(r)' = View(r) /\ Visible(r)' = Visible(r)
  BY <1>1, <1>4 DEF Untouched, Rows, View, Visible, t
<1>6. /\ Upto(r)' = n + 1 /\ n \in Nat /\ req[r].i = n + 1 /\ t.pc \in {"row", "audit", "commit"}
      /\ ~ file[n + 1].valid
  BY <1>1, <1>4, <1>5, UptoNext DEF t
<1> HIDE DEF n, file
<1>7. Listed(r)'
  BY <1>4, <1>6 DEF QuietSound, Listed, Untouched, t
<1>8. ASSUME Serving(r)' PROVE Served(r)'
  <2>1. Serving(r)
    BY <1>1, <1>4, <1>5, <1>8 DEF Serving, Untouched, Active, Handling, file, t
  <2>2. Served(r)
    BY <2>1 DEF QuietSound
  <2>3. Mirrors(r)'
    BY <1>4, <1>5, <2>2 DEF Served, Mirrors, Untouched, t
  <2>4. FactsServed(r)'
    <3> SUFFICES ASSUME NEW s \in Slots, View(r)[s] # NoDevice
                 PROVE  Leaves(file, n + 1, Key(View(r)[s]), dev[s].fact, View(r)[s].fact)
      BY <1>1, <1>5, <1>6 DEF FactsServed
    <3>1. Leaves(file, n, Key(View(r)[s]), dev[s].fact, View(r)[s].fact)
      BY <2>2 DEF Served, FactsServed, file, n
    <3> QED
      BY <1>6, <3>1, LeavesOther
  <2>5. \A i \in 1..(n + 1) : file[i].valid => i \in 1..n
    BY <1>6
  <2>6. RowsPlaced(r)'
    BY <1>5, <1>6, <2>2, <2>5 DEF Served, RowsPlaced, Has, file, n
  <2>7. RowsServed(r)'
    <3> SUFFICES ASSUME NEW i \in 1..(n + 1), Final(file, n + 1, i)
                 PROVE  \E s \in Slots :
                          /\ Has(r, s, file[i]) /\ View(r)[s].raw = file[i].raw
                          /\ Ruled(View(r)[s], file[i].raw, Visible(r))
      BY <1>5, <1>6 DEF RowsServed, Has
    <3>1. i \in 1..n /\ Final(file, n, i)
      BY <1>6, <2>5 DEF Final
    <3> QED
      BY <2>2, <3>1 DEF Served, RowsServed, file, n
  <2>8. PlanServes(r)'
    BY <1>6 DEF PlanServes, t
  <2> QED
    BY <2>3, <2>4, <2>6, <2>7, <2>8 DEF Served
<1> QED
  BY <1>7, <1>8 DEF QuietSound

---------------------------------------------------------------------------
(* A row is looked up and written.                                         *)

\* What a row makes of a device that is there, and of a new one.
LEMMA UpdatedFacts ==
  ASSUME NEW old \in Existing, NEW row \in Row, NEW norm \in Norm
  PROVE  LET e == Updated(old, row, norm)
         IN /\ e.serial = old.serial /\ e.place = old.place /\ e.raw = row.raw
            /\ e.fact = IF row.fact # None THEN row.fact ELSE old.fact
            /\ norm.family # None => e.family = norm.family
            /\ ~ norm.review => e.life # "imported"
<1> DEFINE fact == IF row.fact # None THEN row.fact ELSE old.fact
           fam == IF norm.family # None THEN norm.family ELSE old.family
           life == IF ~ norm.review /\ old.life = "imported" THEN "classified" ELSE old.life
           e == Updated(old, row, norm)
<1>1. e = [old EXCEPT !.raw = row.raw, !.fact = fact, !.family = fam, !.life = life]
  BY DEF Updated, Existing, Device
<1>2. (norm.family # None => fam = norm.family) /\ (~ norm.review => life # "imported")
  OBVIOUS
<1> HIDE DEF fact, fam, life, e
<1>3. /\ e.serial = old.serial /\ e.place = old.place /\ e.raw = row.raw /\ e.fact = fact
      /\ e.family = fam /\ e.life = life
  BY <1>1 DEF Existing, Device
<1> QED
  BY <1>2, <1>3 DEF fact, e

LEMMA CreatedFacts ==
  ASSUME NEW row, NEW norm
  PROVE  LET e == Created(row, norm)
         IN /\ e.serial = row.serial /\ e.place = row.place /\ e.raw = row.raw
            /\ e.fact = row.fact
            /\ norm.family # None => e.family = norm.family
            /\ ~ norm.review => e.life # "imported"
  BY DEF Created

\* A device that has taken what normalize returned.
LEMMA OutputRuled ==
  ASSUME Types, NEW r \in Requests, NEW row, NEW norm \in Normalized(r, row), NEW d,
         norm.family # None => d.family = norm.family,
         ~ norm.review => d.life # "imported"
  PROVE  Ruled(d, row.raw, Visible(r))
  BY NormalizedRuled DEF Ruled

\* The rows that are listed follow the rows that are loaded.
LEMMA RowsListed ==
  ASSUME NEW r \in Requests, req'[r].op = req[r].op, req'[r].todo = req[r].todo,
         \A j \in DOMAIN req[r].todo :
           req'[r].base[req[r].todo[j]] = req[r].base[req[r].todo[j]]
  PROVE  Rows(r)' = Rows(r)
<1>1. CASE req[r].op.kind = "upload"
  BY <1>1 DEF Rows
<1>2. CASE req[r].op.kind # "upload"
  BY <1>2 DEF Rows
<1> QED
  BY <1>1, <1>2

LEMMA UpsertPlan ==
  ASSUME Types, NEW r \in Requests, NEW row, Upsert(r, row)
  PROVE  \E s \in IF Find(r, row) # {} THEN Find(r, row) ELSE Fresh,
            norm \in Normalized(r, row) :
           LET old  == IF s \in DOMAIN req[r].base THEN req[r].base[s] ELSE View(r)[s]
               plan == IF Find(r, row) = {} THEN Created(row, norm)
                       ELSE Updated(old, row, norm)
           IN req'[r] = [req[r] EXCEPT !.pc = "flush", !.slot = s, !.base = Put(@, s, old),
                                       !.review = norm.review, !.plan = plan]
<1> DEFINE O(s) == IF s \in DOMAIN req[r].base THEN req[r].base[s] ELSE View(r)[s]
           P(s, norm) == IF Find(r, row) = {} THEN Created(row, norm)
                           ELSE Updated(O(s), row, norm)
<1>1. PICK s \in IF Find(r, row) # {} THEN Find(r, row) ELSE Fresh, norm \in Normalized(r, row) :
        req' = [req EXCEPT ![r].pc = "flush", ![r].slot = s, ![r].base = Put(@, s, O(s)),
                           ![r].review = norm.review, ![r].plan = P(s, norm)]
  BY DEF Upsert
<1> DEFINE o == O(s)
           p == P(s, norm)
<1>2. req' = [req EXCEPT ![r].pc = "flush", ![r].slot = s, ![r].base = Put(@, s, o),
                         ![r].review = norm.review, ![r].plan = p]
  BY <1>1
<1> HIDE DEF o, p
<1>3. req'[r] = [req[r] EXCEPT !.pc = "flush", !.slot = s, !.base = Put(@, s, o),
                               !.review = norm.review, !.plan = p]
  BY <1>2 DEF Types, IsReq
<1> QED
  BY <1>3 DEF o, p

\* A session that sees the same has served the same.
LEMMA SeenServed ==
  ASSUME NEW r \in Requests, Served(r), dev' = dev, Rows(r)' = Rows(r), View(r)' = View(r),
         Visible(r)' = Visible(r), Upto(r)' = Upto(r)
  PROVE  FactsServed(r)' /\ RowsPlaced(r)' /\ RowsServed(r)'
<1>1. FactsServed(r)'
  BY DEF Served, FactsServed
<1>2. RowsPlaced(r)'
  BY DEF Served, RowsPlaced, Has
<1>3. RowsServed(r)'
  BY DEF Served, RowsServed, Has
<1> QED
  BY <1>1, <1>2, <1>3

\* The device of the row is found as the rows before have left it, and what is planned is
\* what the row says.
LEMMA UpsertSound ==
  ASSUME IInv, NEW r \in Requests, Look(r), Rows(r)[req[r].i].valid, QuietSound(r)
  PROVE  QuietSound(r)'
<1> DEFINE t == req'[r]
           row == Rows(r)[req[r].i]
<1>1. /\ Types /\ RowsInv /\ Progress(r) /\ LoadedSound(r) /\ IsReq(req[r]) /\ req[r].pc = "row"
      /\ dev' = dev /\ rules' = rules /\ Upsert(r, row) /\ req[r].op.kind # "judge"
      /\ req[r].i \in DOMAIN Rows(r)
  BY DEF IInv, Types, RowsInv, JobsInv, Look, Progress
<1>2. row \in Row /\ row.valid
  BY <1>1, RowType
<1> DEFINE O(s) == IF s \in DOMAIN req[r].base THEN req[r].base[s] ELSE View(r)[s]
           P(s, norm) == IF Find(r, row) = {} THEN Created(row, norm)
                           ELSE Updated(O(s), row, norm)
<1>3. PICK s \in IF Find(r, row) # {} THEN Find(r, row) ELSE Fresh, norm \in Normalized(r, row) :
        t = [req[r] EXCEPT !.pc = "flush", !.slot = s, !.base = Put(@, s, O(s)),
                           !.review = norm.review, !.plan = P(s, norm)]
  BY <1>1, UpsertPlan
<1>4. s \in Slots /\ norm \in Norm
  BY <1>1, <1>3, NormalizedType DEF Find, Fresh
<1> DEFINE old == O(s)
           plan == P(s, norm)
           base == Put(req[r].base, s, old)
<1>5. /\ DOMAIN base = DOMAIN req[r].base \cup {s} /\ base[s] = old
      /\ \A x \in DOMAIN req[r].base : base[x] = req[r].base[x]
  BY DEF Put
<1>6. t = [req[r] EXCEPT !.pc = "flush", !.slot = s, !.base = base, !.review = norm.review, !.plan = plan]
  BY <1>3
<1>7. old = IF s \in DOMAIN req[r].base THEN req[r].base[s] ELSE View(r)[s]
  OBVIOUS
<1>8. plan = IF Find(r, row) = {} THEN Created(row, norm) ELSE Updated(old, row, norm)
  OBVIOUS
<1> HIDE DEF row, O, P, old, plan, base
<1>9. /\ t.pc = "flush" /\ t.slot = s /\ t.base = base /\ t.plan = plan /\ t.op = req[r].op
      /\ t.todo = req[r].todo /\ t.locked = req[r].locked /\ t.added = req[r].added
      /\ t.i = req[r].i /\ t.quiet = req[r].quiet /\ t.job = req[r].job
  BY <1>1, <1>6 DEF IsReq
<1> HIDE DEF t
<1>10. \A j \in DOMAIN req[r].todo : /\ req[r].todo[j] \in DOMAIN req[r].base
                                     /\ base[req[r].todo[j]] = req[r].base[req[r].todo[j]]
                                     /\ base[req[r].todo[j]] # NoDevice
  BY <1>5 DEF QuietSound, Listed
<1>11. /\ Rows(r)' = Rows(r) /\ View(r)' = View(r) /\ Visible(r)' = Visible(r)
       /\ Upto(r)' = Upto(r)
  <2>1. Rows(r)' = Rows(r)
    BY <1>9, <1>10, RowsListed DEF t
  <2> QED
    BY <1>1, <1>9, <2>1 DEF View, Visible, Upto, t
<1>12. Listed(r)'
  BY <1>5, <1>9, <1>10 DEF Listed, t
<1>13. ASSUME Serving(r)' PROVE Served(r)'
  <2>1. Serving(r)
    BY <1>1, <1>9, <1>11, <1>13 DEF Serving, Active, Handling, t
  <2>2. Served(r)
    BY <2>1 DEF QuietSound
  <2>3. old = View(r)[s]
    BY <1>7, <2>2 DEF Served, Mirrors
  <2>4. Mirrors(r)'
    BY <1>5, <1>9, <1>11, <2>2, <2>3 DEF Served, Mirrors, t
  <2>5. FactsServed(r)' /\ RowsPlaced(r)' /\ RowsServed(r)'
    BY <1>1, <1>11, <2>2, SeenServed
  <2>6. Literal(Key(row)[2])
    BY <1>1, <2>1 DEF Serving, row
  <2>7. /\ Key(plan) = Key(row) /\ plan.raw = row.raw
        /\ old # NoDevice => Key(old) = Key(row)
        /\ plan.fact = IF row.fact # None THEN row.fact ELSE old.fact
        /\ norm.family # None => plan.family = norm.family
        /\ ~ norm.review => plan.life # "imported"
    <3>1. CASE Find(r, row) # {}
      <4>1. old # NoDevice /\ Key(old) = Key(row)
        BY <1>1, <1>2, <1>3, <2>3, <2>6, <3>1, FindKey DEF Has
      <4>2. old \in Existing
        BY <1>1, <1>4, <2>3, <4>1, ViewType
      <4>3. plan = Updated(old, row, norm)
        BY <1>8, <3>1
      <4>4. /\ plan.serial = old.serial /\ plan.place = old.place /\ plan.raw = row.raw
            /\ plan.fact = IF row.fact # None THEN row.fact ELSE old.fact
            /\ norm.family # None => plan.family = norm.family
            /\ ~ norm.review => plan.life # "imported"
        BY <1>2, <1>4, <4>2, <4>3, UpdatedFacts
      <4>5. Key(plan) = Key(old)
        BY <4>4, KeyOf
      <4> QED
        BY <4>1, <4>4, <4>5
    <3>2. CASE Find(r, row) = {}
      <4>1. s \in Fresh
        BY <1>3, <3>2
      <4>2. old = NoDevice
        BY <1>1, <1>4, <2>3, <4>1, ViewType DEF Fresh, Locks
      <4>3. /\ plan.serial = row.serial /\ plan.place = row.place /\ plan.raw = row.raw
            /\ plan.fact = row.fact
            /\ norm.family # None => plan.family = norm.family
            /\ ~ norm.review => plan.life # "imported"
        BY <1>8, <3>2, CreatedFacts
      <4>4. Key(plan) = Key(row)
        BY <4>3, KeyOf
      <4> QED
        BY <4>2, <4>3, <4>4 DEF NoDevice
    <3> QED
      BY <3>1, <3>2
  <2>8. Ruled(plan, row.raw, Visible(r))
    BY <1>1, <1>3, <2>7, OutputRuled
  <2>9. PlanServes(r)'
    <3>1. t.base[t.slot] = old
      BY <1>5, <1>9
    <3>2. Rows(r)'[t.i] = row
      BY <1>9, <1>11 DEF row
    <3> QED
      BY <1>2, <1>9, <1>11, <2>7, <2>8, <3>1, <3>2 DEF PlanServes, t
  <2> QED
    BY <2>4, <2>5, <2>9 DEF Served
<1> QED
  BY <1>12, <1>13 DEF QuietSound

\* What a flush does to the record of a request that goes through rows.
LEMMA FlushRecord ==
  ASSUME Types, NEW r \in Requests, LoadedSound(r), PlanSound(r), Flush(r)
  PROVE  LET t == req'[r]
             s == req[r].slot
         IN /\ t.base = [req[r].base EXCEPT ![s] = req[r].plan]
            /\ t.locked = Put(req[r].locked, s, Merged(r))
            /\ t.op = req[r].op /\ t.todo = req[r].todo /\ t.added = req[r].added
            /\ t.quiet = req[r].quiet /\ t.job.status = req[r].job.status
            /\ req[r].op.kind = "judge" => t.pc = "returned"
            /\ req[r].op.kind # "judge" => /\ t.pc = After(r, req[r].i).pc
                                           /\ t.i = After(r, req[r].i).i
<1> DEFINE t == req'[r]
           s == req[r].slot
           pc == After(r, req[r].i).pc
           i == After(r, req[r].i).i
           base == [req[r].base EXCEPT ![s] = req[r].plan]
           locked == Put(req[r].locked, s, Merged(r))
           w == Written(r)
           job == [req[r].job EXCEPT !.count = Counted(r, Tally(r))]
           seen == req[r].observed \cup {<<r, req[r].i, s>>}
<1>1. IsReq(req[r]) /\ req[r].job \in Job
  BY DEF Types, IsReq
<1>2. w = [req[r] EXCEPT !.locked = locked, !.base = base]
  BY <1>1 DEF Written, IsReq
<1>3. job.status = req[r].job.status
  BY <1>1 DEF Job
<1>4. CASE req[r].op.kind = "judge"
  <2>1. t = [w EXCEPT !.pc = "returned"]
    BY <1>4, FlushEffect
  <2> HIDE DEF w, base, locked, t
  <2> QED
    BY <1>1, <1>2, <1>4, <2>1 DEF IsReq, base, locked, t
<1>5. CASE req[r].op.kind \notin {"judge", "upload"}
  <2>1. t = [w EXCEPT !.pc = pc, !.i = i]
    BY <1>5, FlushEffect
  <2> HIDE DEF w, base, locked, t, pc, i
  <2> QED
    BY <1>1, <1>2, <1>5, <2>1 DEF IsReq, base, locked, t, pc, i
<1>6. CASE req[r].op.kind = "upload"
  <2>1. t = [w EXCEPT !.pc = pc, !.i = i,
               !.job = [@ EXCEPT !.count = Counted(r, Tally(r))],
               !.observed = @ \cup {<<r, req[r].i, s>>}]
    BY <1>6, FlushEffect
  <2>2. w.job = req[r].job /\ w.observed = req[r].observed
    BY <1>1, <1>2 DEF IsReq
  <2> HIDE DEF w
  <2>3. t = [w EXCEPT !.pc = pc, !.i = i, !.job = job, !.observed = seen]
    BY <1>1, <1>2, <2>1, <2>2 DEF IsReq
  <2> HIDE DEF base, locked, t, pc, i, job, seen
  <2> QED
    BY <1>1, <1>2, <1>3, <1>6, <2>3 DEF IsReq, base, locked, t, pc, i
<1> QED
  BY <1>4, <1>5, <1>6

\* A row found as the session would see it is written as it was planned.
LEMMA MergedPlan ==
  ASSUME Types, NEW r \in Requests, LoadedSound(r), PlanSound(r), req[r].pc = "flush",
         req[r].base[req[r].slot] = View(r)[req[r].slot]
  PROVE  Merged(r) = req[r].plan
<1> DEFINE p == req[r].plan
           m == Merged(r)
           v == View(r)[req[r].slot]
           b == req[r].base[req[r].slot]
<1>1. p \in Device /\ m \in Device
  BY MergedSound, NoDeviceFacts DEF PlanSound
<1>2. m = [c \in DOMAIN NoDevice |-> IF p[c] # b[c] THEN p[c] ELSE v[c]]
  BY DEF Merged
<1>3. DOMAIN NoDevice = {"serial", "place", "raw", "fact", "family", "life"}
  BY DEF NoDevice
<1>4. b = v
  OBVIOUS
<1> HIDE DEF p, m, v, b
<1>5. \A c \in DOMAIN NoDevice : m[c] = p[c]
  BY <1>2, <1>4
<1>6. m = p
  BY <1>1, <1>3, <1>5 DEF Device
<1> QED
  BY <1>6 DEF m, p

\* What is written keeps the identities of the rows that are listed.
LEMMA FlushListed ==
  ASSUME IInv, NEW r \in Requests, Flush(r), QuietSound(r)
  PROVE  /\ Listed(r)' /\ DOMAIN (Rows(r)') = DOMAIN Rows(r)
         /\ \A i \in DOMAIN Rows(r) : Key(Rows(r)'[i]) = Key(Rows(r)[i])
<1> DEFINE t == req'[r]
           s == req[r].slot
           todo == req[r].todo
<1>1. /\ Types /\ LoadedSound(r) /\ PlanSound(r) /\ Progress(r) /\ IsReq(req[r])
      /\ req[r].pc = "flush" /\ Listed(r)
  BY DEF IInv, Types, RowsInv, JobsInv, Flush, QuietSound
<1>2. /\ t.base = [req[r].base EXCEPT ![s] = req[r].plan] /\ t.op = req[r].op /\ t.todo = todo
      /\ t.pc \in {"returned", "row", "audit", "commit"}
  <2>1. req[r].i \in Nat
    BY <1>1 DEF IsReq
  <2>2. After(r, req[r].i).pc \in {"row", "audit", "commit"}
    BY <1>1, <2>1, AfterFacts
  <2>3. /\ t.base = [req[r].base EXCEPT ![s] = req[r].plan] /\ t.op = req[r].op /\ t.todo = todo
        /\ req[r].op.kind = "judge" => t.pc = "returned"
        /\ req[r].op.kind # "judge" => t.pc = After(r, req[r].i).pc
    BY <1>1, FlushRecord
  <2> QED
    BY <2>2, <2>3
<1>3. s \in DOMAIN req[r].base /\ req[r].plan \in Existing /\ req[r].plan # NoDevice
  BY <1>1, NoDeviceFacts DEF PlanSound
<1>4. \A j \in DOMAIN todo : todo[j] \in DOMAIN req[r].base /\ req[r].base[todo[j]] # NoDevice
  BY <1>1 DEF Listed
<1> HIDE DEF t, todo
<1>5. Listed(r)'
  BY <1>2, <1>3, <1>4 DEF Listed, t
<1>6. ASSUME NEW j \in DOMAIN todo
      PROVE  /\ t.base[todo[j]].serial = req[r].base[todo[j]].serial
             /\ t.base[todo[j]].place = req[r].base[todo[j]].place
  <2>1. CASE todo[j] = s
    BY <1>1, <1>2, <1>3, <1>4, <2>1 DEF PlanSound, Keeps
  <2>2. CASE todo[j] # s
    BY <1>2, <1>4, <2>2
  <2> QED
    BY <2>1, <2>2
<1>7. CASE req[r].op.kind = "upload"
  <2>1. Rows(r)' = Rows(r)
    BY <1>2, <1>7 DEF Rows, t
  <2> QED
    BY <1>5, <2>1
<1>8. CASE req[r].op.kind # "upload"
  <2> DEFINE Line(d) == [valid |-> TRUE, serial |-> d.serial, place |-> d.place, raw |-> d.raw,
                         fact |-> d.fact]
  <2>1. Rows(r) = [j \in DOMAIN todo |-> Line(req[r].base[todo[j]])]
    BY <1>8 DEF Rows, todo
  <2>2. Rows(r)' = [j \in DOMAIN todo |-> Line(t.base[todo[j]])]
    BY <1>2, <1>8 DEF Rows, todo, t
  <2>3. \A d : Line(d).serial = d.serial /\ Line(d).place = d.place
    OBVIOUS
  <2> HIDE DEF Line
  <2>4. ASSUME NEW j \in DOMAIN todo PROVE Key(Rows(r)'[j]) = Key(Rows(r)[j])
    <3>1. Rows(r)[j] = Line(req[r].base[todo[j]]) /\ Rows(r)'[j] = Line(t.base[todo[j]])
      BY <2>1, <2>2
    <3>2. Rows(r)'[j].serial = Rows(r)[j].serial /\ Rows(r)'[j].place = Rows(r)[j].place
      BY <1>6, <2>3, <3>1
    <3> QED
      BY <3>2, KeyOf
  <2> QED
    BY <1>5, <2>1, <2>2, <2>4
<1> QED
  BY <1>7, <1>8

\* What is written says what the row said: the rows that are listed stay as they are.
LEMMA FlushRows ==
  ASSUME IInv, NEW r \in Requests, Flush(r), Listed(r), Served(r), req[r].op.kind # "judge"
  PROVE  Rows(r)' = Rows(r)
<1> DEFINE t == req'[r]
           s == req[r].slot
           todo == req[r].todo
           base == req[r].base
           plan == req[r].plan
           i == req[r].i
           row == Rows(r)[i]
<1>1. /\ Types /\ RowsInv /\ LoadedSound(r) /\ PlanSound(r) /\ Progress(r) /\ IsReq(req[r])
      /\ req[r].pc = "flush" /\ i \in DOMAIN Rows(r)
  BY DEF IInv, Types, RowsInv, JobsInv, Flush, Progress
<1>2. t.base = [base EXCEPT ![s] = plan] /\ t.op = req[r].op /\ t.todo = todo
  BY <1>1, FlushRecord
<1>3. s \in DOMAIN base /\ DOMAIN base \subseteq Slots
  BY <1>1 DEF PlanSound, IsReq, IsTable
<1>4. \A j \in DOMAIN todo : /\ todo[j] \in DOMAIN base /\ base[todo[j]] # NoDevice
                             /\ base[todo[j]] = View(r)[todo[j]]
  BY DEF Listed, Served, Mirrors
<1>5. base[s] = View(r)[s]
  BY <1>3 DEF Served, Mirrors
<1>6. /\ plan.raw = row.raw
      /\ base[s] # NoDevice => Key(base[s]) = Key(row)
      /\ plan.fact = IF row.fact # None THEN row.fact ELSE base[s].fact
  BY <1>1 DEF Served, PlanServes
<1>7. base[s] # NoDevice => plan.serial = base[s].serial /\ plan.place = base[s].place
  BY <1>1 DEF PlanSound, Keeps
<1>8. CASE req[r].op.kind = "upload"
  BY <1>2, <1>8 DEF Rows
<1>9. CASE req[r].op.kind # "upload"
  <2> DEFINE Line(d) == [valid |-> TRUE, serial |-> d.serial, place |-> d.place, raw |-> d.raw,
                         fact |-> d.fact]
  <2>1. Rows(r) = [j \in DOMAIN todo |-> Line(base[todo[j]])]
    BY <1>9 DEF Rows
  <2>2. Rows(r)' = [j \in DOMAIN todo |-> Line(t.base[todo[j]])]
    BY <1>2, <1>9 DEF Rows
  <2>3. \A d, e : (d.serial = e.serial /\ d.place = e.place /\ d.raw = e.raw /\ d.fact = e.fact) =>
                    Line(d) = Line(e)
    OBVIOUS
  <2>4. \A d : /\ Line(d).serial = d.serial /\ Line(d).place = d.place
               /\ Line(d).raw = d.raw /\ Line(d).fact = d.fact
    OBVIOUS
  <2> HIDE DEF Line, t, todo, base, plan, i, row
  <2>5. ASSUME NEW j \in DOMAIN todo PROVE Line(t.base[todo[j]]) = Line(base[todo[j]])
    <3>1. CASE todo[j] # s
      BY <1>2, <1>4, <3>1
    <3>2. CASE todo[j] = s
      <4>1. base[s] # NoDevice
        BY <1>4, <3>2
      <4>2. i \in DOMAIN todo /\ row = Line(base[todo[i]])
        BY <1>1, <2>1 DEF row, i
      <4>3. Key(base[todo[i]]) = Key(row)
        BY <2>4, <4>2, KeyOf
      <4>4. todo[i] = s
        <5> SUFFICES ASSUME todo[i] # s PROVE FALSE
          OBVIOUS
        <5>1. View(r)[s] # NoDevice /\ View(r)[todo[i]] # NoDevice /\ todo[i] \in Slots /\ s \in Slots
          BY <1>3, <1>4, <1>5, <4>1, <4>2
        <5>2. Key(View(r)[todo[i]]) # Key(View(r)[s])
          BY <1>1, <5>1, ViewKeys
        <5> QED
          BY <1>4, <1>5, <1>6, <4>1, <4>2, <4>3, <5>1, <5>2
      <4>5. row.raw = base[s].raw /\ row.fact = base[s].fact
        BY <2>4, <4>2, <4>4
      <4>6. t.base[s] = plan
        BY <1>2, <1>3
      <4>7. /\ plan.serial = base[s].serial /\ plan.place = base[s].place
            /\ plan.raw = base[s].raw /\ plan.fact = base[s].fact
        BY <1>6, <1>7, <4>1, <4>5
      <4>8. Line(plan) = Line(base[s])
        BY <2>3, <4>7
      <4> QED
        BY <3>2, <4>6, <4>8
    <3> QED
      BY <3>1, <3>2
  <2> QED
    BY <2>1, <2>2, <2>5
<1> QED
  BY <1>8, <1>9

\* A row that is written serves its identity, and no other.
LEMMA FlushServed ==
  ASSUME IInv, NEW r \in Requests, Flush(r), Listed(r), Served(r), req[r].op.kind # "judge"
  PROVE  Served(r)'
<1> DEFINE t == req'[r]
           s == req[r].slot
           base == req[r].base
           plan == req[r].plan
           n == Upto(r)
           file == Rows(r)
           row == file[n + 1]
           V == View(r)
           W == View(r)'
           rs == Visible(r)
<1>1. /\ Types /\ RowsInv /\ LoadedSound(r) /\ PlanSound(r) /\ Progress(r) /\ IsReq(req[r])
      /\ req[r].pc = "flush" /\ dev' = dev /\ rules' = rules
  BY DEF IInv, Types, RowsInv, JobsInv, Flush
<1>2. s \in DOMAIN base /\ s \in Slots /\ plan \in Existing /\ plan # NoDevice
  BY <1>1, NoDeviceFacts DEF PlanSound, IsReq, IsTable
<1>3. base[s] = V[s] /\ Merged(r) = plan
  BY <1>1, <1>2, MergedPlan DEF Served, Mirrors
<1>4. /\ t.base = [base EXCEPT ![s] = plan] /\ t.locked = Put(req[r].locked, s, plan)
      /\ t.op = req[r].op /\ t.added = req[r].added
      /\ t.pc = After(r, req[r].i).pc /\ t.i = After(r, req[r].i).i
  BY <1>1, <1>3, FlushRecord
<1>5. Rows(r)' = file /\ Visible(r)' = rs
  BY <1>1, <1>4, FlushRows DEF Visible
<1>6. /\ Upto(r)' = n + 1 /\ n \in Nat /\ req[r].i = n + 1 /\ t.pc \in {"row", "audit", "commit"}
  BY <1>1, <1>4, <1>5, UptoNext
<1>7. W[s] = plan /\ \A x \in Slots \ {s} : W[x] = V[x]
  BY <1>1, <1>2, <1>4 DEF View, Put
<1>8. /\ row.valid /\ Key(plan) = Key(row) /\ plan.raw = row.raw
      /\ V[s] # NoDevice => Key(V[s]) = Key(row)
      /\ plan.fact = IF row.fact # None THEN row.fact ELSE V[s].fact
      /\ Ruled(plan, row.raw, rs)
  BY <1>1, <1>3, <1>6 DEF Served, PlanServes
<1>9. ASSUME NEW x \in Slots \ {s}, V[x] # NoDevice PROVE Key(V[x]) # Key(row)
  <2>1. ~ Duplicates(r)
    BY DEF Flush
  <2> QED
    BY <1>8, <1>9, <2>1 DEF Duplicates
<1>10. V[s] = NoDevice => dev[s] = NoDevice
  BY <1>1, <1>2, <1>3 DEF LoadedSound
<1>11. /\ \A x \in DOMAIN base : base[x] = V[x]
       /\ \A x \in Slots : V[x] # NoDevice => Leaves(file, n, Key(V[x]), dev[x].fact, V[x].fact)
       /\ \A i \in 1..n : file[i].valid => \E x \in Slots : V[x] # NoDevice /\ Key(V[x]) = Key(file[i])
       /\ \A i \in 1..n : Final(file, n, i) =>
            \E x \in Slots : /\ V[x] # NoDevice /\ Key(V[x]) = Key(file[i])
                             /\ V[x].raw = file[i].raw /\ Ruled(V[x], file[i].raw, rs)
  BY DEF Served, Mirrors, FactsServed, RowsPlaced, RowsServed, Has
<1>12. DOMAIN base \subseteq Slots
  BY <1>1 DEF IsReq, IsTable
<1> HIDE DEF t, s, base, plan, n, file, V, W, rs
<1>13. Mirrors(r)'
  <2>1. \A x \in DOMAIN base : t.base[x] = W[x]
    BY <1>2, <1>4, <1>7, <1>11, <1>12
  <2>2. DOMAIN t.base = DOMAIN base
    BY <1>4
  <2> QED
    BY <2>1, <2>2 DEF Mirrors, t, W
<1>14. FactsServed(r)'
  <2> SUFFICES ASSUME NEW x \in Slots, W[x] # NoDevice
               PROVE  Leaves(file, n + 1, Key(W[x]), dev[x].fact, W[x].fact)
    BY <1>1, <1>5, <1>6 DEF FactsServed, W
  <2>1. CASE x # s
    <3>1. Leaves(file, n, Key(V[x]), dev[x].fact, V[x].fact) /\ W[x] = V[x] /\ Key(V[x]) # Key(row)
      BY <1>7, <1>9, <1>11, <2>1
    <3> QED
      BY <1>6, <3>1, LeavesOther
  <2>2. CASE x = s
    <3>1. Leaves(file, n, Key(row), dev[s].fact, V[s].fact)
      <4>1. CASE V[s] # NoDevice
        BY <1>2, <1>8, <1>11, <4>1
      <4>2. CASE V[s] = NoDevice
        <5>1. Saying(file, n, Key(row)) = {}
          BY <1>9, <1>11, <4>2 DEF Saying
        <5> QED
          BY <1>10, <4>2, <5>1 DEF Leaves
      <4> QED
        BY <4>1, <4>2
    <3>2. Leaves(file, n + 1, Key(row), dev[s].fact,
                 IF row.fact # None THEN row.fact ELSE V[s].fact)
      BY <1>6, <1>8, <3>1, LeavesThis
    <3> QED
      BY <1>7, <1>8, <2>2, <3>2
  <2> QED
    BY <2>1, <2>2
<1>15. RowsPlaced(r)'
  <2> SUFFICES ASSUME NEW i \in 1..(n + 1), file[i].valid
               PROVE  \E x \in Slots : W[x] # NoDevice /\ Key(W[x]) = Key(file[i])
    BY <1>5, <1>6 DEF RowsPlaced, Has, W
  <2>1. CASE Key(file[i]) = Key(row)
    BY <1>2, <1>7, <1>8, <2>1
  <2>2. CASE Key(file[i]) # Key(row)
    <3>1. i \in 1..n
      BY <1>6, <2>2
    <3>2. PICK x \in Slots : V[x] # NoDevice /\ Key(V[x]) = Key(file[i])
      BY <1>11, <3>1
    <3>3. x # s
      BY <1>8, <2>2, <3>2
    <3> QED
      BY <1>7, <3>2, <3>3
  <2> QED
    BY <2>1, <2>2
<1>16. RowsServed(r)'
  <2> SUFFICES ASSUME NEW i \in 1..(n + 1), Final(file, n + 1, i)
               PROVE  \E x \in Slots : /\ W[x] # NoDevice /\ Key(W[x]) = Key(file[i])
                                       /\ W[x].raw = file[i].raw /\ Ruled(W[x], file[i].raw, rs)
    BY <1>5, <1>6 DEF RowsServed, Has, W
  <2>1. CASE i = n + 1
    BY <1>2, <1>7, <1>8, <2>1
  <2>2. CASE i # n + 1
    <3>1. i \in 1..n /\ Final(file, n, i) /\ Key(file[i]) # Key(row)
      BY <1>6, <1>8, <2>2 DEF Final
    <3>2. PICK x \in Slots : /\ V[x] # NoDevice /\ Key(V[x]) = Key(file[i])
                             /\ V[x].raw = file[i].raw /\ Ruled(V[x], file[i].raw, rs)
      BY <1>11, <3>1
    <3>3. x # s
      BY <1>8, <3>1, <3>2
    <3> QED
      BY <1>7, <3>2, <3>3
  <2> QED
    BY <2>1, <2>2
<1>17. PlanServes(r)'
  BY <1>6 DEF PlanServes, t
<1> QED
  BY <1>13, <1>14, <1>15, <1>16, <1>17 DEF Served

LEMMA FlushSound ==
  ASSUME IInv, NEW r \in Requests, Flush(r), QuietSound(r)
  PROVE  QuietSound(r)'
<1> DEFINE t == req'[r]
<1>1. Types /\ LoadedSound(r) /\ PlanSound(r) /\ req[r].pc = "flush"
  BY DEF IInv, RowsInv, Flush
<1>2. t.op = req[r].op /\ t.quiet = req[r].quiet /\ t.job.status = req[r].job.status
  BY <1>1, FlushRecord
<1>3. /\ Listed(r)' /\ DOMAIN (Rows(r)') = DOMAIN Rows(r)
      /\ \A i \in DOMAIN Rows(r) : Key(Rows(r)'[i]) = Key(Rows(r)[i])
  BY FlushListed
<1>4. ASSUME Serving(r)' PROVE Served(r)'
  <2>1. Serving(r)
    BY <1>1, <1>2, <1>3, <1>4 DEF Serving, Active, Handling
  <2> QED
    BY <2>1, FlushServed DEF QuietSound, Serving
<1> QED
  BY <1>3, <1>4 DEF QuietSound

---------------------------------------------------------------------------
(* The theorem.                                                            *)

\* The other requests, when r commits.
LEMMA CommitDisturbs ==
  ASSUME Types, NEW r \in Requests, Commit(r), NEW q \in Requests \ {r}
  PROVE  IF req[q].pc \in Active THEN req'[q] = [req[q] EXCEPT !.quiet = FALSE]
         ELSE req'[q] = req[q]
<1> DEFINE other == Disturbed(r)
<1>1. /\ DOMAIN other = Requests
      /\ other[q] = IF req[q].pc \in Active THEN [req[q] EXCEPT !.quiet = FALSE] ELSE req[q]
  BY DEF Disturbed
<1>2. req' = [other EXCEPT ![r] = Over(r, "done")]
  BY DEF Commit
<1> HIDE DEF other
<1>3. req'[q] = other[q]
  BY <1>1, <1>2
<1> QED
  BY <1>1, <1>3

\* A commit ends the quiet of the requests that it overlaps.
LEMMA DisturbedSound ==
  ASSUME Types, NEW r \in Requests, Commit(r), NEW q \in Requests \ {r}, QuietSound(q)
  PROVE  QuietSound(q)'
<1>1. IsReq(req[q])
  BY DEF Types
<1>2. /\ req'[q].pc = req[q].pc /\ req'[q].todo = req[q].todo /\ req'[q].base = req[q].base
      /\ req[q].pc \in Active => req'[q].quiet = FALSE
  BY <1>1, CommitDisturbs DEF IsReq
<1>3. Listed(q)'
  BY <1>2 DEF QuietSound, Listed
<1> QED
  BY <1>2, <1>3 DEF QuietSound, Serving

LEMMA StepSound ==
  ASSUME IInv, NEW r \in Requests, Step(r), QuietSound(r)
  PROVE  QuietSound(r)'
<1>0. Types /\ Progress(r) /\ IsReq(req[r])
  BY DEF IInv, Types, JobsInv
<1>1. ASSUME NEW pc \in Ended, End(r, pc) PROVE QuietSound(r)'
  BY <1>0, <1>1, EndEffect, OverSound DEF Pcs
<1>2. CASE Look(r)
  BY <1>2, RejectSound, UpsertSound
<1>3. CASE FlushRaises(r) \/ DeadlockVictim(r)
  BY <1>1, <1>3 DEF FlushRaises, DeadlockVictim, Ended
<1>4. CASE Emit(r) \/ AuditCommit(r) \/ Teardown(r)
  <2>1. /\ dev' = dev /\ rules' = rules
        /\ req[r].pc \in {"audit", "audit commit", "returned"}
    BY <1>4 DEF Emit, AuditCommit, Teardown
  <2>2. \/ req'[r] = [req[r] EXCEPT !.pc = "audit commit", !.emitted = day]
        \/ req'[r] = [req[r] EXCEPT !.pc = "returned"]
        \/ req'[r] = [req[r] EXCEPT !.pc = "commit"]
    BY <1>0, <1>4, EmitEffect, AuditCommitEffect, TeardownEffect
  <2>3. /\ Untouched(r, req'[r]) /\ req'[r].quiet = req[r].quiet /\ req'[r].job = req[r].job
        /\ req'[r].pc \in {"audit commit", "returned", "commit"}
    BY <1>0, <2>2 DEF IsReq, Untouched
  <2>4. Rows(r)' = Rows(r)
    BY <2>3 DEF Untouched, Rows
  <2>5. Upto(r)' = Upto(r)
    BY <2>1, <2>3, <2>4 DEF Upto
  <2>6. CASE req[r].job.status = "failed"
    <3>1. Listed(r)'
      BY <2>3 DEF QuietSound, Listed, Untouched
    <3> QED
      BY <2>3, <2>6, <3>1 DEF QuietSound, Serving
  <2>7. CASE req[r].job.status # "failed"
    BY <1>0, <2>1, <2>3, <2>5, <2>7, PassSound DEF Active, Handling
  <2> QED
    BY <2>6, <2>7
<1>5. CASE Commit(r)
  BY <1>0, <1>5, CommitEffect, OverSound DEF Ended
<1> QED
  BY <1>2, <1>3, <1>4, <1>5, InsertJobSound, LoadCatalogSound, FlushSound DEF Step

\* A step of a request that is no commit leaves the others alone.
LEMMA StepOnly ==
  ASSUME IInv, NEW r \in Requests, Step(r), ~ Commit(r)
  PROVE  Only(r)
<1>0. Types /\ Progress(r) /\ LoadedSound(r) /\ PlanSound(r)
  BY DEF IInv, JobsInv, RowsInv
<1>1. ASSUME NEW pc \in Ended, End(r, pc) PROVE Only(r)
  BY <1>0, <1>1, EndEffect DEF Pcs
<1>2. Look(r) => Only(r)
  <2> SUFFICES ASSUME Look(r) PROVE Only(r)
    OBVIOUS
  <2>1. CASE ~ Rows(r)[req[r].i].valid
    BY <1>0, <2>1, RejectEffect
  <2>2. CASE Rows(r)[req[r].i].valid
    BY <1>0, <2>2, RowType, UpsertEffect DEF Look
  <2> QED
    BY <2>1, <2>2
<1>3. FlushRaises(r) \/ DeadlockVictim(r) => Only(r)
  BY <1>1 DEF FlushRaises, DeadlockVictim, Ended
<1>4. InsertJob(r) \/ LoadCatalog(r) \/ Flush(r) => Only(r)
  BY <1>0, InsertJobEffect, LoadCatalogEffect, FlushEffect
<1>5. Emit(r) \/ AuditCommit(r) \/ Teardown(r) => Only(r)
  BY <1>0, EmitEffect, AuditCommitEffect, TeardownEffect
<1> QED
  BY <1>2, <1>3, <1>4, <1>5 DEF Step

LEMMA NextSound ==
  ASSUME IInv, QuietInv, Next
  PROVE  QuietInv'
<1>0. Types /\ \A r \in Requests : QuietSound(r)
  BY DEF IInv, QuietInv
<1>1. ASSUME NEW r \in Requests, Only(r), dev' = dev, rules' = rules, QuietSound(r)'
      PROVE  QuietInv'
  <2>1. \A q \in Requests \ {r} : QuietSound(q)'
    BY <1>0, <1>1, StillSound DEF Only
  <2> QED
    BY <1>1, <2>1 DEF QuietInv
<1>2. ASSUME NEW r \in Requests, Begin(r) PROVE QuietInv'
  <2>1. Only(r) /\ dev' = dev /\ rules' = rules
    BY <1>0, <1>2, BeginEffect DEF Begin
  <2> QED
    BY <1>1, <1>2, <2>1, BeginSound
<1>3. ASSUME NEW r \in Requests, Step(r) PROVE QuietInv'
  <2>1. QuietSound(r)'
    BY <1>0, <1>3, StepSound
  <2>2. CASE Commit(r)
    BY <1>0, <2>1, <2>2, DisturbedSound DEF QuietInv
  <2>3. CASE ~ Commit(r)
    <3>1. dev' = dev /\ rules' = rules
      BY <1>3, <2>3, StepFrame
    <3>2. Only(r)
      BY <1>3, <2>3, StepOnly
    <3> QED
      BY <1>1, <2>1, <3>1, <3>2
  <2> QED
    BY <2>2, <2>3
<1>4. ASSUME NEW p \in Processes, Crash(p) PROVE QuietInv'
  <2> SUFFICES ASSUME NEW r \in Requests PROVE QuietSound(r)'
    BY DEF QuietInv
  <2>1. /\ dev' = dev /\ rules' = rules
        /\ req'[r] = req[r] \/ req'[r] = Over(r, "crashed")
    BY <1>4 DEF Crash
  <2> QED
    BY <1>0, <2>1, StillSound, OverSound DEF Ended
<1>5. CASE Midnight \/ (\E d \in 0..LastDay : SealRead(d)) \/ SealCommit
  <2>1. req' = req /\ dev' = dev /\ rules' = rules
    BY <1>5 DEF Midnight, SealRead, SealCommit
  <2> QED
    BY <1>0, <2>1, StillSound DEF QuietInv
<1> QED
  BY <1>2, <1>3, <1>4, <1>5 DEF Next

\* Whatever a request that nobody overlapped is at, it has served every row it is through.
THEOREM QuietInvariance == Spec => []QuietInv
<1>1. Init => QuietInv
  <2> SUFFICES ASSUME Init, NEW r \in Requests PROVE QuietSound(r)
    BY DEF QuietInv
  <2>1. req[r] = Idle
    BY DEF Init
  <2>2. req[r].pc = "idle" /\ req[r].todo = <<>>
    BY <2>1 DEF Idle
  <2>3. DOMAIN req[r].todo = {} /\ req[r].pc \notin Active
    BY <2>2 DEF Active, Handling
  <2> QED
    BY <2>2, <2>3 DEF QuietSound, Listed, Serving
<1>2. IInv /\ QuietInv /\ [Next]_vars => QuietInv'
  <2> SUFFICES ASSUME IInv, QuietInv, [Next]_vars PROVE QuietInv'
    OBVIOUS
  <2>1. CASE Next
    BY <2>1, NextSound
  <2>2. CASE UNCHANGED vars
    BY <2>2, StillSound DEF QuietInv, vars
  <2> QED
    BY <2>1, <2>2
<1> QED
  BY <1>1, <1>2, Invariance, PTL DEF Spec

\* What a commit leaves that nobody overlapped.
LEMMA CommitServes ==
  ASSUME IInv, QuietInv, NEW r \in Requests, Commit(r), Serving(r),
         NEW i \in DOMAIN Rows(r), Final(Rows(r), Len(Rows(r)), i)
  PROVE  \E s \in Slots :
           /\ dev'[s] # NoDevice /\ Key(dev'[s]) = Key(Rows(r)[i])
           /\ dev'[s].raw = Rows(r)[i].raw
           /\ dev'[s].fact = LastFact(Rows(r), Key(Rows(r)[i]), dev[s].fact)
           /\ Ruled(dev'[s], Rows(r)[i].raw, rules')
<1> DEFINE file == Rows(r)
           n == Len(Rows(r))
<1>1. /\ Served(r) /\ Types /\ Progress(r) /\ req[r].pc = "commit"
      /\ dev' = View(r) /\ rules' = Visible(r)
  BY DEF QuietInv, QuietSound, IInv, JobsInv, Commit
<1>2. n \in Nat /\ DOMAIN file = 1..n
  BY <1>1, RowsFacts
<1>3. Upto(r) = n
  BY <1>1 DEF Upto
<1>4. PICK s \in Slots : /\ Has(r, s, file[i]) /\ View(r)[s].raw = file[i].raw
                         /\ Ruled(View(r)[s], file[i].raw, Visible(r))
  BY <1>1, <1>2, <1>3 DEF Served, RowsServed
<1>5. View(r)[s] # NoDevice /\ Key(View(r)[s]) = Key(file[i])
  BY <1>4 DEF Has
<1>6. Leaves(file, n, Key(file[i]), dev[s].fact, View(r)[s].fact)
  BY <1>1, <1>3, <1>5 DEF Served, FactsServed
<1> HIDE DEF file, n
<1>7. View(r)[s].fact = LastFact(file, Key(file[i]), dev[s].fact)
  BY <1>2, <1>6, LeavesLast
<1> QED
  BY <1>1, <1>4, <1>5, <1>7 DEF file

\* An upload or a renormalization that no commit overlapped leaves the last row of every
\* identity in its device, with what earlier rows and the device knew; when a rule matches,
\* one that decides has set the family, if it puts one out, and classified the device,
\* unless it asks for review.
THEOREM QuietServes == Spec => QuietIntakeServes
<1> DEFINE Serves(r) ==
      LET file == Rows(r)
      IN (Commit(r) /\ req[r].quiet /\ req[r].op.kind # "judge" /\ req[r].job.status # "failed"
            /\ \A i \in DOMAIN file : Literal(Key(file[i])[2])) =>
         \A i \in DOMAIN file :
           (file[i].valid /\ \A j \in DOMAIN file :
                               j > i => ~ file[j].valid \/ Key(file[j]) # Key(file[i])) =>
           \E s \in Slots :
             /\ dev'[s] # NoDevice /\ Key(dev'[s]) = Key(file[i])
             /\ dev'[s].raw = file[i].raw
             /\ dev'[s].fact = LastFact(file, Key(file[i]), dev[s].fact)
             /\ (\E x \in rules' : file[i].raw \in x.matches) =>
                  \E x \in rules' : /\ Decides(x, file[i].raw, rules')
                                    /\ x.family # None => dev'[s].family = x.family
                                    /\ ~ x.review => dev'[s].life # "imported"
<1>1. ASSUME IInv, QuietInv, NEW r \in Requests PROVE Serves(r)
  <2> SUFFICES ASSUME Commit(r), req[r].quiet, req[r].op.kind # "judge",
                      req[r].job.status # "failed",
                      \A i \in DOMAIN Rows(r) : Literal(Key(Rows(r)[i])[2]),
                      NEW i \in DOMAIN Rows(r), Rows(r)[i].valid,
                      \A j \in DOMAIN Rows(r) :
                        j > i => ~ Rows(r)[j].valid \/ Key(Rows(r)[j]) # Key(Rows(r)[i])
               PROVE  \E s \in Slots :
                        /\ dev'[s] # NoDevice /\ Key(dev'[s]) = Key(Rows(r)[i])
                        /\ dev'[s].raw = Rows(r)[i].raw
                        /\ dev'[s].fact = LastFact(Rows(r), Key(Rows(r)[i]), dev[s].fact)
                        /\ Ruled(dev'[s], Rows(r)[i].raw, rules')
    BY DEF Ruled
  <2>1. req[r].pc = "commit" /\ Types /\ Progress(r)
    BY <1>1 DEF Commit, IInv, JobsInv
  <2>2. Serving(r)
    BY <2>1 DEF Serving, Active
  <2>3. Final(Rows(r), Len(Rows(r)), i)
    BY <2>1, RowsFacts DEF Final
  <2> QED
    BY <1>1, <2>2, <2>3, CommitServes
<1>2. IInv /\ QuietInv /\ [Next]_vars => [\A r \in Requests : Serves(r)]_vars
  BY <1>1
<1> QED
  BY <1>2, Invariance, QuietInvariance, PTL DEF Spec, QuietIntakeServes

====================================================================================
