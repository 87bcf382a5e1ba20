--------------------------------- MODULE Intake ---------------------------------
(***************************************************************************)
(* Devices come in: CSV uploads, normalization rules and the renormalization *)
(* of the estate, next to the evaluations that write the same rows, and the  *)
(* audit log of uploads with its daily seal (src/gard/core/import_controller, *)
(* device_controller, normalization_engine, audit, worker.py, and            *)
(* api/routers/imports.py).                                                 *)
(*                                                                         *)
(* upload_csv is a coroutine that never yields once it has the file: it runs *)
(* on the event loop of its process.  Every other handler runs on a thread;  *)
(* but the session of a request is committed when the loop gets to its       *)
(* dependencies.  A row of a file is its serial number, its hostname and    *)
(* site together, its raw vendor and model together, and one optional fact.  *)
(* A normalization rule has the raw values that it matches, the platform     *)
(* family it puts out, if any, and whether its confidence asks for review.   *)
(* PostgreSQL at READ COMMITTED: rows and keys written stay locked until the *)
(* transaction ends, an UPDATE writes the columns that were changed.        *)
(***************************************************************************)
EXTENDS Integers, Sequences, FiniteSets

CONSTANTS
  Requests,    \* 1..n, in the order in which they begin
  Slots,       \* 1..m, rows of devices in the order of their creation
  Serials, Places, Raws, Facts, Families,
  Like(_, _),  \* what ILIKE makes of a pattern and a value
  RuleIds,
  NewId(_),    \* the id of a rule that a request writes
  Files,
  RowsOf(_),   \* the rows of a file
  Unreadable,  \* files that are no CSV, or lack a column
  FileRules,   \* the rules that load_catalog finds in the catalogue
  Processes,
  Starts,      \* [dev, rules, ops, procs, bound]: an initial state, what is
               \* asked for there, the process of each request, and how many
               \* requests, midnights, seals and crashes there are at most
  LastDay      \* days are 0..LastDay

VARIABLES
  dev,      \* slot -> committed device row
  rules,    \* committed normalization rules that are enabled
  jobs,     \* request -> committed import job
  observed, \* <<request, row, slot>>: committed observations
  req,      \* request -> progress and session
  audits,   \* committed audit rows
  heads,    \* day -> the audit rows its chain head was computed from
  sealer,   \* the seal in progress
  day,
  setting, spent

vars == <<dev, rules, jobs, observed, req, audits, heads, sealer, day, setting, spent>>

None == "none"
NoDevice == [serial |-> None, place |-> None, raw |-> None, fact |-> None,
             family |-> None, life |-> "absent"]
NoRows == [s \in {} |-> NoDevice]
\* The rows of a session after d is put at s.  (TLC's :> and @@ are unknown to TLAPS.)
Put(rows, s, d) == [x \in DOMAIN rows \cup {s} |-> IF x = s THEN d ELSE rows[x]]
NoSlot == 0
NoSeal == [day |-> 0 - 1, rows |-> {}]
Unsealed == {[req |-> 0, day |-> 0, on |-> 0]}

NoCount == [total |-> 0, accepted |-> 0, rejected |-> 0, review |-> 0, duplicate |-> 0,
            created |-> 0, updated |-> 0]
NoJob == [status |-> None, file |-> None, override |-> FALSE, count |-> NoCount]

NoRule == [id |-> None, tier |-> None, matches |-> {}, family |-> None, review |-> FALSE,
           priority |-> 0, specificity |-> 0, created |-> 0]
NoOp == [kind |-> None, file |-> None, override |-> FALSE, slot |-> NoSlot, rule |-> NoRule]
Idle == [pc |-> "idle", op |-> NoOp, job |-> NoJob, i |-> 1, slot |-> NoSlot,
         base |-> NoRows, plan |-> NoDevice, locked |-> NoRows, todo |-> <<>>,
         review |-> FALSE, found |-> {}, added |-> {},
         observed |-> {}, emitted |-> 0, quiet |-> TRUE]

Handling == {"job", "row", "flush", "load", "audit", "audit commit"}
Active == Handling \cup {"returned", "commit"}
Ended == {"done", "failed", "crashed"}

Device == [serial : Serials \cup {None}, place : Places \cup {None}, raw : Raws \cup {None},
           fact : Facts \cup {None}, family : Families \cup {None},
           life : {"absent", "imported", "classified", "judged"}]

\* The rows that devices can have: the raw values are NOT NULL.
Existing == {d \in Device : d.raw # None /\ d.life # "absent"}

\* The unique indexes on devices: the serial number, or else the place.
Key(d) == IF d.serial # None THEN <<"serial", d.serial>> ELSE <<"place", d.place>>

Rule == [id : RuleIds \cup {None}, tier : {"db", "file"}, matches : SUBSET Raws,
         family : Families \cup {None}, review : BOOLEAN, priority : Int, specificity : Int, created : Int]

Row == [valid : BOOLEAN, serial : Serials \cup {None}, place : Places \cup {None}, raw : Raws,
        fact : Facts \cup {None}]

Op == [kind : {"upload", "judge", "load", "rule", "renormalize"}, file : Files \cup {None},
       override : BOOLEAN, slot : Slots \cup {NoSlot}, rule : Rule \cup {NoRule}]

Kept == {"requests", "midnights", "seals", "crashes"}

\* Tables whose keys and whose rules' ids are unique, requests that name what they are about;
\* a rule that an operator adds has a family and high confidence.
IsStart(x) ==
  /\ x.dev \in [Slots -> Existing \cup {NoDevice}]
  /\ \A s, t \in Slots :
       (s # t /\ x.dev[s] # NoDevice /\ x.dev[t] # NoDevice) => Key(x.dev[s]) # Key(x.dev[t])
  /\ x.rules \subseteq Rule
  /\ \A y, z \in x.rules : (y.id = z.id) => y = z
  /\ \A op \in x.ops : /\ op \in Op
                       /\ (op.kind = "upload") => op.file \in Files
                       /\ (op.kind = "judge") => op.slot \in Slots
                       /\ (op.kind = "rule") => /\ op.rule \in Rule
                                                /\ op.rule.family # None /\ ~ op.rule.review
  /\ x.bound \in [Kept -> Nat]

ASSUME ConstantsAssumption ==
  /\ Requests \subseteq Nat /\ LastDay \in Nat
  /\ IsFiniteSet(Slots) /\ NoSlot \notin Slots
  /\ None \notin Serials \cup Places \cup Raws \cup Facts \cup Families \cup Files
  /\ \A r \in Requests : NewId(r) \in RuleIds
  /\ \A f \in Files : RowsOf(f) \in Seq(Row)
  /\ FileRules \subseteq Rule
  /\ \A x, y \in FileRules : (x.id = y.id) => x = y
  /\ \A x \in Starts : IsStart(x)

\* A column that is NULL is LIKE nothing.
ASSUME LikeAssumption == \A v \in Places \cup {None} : ~ Like(v, None)

TypeOK ==
  /\ dev \in [Slots -> Device]
  /\ \A s \in Slots : dev[s].life \in {"classified", "judged"} => dev[s].raw # None
  /\ \A s, t \in Slots :
       (s # t /\ dev[s] # NoDevice /\ dev[t] # NoDevice) => Key(dev[s]) # Key(dev[t])
  /\ \A x, y \in rules : x.id = y.id => x = y
  /\ rules \subseteq Rule
  /\ \A r \in Requests : jobs[r].status \in {None, "completed", "failed"}
  /\ observed \subseteq Requests \X Nat \X Slots
  /\ \A r \in Requests : req[r].pc \in Active \cup Ended \cup {"idle"}
                         /\ DOMAIN req[r].locked \subseteq Slots
  /\ \A a \in audits : a.req \in Requests /\ a.day <= a.on
  /\ day \in 0..LastDay
  /\ DOMAIN spent = Kept /\ \A what \in Kept : spent[what] \in 0..setting.bound[what]

Init ==
  /\ setting \in Starts
  /\ dev = setting.dev /\ rules = setting.rules
  /\ jobs = [r \in Requests |-> NoJob]
  /\ observed = {} /\ audits = {}
  /\ req = [r \in Requests |-> Idle]
  /\ heads = [d \in 0..LastDay |-> Unsealed]
  /\ sealer = NoSeal /\ day = 0
  /\ spent = [requests |-> 0, midnights |-> 0, seals |-> 0, crashes |-> 0]

Spend(what) ==
  /\ spent[what] < setting.bound[what]
  /\ spent' = [spent EXCEPT ![what] = @ + 1]

\* What a request leaves behind when it is over.
Over(r, pc) == [Idle EXCEPT !.pc = pc, !.op = req[r].op]
End(r, pc) == req' = [req EXCEPT ![r] = Over(r, pc)]

\* The others, when r commits.
Disturbed(r) ==
  [q \in Requests |-> IF q # r /\ req[q].pc \in Active THEN [req[q] EXCEPT !.quiet = FALSE]
                      ELSE req[q]]

-----------------------------------------------------------------------------
(* What a session sees and what blocks it.                                 *)

View(r) == [s \in Slots |-> IF s \in DOMAIN req[r].locked THEN req[r].locked[s] ELSE dev[s]]

Merged(r) ==
  LET s == req[r].slot
  IN [c \in DOMAIN NoDevice |-> IF req[r].plan[c] # req[r].base[s][c]
                                THEN req[r].plan[c] ELSE View(r)[s][c]]

Override(op) == op.kind = "upload" /\ op.override

\* Mutant: the unique index on the checksums of files is missing.
NeverTaken(r) == FALSE
\* A job of the same file has been committed; overrides do not count.
Taken(r) ==
  ~ Override(req[r].op) /\ \E q \in Requests :
     jobs[q].status # None /\ ~ jobs[q].override /\ jobs[q].file = req[r].op.file

\* Others that hold the key of the job, the row, or the key of the row to write.
Blockers(r) ==
  CASE req[r].pc = "job" ->
         {q \in Requests \ {r} : /\ req[q].job.status # None /\ ~ req[q].job.override
                                 /\ ~ Override(req[r].op) /\ req[q].job.file = req[r].op.file}
    [] req[r].pc = "flush" ->
         {q \in Requests \ {r} : \E s \in DOMAIN req[q].locked :
            s = req[r].slot \/ (dev[s] = NoDevice /\ Key(req[q].locked[s]) = Key(req[r].plan))}
    [] req[r].pc = "load" ->
         {q \in Requests \ {r} : \E x \in req[q].added, y \in FileRules : x.id = y.id}
    [] OTHER -> {}

\* Mutant: nothing keeps the keys of devices apart.
NoIndex(r) == FALSE
\* Its key was inserted since the look-up.
Duplicates(r) ==
  \E s \in Slots \ {req[r].slot} : View(r)[s] # NoDevice /\ Key(View(r)[s]) = Key(req[r].plan)

InProcess(p) == {r \in Requests : setting.procs[r] = p}

\* Mutant: a coroutine that waits for its own dependencies.
LoopFreeAfterwards(p) ==
  ~ \E r \in InProcess(p) : req[r].op.kind = "upload" /\ req[r].pc \in Handling \cup {"returned"}
\* No upload occupies the event loop.
LoopFree(p) == ~ \E r \in InProcess(p) : req[r].op.kind = "upload" /\ req[r].pc \in Handling

-----------------------------------------------------------------------------
(* Normalization and the upsert of a row.                                  *)

Visible(r) ==
  {x \in rules : \A y \in req[r].added : x.id # y.id} \cup req[r].added

Recognises(rule, row) == row.raw \in rule.matches

\* Overrides in the database before the files; priority, specificity of the match, age.
Outranks(x, y) ==
  LET rank(z) == <<IF z.tier = "db" THEN 1 ELSE 0, z.priority, z.specificity, z.created>>
  IN \E k \in 1..4 : /\ rank(x)[k] > rank(y)[k]
                     /\ \A j \in 1..(k - 1) : rank(x)[j] = rank(y)[j]

\* A row that no rule matches.
Unmatched == [family |-> None, review |-> TRUE]

\* What normalize may return: rules loaded at once have one created_at, and the order of
\* equals is up to the database.
Normalized(r, row) ==
  LET matching == {x \in Visible(r) : Recognises(x, row)}
  IN IF matching = {} THEN {Unmatched}
     ELSE {[family |-> x.family, review |-> x.review] :
             x \in {y \in matching : ~ \E z \in matching : Outranks(z, y)}}

\* The device rows that a look-up by the identity of a row may return.
Find(r, row) ==
  {s \in Slots : LET d == View(r)[s] IN
     /\ d # NoDevice
     /\ IF row.serial # None THEN d.serial # None /\ Like(row.serial, d.serial)
        ELSE d.serial = None /\ Like(row.place, d.place)}

\* A row number that nobody uses.
Fresh == {s \in Slots : /\ dev[s] = NoDevice
                        /\ \A q \in Requests : s # req[q].slot /\ s \notin DOMAIN req[q].locked
                        /\ \A t \in Slots : t < s =>
                             dev[t] # NoDevice \/ \E q \in Requests :
                               t = req[q].slot \/ t \in DOMAIN req[q].locked}

Created(row, norm) ==
  [serial |-> row.serial, place |-> row.place, raw |-> row.raw, fact |-> row.fact,
   family |-> norm.family, life |-> IF norm.review THEN "imported" ELSE "classified"]

\* Mutant: an absent value replaces the one that was known.
UpdatedBlank(old, row, norm) ==
  [old EXCEPT !.raw = row.raw, !.fact = row.fact,
     !.family = IF norm.family # None THEN norm.family ELSE @,
     !.life = IF ~ norm.review /\ @ = "imported" THEN "classified" ELSE @]
\* The family is set when the output has one, the state when the confidence suffices.
Updated(old, row, norm) ==
  [old EXCEPT !.raw = row.raw,
     !.fact = IF row.fact # None THEN row.fact ELSE @,
     !.family = IF norm.family # None THEN norm.family ELSE @,
     !.life = IF ~ norm.review /\ @ = "imported" THEN "classified" ELSE @]

\* Mutant: a row whose identity came before is skipped.
UpsertFirst(r, row) ==
  \E s \in IF Find(r, row) # {} THEN Find(r, row) ELSE Fresh, norm \in Normalized(r, row) :
    LET old == IF s \in DOMAIN req[r].base THEN req[r].base[s] ELSE View(r)[s]
    IN req' = [req EXCEPT ![r].pc = "flush", ![r].slot = s, ![r].base = Put(@, s, old),
                          ![r].review = norm.review,
                          ![r].plan = IF Find(r, row) = {} THEN Created(row, norm)
                                      ELSE IF s \in DOMAIN req[r].base THEN old
                                      ELSE Updated(old, row, norm)]
\* A row is normalized, and upsert_from_row runs up to its flush: an object loaded before
\* is not read again.
Upsert(r, row) ==
  LET found == Find(r, row)
  IN \E s \in IF found # {} THEN found ELSE Fresh, norm \in Normalized(r, row) :
       LET old == IF s \in DOMAIN req[r].base THEN req[r].base[s] ELSE View(r)[s]
       IN req' = [req EXCEPT ![r].pc = "flush", ![r].slot = s,
                             ![r].base = Put(@, s, old), ![r].review = norm.review,
                             ![r].plan = IF found = {} THEN Created(row, norm)
                                         ELSE Updated(old, row, norm)]

-----------------------------------------------------------------------------
(* Requests.                                                               *)

\* The devices that exist, in some order.
Estates == LET there == {s \in Slots : dev[s] # NoDevice}
           IN {q \in [1..Cardinality(there) -> there] : \A i, j \in DOMAIN q : i # j => q[i] # q[j]}

\* A request is taken up by the event loop of its process.  An upload whose
\* file has a job is refused; renormalize_estate lists all devices, and a new
\* rule need not call it.
Begin(r) ==
  /\ req[r].pc = "idle"
  /\ r = spent.requests + 1
  /\ LoopFree(setting.procs[r])
  /\ Spend("requests")
  /\ \E op \in setting.ops :
       LET taken == [Idle EXCEPT !.op = op]
       IN CASE op.kind = "upload" ->
                 req' = [req EXCEPT ![r] = [taken EXCEPT !.pc =
                   IF ~ op.override /\ \E q \in Requests :
                        jobs[q].status # None /\ ~ jobs[q].override /\ jobs[q].file = op.file
                   THEN "failed" ELSE "job"]]
            [] op.kind = "judge" ->
                 /\ dev[op.slot] # NoDevice
                 /\ req' = [req EXCEPT ![r] = [taken EXCEPT !.slot = op.slot,
                      !.pc = IF dev[op.slot].life = "judged" THEN "returned" ELSE "flush",
                      !.base = Put(NoRows, op.slot, dev[op.slot]),
                      !.plan = [dev[op.slot] EXCEPT !.life = "judged"]]]
            [] op.kind = "load" ->
                 req' = [req EXCEPT ![r] = [taken EXCEPT !.pc = "load",
                   !.found = {x \in rules : \E y \in FileRules : x.id = y.id}]]
            [] OTHER ->
                 \E estate \in Estates \cup (IF op.kind = "rule" THEN {<<>>} ELSE {}) :
                   req' = [req EXCEPT ![r] = [taken EXCEPT
                     !.pc = IF estate = <<>> THEN "commit" ELSE "row", !.todo = estate,
                     !.added = IF op.kind = "rule"
                               THEN {[op.rule EXCEPT !.id = NewId(r), !.created = r]} ELSE {},
                     !.base = [s \in {estate[i] : i \in DOMAIN estate} |-> dev[s]]]]
  /\ UNCHANGED <<dev, rules, jobs, observed, audits, heads, sealer, day, setting>>

\* load_catalog: a rule found by its id takes everything from the file but its created_at,
\* whatever tier it was of; an id inserted since the look-up is an error.
LoadCatalog(r) ==
  /\ req[r].pc = "load"
  /\ Blockers(r) = {}
  /\ LET before(x) == {y \in req[r].found : y.id = x.id}
     IN IF \E x \in FileRules : before(x) = {} /\ \E y \in rules : y.id = x.id
        THEN End(r, "failed")
        ELSE req' = [req EXCEPT ![r].pc = "commit", ![r].added =
               {[x EXCEPT !.created = IF before(x) = {} THEN r ELSE (CHOOSE y \in before(x) : TRUE).created] :
                  x \in FileRules}]
  /\ UNCHANGED <<dev, rules, jobs, observed, audits, heads, sealer, day, setting, spent>>

Rows(r) == IF req[r].op.kind = "upload" THEN RowsOf(req[r].op.file)
           ELSE [i \in DOMAIN req[r].todo |->
                   LET d == req[r].base[req[r].todo[i]]
                   IN [valid |-> TRUE, serial |-> d.serial, place |-> d.place, raw |-> d.raw,
                       fact |-> d.fact]]

\* After the i-th row: the next one, or what comes after the last.
After(r, i) ==
  IF i < Len(Rows(r)) THEN [pc |-> "row", i |-> i + 1]
  ELSE [pc |-> IF req[r].op.kind = "upload" THEN "audit" ELSE "commit", i |-> i]

\* run_sync_import up to its loop: the job is inserted, and reading the file
\* may fail, which is a result too.  A second job of the file means 409.
InsertJob(r) ==
  /\ req[r].pc = "job"
  /\ Blockers(r) = {}
  /\ LET op == req[r].op
         job(status) == [NoJob EXCEPT !.status = status, !.file = op.file, !.override = op.override]
     IN IF Taken(r) THEN End(r, "failed")
        ELSE IF op.file \in Unreadable
        THEN req' = [req EXCEPT ![r].pc = "audit", ![r].job = job("failed")]
        ELSE req' = [req EXCEPT ![r].pc = After(r, 0).pc, ![r].job = job("completed")]
  /\ UNCHANGED <<dev, rules, jobs, observed, audits, heads, sealer, day, setting, spent>>

Counted(r, kinds) ==
  [c \in DOMAIN NoCount |-> req[r].job.count[c] + (IF c \in kinds THEN 1 ELSE 0)]

\* A row that is not valid is counted, any other looked up.
Look(r) ==
  /\ req[r].pc = "row"
  /\ LET row == Rows(r)[req[r].i]
     IN IF row.valid THEN Upsert(r, row)
        ELSE req' = [req EXCEPT ![r].job.count = Counted(r, {"total", "rejected"}),
                                ![r].pc = After(r, req[r].i).pc, ![r].i = After(r, req[r].i).i]
  /\ UNCHANGED <<dev, rules, jobs, observed, audits, heads, sealer, day, setting, spent>>

\* Identity in the file is the key of the row, letter by letter.
SeenBefore(r) ==
  \E j \in 1..(req[r].i - 1) : Rows(r)[j].valid /\ Key(Rows(r)[j]) = Key(Rows(r)[req[r].i])

\* Mutant: a duplicate that needs review is counted twice.
ReviewedAnyhow(r) ==
  {"total", IF req[r].base[req[r].slot] = NoDevice THEN "created" ELSE "updated"}
  \cup (IF SeenBefore(r) THEN {"duplicate"} ELSE {})
  \cup (IF req[r].review THEN {"review"}
        ELSE IF SeenBefore(r) THEN {} ELSE {"accepted"})
\* How a row that was written counts.
Tally(r) ==
  {"total", IF req[r].base[req[r].slot] = NoDevice THEN "created" ELSE "updated",
   IF SeenBefore(r) THEN "duplicate"
   ELSE IF req[r].review THEN "review" ELSE "accepted"}

\* The row is written, once nobody else holds it, and observed.
Flush(r) ==
  /\ req[r].pc = "flush"
  /\ Blockers(r) = {}
  /\ ~ Duplicates(r)
  /\ LET s    == req[r].slot
         kind == req[r].op.kind
         held == [req EXCEPT ![r].locked = Put(@, s, Merged(r)), ![r].base[s] = req[r].plan]
     IN req' = IF kind = "judge" THEN [held EXCEPT ![r].pc = "returned"]
               ELSE LET next == [held EXCEPT ![r].pc = After(r, req[r].i).pc,
                                             ![r].i = After(r, req[r].i).i]
                    IN IF kind # "upload" THEN next
                       ELSE [next EXCEPT ![r].job.count = Counted(r, Tally(r)),
                                         ![r].observed = @ \cup {<<r, req[r].i, s>>}]
  /\ UNCHANGED <<dev, rules, jobs, observed, audits, heads, sealer, day, setting, spent>>

\* Another session has inserted the key: 500.
FlushRaises(r) ==
  /\ req[r].pc = "flush"
  /\ Blockers(r) = {}
  /\ Duplicates(r)
  /\ End(r, "failed")
  /\ UNCHANGED <<dev, rules, jobs, observed, audits, heads, sealer, day, setting, spent>>

\* Two sessions wait for each other, and the database ends one of them.
DeadlockVictim(r) ==
  /\ \E q \in Blockers(r) : r \in Blockers(q)
  /\ End(r, "failed")
  /\ UNCHANGED <<dev, rules, jobs, observed, audits, heads, sealer, day, setting, spent>>

\* audit.emit takes the time; its row is committed by the next step, the last
\* of the handler.
Emit(r) ==
  /\ req[r].pc = "audit"
  /\ req' = [req EXCEPT ![r].pc = "audit commit", ![r].emitted = day]
  /\ UNCHANGED <<dev, rules, jobs, observed, audits, heads, sealer, day, setting, spent>>

AuditCommit(r) ==
  /\ req[r].pc = "audit commit"
  /\ audits' = audits \cup {[req |-> r, day |-> req[r].emitted, on |-> day]}
  /\ req' = [req EXCEPT ![r].pc = "returned"]
  /\ UNCHANGED <<dev, rules, jobs, observed, heads, sealer, day, setting, spent>>

\* The event loop ends the dependencies of a request whose handler returned.
Teardown(r) ==
  /\ req[r].pc = "returned"
  /\ LoopFree(setting.procs[r])
  /\ req' = [req EXCEPT ![r].pc = "commit"]
  /\ UNCHANGED <<dev, rules, jobs, observed, audits, heads, sealer, day, setting, spent>>

\* session.commit(), on a thread.
Commit(r) ==
  /\ req[r].pc = "commit"
  /\ dev' = View(r)
  /\ rules' = Visible(r)
  /\ jobs' = [jobs EXCEPT ![r] = req[r].job]
  /\ observed' = observed \cup req[r].observed
  /\ req' = [Disturbed(r) EXCEPT ![r] = Over(r, "done")]
  /\ UNCHANGED <<audits, heads, sealer, day, setting, spent>>

\* A process dies, with all that it was doing.
Crash(p) ==
  /\ \E r \in InProcess(p) : req[r].pc \in Active
  /\ Spend("crashes")
  /\ req' = [r \in Requests |-> IF r \in InProcess(p) /\ req[r].pc \in Active
                                THEN Over(r, "crashed") ELSE req[r]]
  /\ UNCHANGED <<dev, rules, jobs, observed, audits, heads, sealer, day, setting>>

-----------------------------------------------------------------------------
(* The worker that seals the audit log of a day.                            *)

Midnight ==
  /\ day < LastDay
  /\ Spend("midnights")
  /\ day' = day + 1
  /\ UNCHANGED <<dev, rules, jobs, observed, req, audits, heads, sealer, setting>>

\* Mutant: the current day can be sealed.
RefusesFuture(d) == d > day
\* seal_day refuses the current day.
Refuses(d) == d >= day

\* The rows of the day are read and chained.
SealRead(d) ==
  /\ sealer = NoSeal
  /\ ~ Refuses(d)
  /\ Spend("seals")
  /\ sealer' = [day |-> d, rows |-> {a \in audits : a.day = d}]
  /\ UNCHANGED <<dev, rules, jobs, observed, req, audits, heads, day, setting>>

\* The head is written, over the one of an earlier seal.
SealCommit ==
  /\ sealer # NoSeal
  /\ heads' = [heads EXCEPT ![sealer.day] = sealer.rows]
  /\ sealer' = NoSeal
  /\ UNCHANGED <<dev, rules, jobs, observed, req, audits, day, setting, spent>>

Step(r) ==
  \/ InsertJob(r) \/ LoadCatalog(r) \/ Look(r) \/ Flush(r) \/ FlushRaises(r) \/ DeadlockVictim(r)
  \/ Emit(r) \/ AuditCommit(r) \/ Teardown(r) \/ Commit(r)

Next ==
  \/ \E r \in Requests : Begin(r) \/ Step(r)
  \/ \E p \in Processes : Crash(p)
  \/ Midnight \/ (\E d \in 0..LastDay : SealRead(d)) \/ SealCommit

\* A process runs the requests it has taken up; nothing makes one arrive.
Spec == Init /\ [][Next]_vars /\ WF_vars(\E r \in Requests : Step(r))

-----------------------------------------------------------------------------
(* Properties.                                                             *)

\* The counters of a job account for every row once, for every observation
\* once, and for every identity in the file once, whichever sessions it raced.
CountersAddUp ==
  \A r \in Requests : jobs[r].status = "completed" =>
    LET count == jobs[r].count
        file  == RowsOf(jobs[r].file)
        valid == {i \in DOMAIN file : file[i].valid}
    IN /\ count.total = Len(file)
       /\ count.total = count.accepted + count.rejected + count.review + count.duplicate
       /\ count.created + count.updated = Cardinality({o \in observed : o[1] = r})
       /\ Cardinality(valid) = Cardinality({o \in observed : o[1] = r})
       /\ count.accepted + count.review = Cardinality({Key(file[i]) : i \in valid})

\* A file has one job that is no override, although the look-up for one is
\* made before the insert; every job was audited, and what was audited is
\* committed or about to be, unless the process died between the two commits.
OneAuditedJobPerFile ==
  /\ \A r, q \in Requests :
       (/\ r # q /\ jobs[r].status # None /\ jobs[q].status # None
        /\ ~ jobs[r].override /\ ~ jobs[q].override) => jobs[r].file # jobs[q].file
  /\ \A r \in Requests : jobs[r].status # None => \E a \in audits : a.req = r
  /\ \A a \in audits : jobs[a.req].status # None
                       \/ req[a.req].pc \in {"returned", "commit", "crashed"}

\* No commit forgets a fact that was known, takes a device's identity or
\* sends it back to "imported".
KnownFactsKept ==
  [][\A s \in Slots : dev[s] # NoDevice =>
       /\ Key(dev'[s]) = Key(dev[s])
       /\ dev[s].fact # None => dev'[s].fact # None
       /\ dev[s].family # None => dev'[s].family # None
       /\ dev'[s].life = "imported" => dev[s].life = "imported"]_dev

Literal(v) == \A w \in Serials \cup Places : Like(v, w) => v = w

\* The facts of a request's rows for an identity, the last one that is known.
LastFact(file, key, old) ==
  LET said == {i \in DOMAIN file : file[i].valid /\ Key(file[i]) = key /\ file[i].fact # None}
  IN IF said = {} THEN old ELSE file[CHOOSE i \in said : \A j \in said : j <= i].fact

\* A rule that an operator would expect to decide on a raw value: an override if there is
\* one that matches, of the highest priority in its tier, and the more specific of two.
Decides(x, raw, among) ==
  /\ x \in among /\ raw \in x.matches
  /\ \A y \in among : raw \in y.matches =>
       /\ y.tier = "db" => x.tier = "db"
       /\ y.tier = x.tier => y.priority <= x.priority
       /\ (y.tier = x.tier /\ y.priority = x.priority) => y.specificity <= x.specificity

\* An upload that no commit overlapped leaves the last row of every identity
\* in its device, with what earlier rows and the device knew; when a rule
\* matches, one that decides has set the family, if it puts one out, and
\* classified the device, unless it asks for review.
\* A renormalization does the same with the devices themselves.  (Identities
\* without ILIKE wildcards.)
QuietIntakeServes ==
  [][\A r \in Requests :
       LET file == Rows(r)
       IN (Commit(r) /\ req[r].quiet /\ req[r].op.kind # "judge" /\ req[r].job.status # "failed"
             /\ \A i \in DOMAIN file : Literal(Key(file[i])[2])) =>
          \A i \in DOMAIN file :
            (file[i].valid /\ \A j \in DOMAIN file :
                                j > i => ~ file[j].valid \/ Key(file[j]) # Key(file[i])) =>
            \E s \in Slots :
              /\ dev'[s] # NoDevice /\ Key(dev'[s]) = Key(file[i])
              /\ dev'[s].raw = file[i].raw
              /\ dev'[s].fact = LastFact(file, Key(file[i]), dev[s].fact)
              /\ (\E x \in rules' : file[i].raw \in x.matches) =>
                   \E x \in rules' : /\ Decides(x, file[i].raw, rules')
                                     /\ x.family # None => dev'[s].family = x.family
                                     /\ ~ x.review => dev'[s].life # "imported"]_vars

\* The head of a sealed day covers every row of that day that was committed
\* on that day, at whatever time it was sealed or sealed again.
SealedDayComplete ==
  \A d \in DOMAIN heads : heads[d] # Unsealed =>
    {a \in audits : a.day = d /\ a.on = d} \subseteq heads[d]

AllEnded == \A r \in Requests : req[r].pc \in Ended \cup {"idle"}

\* An upload is the only request of its process.
Apart ==
  \A r, q \in Requests :
    (r # q /\ setting.procs[r] = setting.procs[q] /\ req[r].op.kind = "upload") =>
      ~ (req[r].pc \in Active /\ req[q].pc \in Active)

\* Requests that meet in the database only all end.
RequestsApartEnd == []Apart => []<>AllEnded

\* "Two concurrent uploads of the same file body raced past
\* find_existing_job()", and the loser is converted "to a deterministic 409"
\* (src/gard/api/routers/imports.py:70): both are answered.
RacingUploadsEnd == []<>AllEnded

=============================================================================
