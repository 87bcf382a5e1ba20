------------------------------- MODULE Intake_proofs -------------------------------
(***************************************************************************)
(* Proofs about Intake, for every set of requests, rows, rules and files and *)
(* every start that ConstantsAssumption allows.  Three arguments meet here:  *)
(* the rows and keys a session holds keep the others away from what it read; *)
(* the counters of a job follow the rows of its file one by one; and the     *)
(* audit rows of a day are all there before the day can be sealed.          *)
(***************************************************************************)
EXTENDS Intake, FiniteSetTheorems, TLAPS

---------------------------------------------------------------------------
(* The inductive invariant: shapes.                                        *)

Pcs == Active \cup Ended \cup {"idle"}

Count == [total : Nat, accepted : Nat, rejected : Nat, review : Nat, duplicate : Nat,
          created : Nat, updated : Nat]

Job == [status : {None, "completed", "failed"}, file : Files \cup {None}, override : BOOLEAN,
        count : Count]

\* Some rows of devices, as a session knows or has written them.
IsTable(f) == DOMAIN f \subseteq Slots /\ f \in [DOMAIN f -> Existing \cup {NoDevice}]

IsReq(q) ==
  /\ q \in [pc : Pcs, op : Op \cup {NoOp}, job : Job, i : Nat, slot : Slots \cup {NoSlot},
            base : {q.base}, plan : Device, locked : {q.locked}, todo : Seq(Slots),
            review : BOOLEAN, found : SUBSET Rule, added : SUBSET Rule,
            observed : SUBSET (Requests \X Nat \X Slots), emitted : 0..LastDay, quiet : BOOLEAN]
  /\ IsTable(q.base) /\ IsTable(q.locked)

Types ==
  /\ setting \in Starts
  /\ spent \in [Kept -> Nat] /\ \A what \in Kept : spent[what] \in 0..setting.bound[what]
  /\ dev \in [Slots -> Existing \cup {NoDevice}]
  /\ rules \subseteq Rule /\ \A x, y \in rules : x.id = y.id => x = y
  /\ jobs \in [Requests -> Job]
  /\ observed \subseteq Requests \X Nat \X Slots
  /\ DOMAIN req = Requests /\ \A r \in Requests : IsReq(req[r])
  /\ day \in 0..LastDay
  /\ \A a \in audits : a.req \in Requests /\ a.day \in Int /\ a.on \in Int /\ a.day <= a.on

---------------------------------------------------------------------------
(* Rows and keys.                                                          *)

Locks(r) == DOMAIN req[r].locked

\* r is about to insert a device at s.
Creates(r, s) == req[r].pc = "flush" /\ req[r].slot = s /\ req[r].base[s] = NoDevice

\* What no write of a row e over a row d may undo.
Keeps(d, e) ==
  /\ e.serial = d.serial /\ e.place = d.place
  /\ d.fact # None => e.fact # None
  /\ d.family # None => e.family # None
  /\ e.life = "imported" => d.life = "imported"

\* The rows r has loaded are still there, under the same identity; a row it
\* is about to insert is not.
LoadedSound(r) ==
  \A s \in DOMAIN req[r].base :
    IF req[r].base[s] = NoDevice
    THEN Creates(r, s) /\ dev[s] = NoDevice /\ s \notin Locks(r)
    ELSE /\ View(r)[s] # NoDevice
         /\ View(r)[s].serial = req[r].base[s].serial /\ View(r)[s].place = req[r].base[s].place

\* What r is about to write keeps what it has loaded.
PlanSound(r) ==
  req[r].pc = "flush" =>
    /\ req[r].slot \in DOMAIN req[r].base
    /\ req[r].plan \in Existing
    /\ req[r].base[req[r].slot] # NoDevice => Keeps(req[r].base[req[r].slot], req[r].plan)

\* What r has written keeps what is committed.
WrittenSound(r) ==
  \A s \in Locks(r) : /\ req[r].locked[s] # NoDevice
                      /\ dev[s] # NoDevice => Keeps(dev[s], req[r].locked[s])

\* A row is written by one session, a new one planned by one.
LocksApart ==
  \A r, q \in Requests : r # q =>
    /\ Locks(r) \cap Locks(q) = {}
    /\ \A s \in Slots : Creates(r, s) => s \notin Locks(q) /\ ~ Creates(q, s)

\* No two rows, committed or not, have the same key.
KeysApart ==
  /\ \A s, t \in Slots :
       (s # t /\ dev[s] # NoDevice /\ dev[t] # NoDevice) => Key(dev[s]) # Key(dev[t])
  /\ \A r \in Requests : \A s \in Locks(r), t \in Slots :
       (s # t /\ dev[t] # NoDevice) => Key(req[r].locked[s]) # Key(dev[t])
  /\ \A r, q \in Requests : \A s \in Locks(r), t \in Locks(q) :
       s # t => Key(req[r].locked[s]) # Key(req[q].locked[t])

RowsInv ==
  /\ \A r \in Requests : LoadedSound(r) /\ PlanSound(r) /\ WrittenSound(r)
  /\ LocksApart
  /\ KeysApart

---------------------------------------------------------------------------
(* Requests, step by step.                                                 *)

\* Nothing is left of a session before a request begins and after it ends.
Gone(r) == /\ req[r].job = NoJob /\ req[r].slot = NoSlot
           /\ req[r].base = NoRows /\ req[r].locked = NoRows
           /\ req[r].observed = {}

Progress(r) ==
  /\ req[r].pc \notin Active => Gone(r)
  /\ req[r].pc = "idle" => req[r].op = NoOp
  /\ req[r].pc # "idle" => /\ req[r].op \in Op
                           /\ req[r].op.kind = "upload" => req[r].op.file \in Files
                           /\ req[r].op.kind = "judge" => req[r].op.slot \in Slots
  /\ req[r].pc = "load" => req[r].op.kind = "load"
  /\ req[r].pc = "row" => req[r].op.kind \in {"upload", "rule", "renormalize"}
  /\ req[r].pc = "flush" => req[r].op.kind # "load"
  /\ req[r].pc \in {"job", "audit", "audit commit"} => req[r].op.kind = "upload"
  /\ (req[r].op.kind = "upload" /\ req[r].pc \in Active \ {"job"}) =>
       /\ req[r].job.status # None
       /\ req[r].job.file = req[r].op.file /\ req[r].job.override = req[r].op.override
  /\ (req[r].op.kind # "upload" \/ req[r].pc = "job") => req[r].job = NoJob /\ req[r].observed = {}
  /\ \A j \in DOMAIN req[r].todo : req[r].todo[j] \in DOMAIN req[r].base
  /\ (req[r].pc \in {"row", "flush"} /\ req[r].op.kind # "judge") => req[r].i \in DOMAIN Rows(r)
  /\ (req[r].pc = "flush" /\ req[r].op.kind = "upload") => Rows(r)[req[r].i].valid
  /\ req[r].pc = "job" => req[r].i = 1
  /\ req[r].emitted <= day
  /\ \A x, y \in req[r].added : x.id = y.id => x = y

\* r has, or is about to have, the job of this file.
Claims(r, f) == \/ jobs[r].status # None /\ ~ jobs[r].override /\ jobs[r].file = f
                \/ req[r].job.status # None /\ ~ req[r].job.override /\ req[r].job.file = f

FilesApart == \A r, q \in Requests : \A f \in Files \cup {None} :
                r # q => ~ (Claims(r, f) /\ Claims(q, f))

Audited(r) == \E a \in audits : a.req = r

\* A job that is committed, or about to be, has been audited.
AuditOf(r) ==
  /\ jobs[r].status # None => req[r].pc = "done" /\ Audited(r)
  /\ (req[r].op.kind = "upload" /\ req[r].pc \in {"returned", "commit"}) => Audited(r)
  /\ Audited(r) => /\ req[r].op.kind = "upload"
                   /\ jobs[r].status # None \/ req[r].pc \in {"returned", "commit", "crashed"}

JobsInv == FilesApart /\ \A r \in Requests : AuditOf(r) /\ Progress(r)

---------------------------------------------------------------------------
(* Counting.                                                               *)

\* The rows of a file up to the n-th, those of them that are valid, and how a job counts
\* when it has been through them.
ValidUpTo(file, n) == {j \in 1..n : file[j].valid}

CountsUpTo(count, rows, file, n) ==
  /\ count.total = n
  /\ count.total = count.accepted + count.rejected + count.review + count.duplicate
  /\ IsFiniteSet(rows) /\ count.created + count.updated = Cardinality(rows)
  /\ \A o \in rows : o[2] \in 1..n
  /\ IsFiniteSet(ValidUpTo(file, n)) /\ Cardinality(ValidUpTo(file, n)) = Cardinality(rows)
  /\ LET keys == {Key(file[j]) : j \in ValidUpTo(file, n)}
     IN IsFiniteSet(keys) /\ count.accepted + count.review = Cardinality(keys)

\* How many rows of its file an upload is through.
Through(r) == IF req[r].pc \in {"row", "flush"} THEN req[r].i - 1
              ELSE Len(RowsOf(req[r].op.file))

\* The counts of the job in the making and of the committed one.
CountOf(r) ==
  /\ req[r].job.status = "completed" =>
       CountsUpTo(req[r].job.count, req[r].observed, RowsOf(req[r].op.file), Through(r))
  /\ jobs[r].status = "completed" =>
       /\ jobs[r].file \in Files
       /\ CountsUpTo(jobs[r].count, {o \in observed : o[1] = r}, RowsOf(jobs[r].file),
                     Len(RowsOf(jobs[r].file)))
  /\ \A o \in req[r].observed : o[1] = r
  /\ jobs[r].status = None => \A o \in observed : o[1] # r

CountsInv == \A r \in Requests : CountOf(r)

---------------------------------------------------------------------------
(* Sealing.                                                                *)

Sealing(d, rows) == d < day /\ {a \in audits : a.day = d /\ a.on = d} \subseteq rows

SealInv ==
  /\ sealer # NoSeal => sealer.day \in 0..LastDay /\ Sealing(sealer.day, sealer.rows)
  /\ DOMAIN heads = 0..LastDay
  /\ \A d \in 0..LastDay : heads[d] # Unsealed => Sealing(d, heads[d])

IInv == Types /\ RowsInv /\ JobsInv /\ CountsInv /\ SealInv
---------------------------------------------------------------------------
(* Rows.                                                                   *)

LEMMA NoDeviceFacts ==
  NoDevice \in Device /\ NoDevice \notin Existing /\ Existing \subseteq Device
  BY DEF NoDevice, Device, Existing

\* What Put returns.
LEMMA PutTable ==
  ASSUME NEW f, IsTable(f), NEW s \in Slots, NEW d \in Existing \cup {NoDevice}
  PROVE  /\ IsTable(Put(f, s, d))
         /\ DOMAIN Put(f, s, d) = DOMAIN f \cup {s}
         /\ Put(f, s, d)[s] = d
         /\ \A x \in DOMAIN f \ {s} : Put(f, s, d)[x] = f[x]
  BY DEF IsTable, Put

LEMMA NoRowsTable == IsTable(NoRows) /\ DOMAIN NoRows = {}
  BY DEF IsTable, NoRows

\* A session sees its own rows and the committed ones.
LEMMA ViewType ==
  ASSUME Types, NEW r \in Requests
  PROVE  /\ View(r) \in [Slots -> Existing \cup {NoDevice}]
         /\ \A s \in Locks(r) : s \in Slots /\ View(r)[s] = req[r].locked[s]
         /\ \A s \in Slots \ Locks(r) : View(r)[s] = dev[s]
  BY DEF Types, IsReq, IsTable, View, Locks

\* A key is decided by the serial number and the place.
LEMMA KeyOf ==
  ASSUME NEW d, NEW e, d.serial = e.serial, d.place = e.place
  PROVE  Key(d) = Key(e)
  BY DEF Key

LEMMA KeepsTransitive ==
  ASSUME NEW c, NEW d, NEW e, Keeps(c, d), Keeps(d, e)
  PROVE  Keeps(c, e)
  BY DEF Keeps

\* What an UPDATE of the changed columns leaves: a row that keeps what the row under it
\* says, or the planned row when there was none.
LEMMA MergedSound ==
  ASSUME Types, NEW r \in Requests, LoadedSound(r), PlanSound(r), req[r].pc = "flush"
  PROVE  /\ Merged(r) \in Existing
         /\ req[r].base[req[r].slot] # NoDevice =>
              View(r)[req[r].slot] # NoDevice /\ Keeps(View(r)[req[r].slot], Merged(r))
         /\ req[r].base[req[r].slot] = NoDevice => Merged(r) = req[r].plan
<1> DEFINE s == req[r].slot
           b == req[r].base[s]
           p == req[r].plan
           v == View(r)[s]
           m == Merged(r)
<1>1. s \in DOMAIN req[r].base /\ s \in Slots /\ p \in Existing
  BY DEF PlanSound, Types, IsReq, IsTable
<1>2. v \in Existing \cup {NoDevice} /\ b \in Existing \cup {NoDevice}
  BY <1>1, ViewType, SMTT(30) DEF Types, IsReq, IsTable
<1>3. m = [c \in DOMAIN NoDevice |-> IF p[c] # b[c] THEN p[c] ELSE v[c]]
  BY DEF Merged
<1>4. DOMAIN NoDevice = {"serial", "place", "raw", "fact", "family", "life"}
  BY DEF NoDevice
<1> HIDE DEF s, b, p, v, m
<1>5. CASE b = NoDevice
  <2>1. v = NoDevice
    BY <1>1, <1>5, ViewType DEF LoadedSound, s, b, v
  <2>2. m = p
    BY <1>1, <1>3, <1>4, <1>5, <2>1 DEF Existing, Device
  <2> QED
    BY <1>1, <1>5, <2>2 DEF s, b, p, v, m
<1>6. CASE b # NoDevice
  <2>1. v # NoDevice /\ v \in Existing
    BY <1>1, <1>2, <1>6 DEF LoadedSound, s, b, v
  <2>2. Keeps(b, p)
    BY <1>6 DEF PlanSound, s, b, p
  <2>3. b \in Existing /\ v.serial = b.serial /\ v.place = b.place
    BY <1>1, <1>2, <1>6 DEF LoadedSound, s, b, v
  <2>4. m \in Existing
    BY <1>1, <1>3, <1>4, <2>1 DEF Existing, Device
  <2>5. Keeps(v, m)
    BY <1>1, <1>3, <1>4, <2>1, <2>2, <2>3 DEF Existing, Device, Keeps
  <2> QED
    BY <1>6, <2>1, <2>4, <2>5 DEF s, b, v, m
<1> QED
  BY <1>5, <1>6
\* What a step leaves of a session's rows: everything, or nothing.
Undisturbed(q) ==
  /\ req'[q].base = req[q].base /\ req'[q].locked = req[q].locked
  /\ req'[q].pc = "flush" <=> req[q].pc = "flush"
  /\ req'[q].pc = "flush" => req'[q].slot = req[q].slot /\ req'[q].plan = req[q].plan
Cleared(q) == req'[q].base = NoRows /\ req'[q].locked = NoRows /\ req'[q].pc # "flush"

\* Steps that write no row, and steps that end sessions, keep RowsInv.
LEMMA RowsShrink ==
  ASSUME RowsInv, dev' = dev, \A q \in Requests : Undisturbed(q) \/ Cleared(q)
  PROVE  RowsInv'
<1>1. \A q \in Requests : \A s \in Locks(q)' : s \in Locks(q) /\ req'[q].locked[s] = req[q].locked[s]
  BY NoRowsTable DEF Undisturbed, Cleared, Locks
<1>2. \A q \in Requests, s \in Slots : Creates(q, s)' => Creates(q, s)
  BY DEF Undisturbed, Cleared, Creates
<1>3. ASSUME NEW q \in Requests PROVE LoadedSound(q)' /\ PlanSound(q)' /\ WrittenSound(q)'
  <2>0. LoadedSound(q) /\ PlanSound(q) /\ WrittenSound(q)
    BY DEF RowsInv
  <2>1. CASE Undisturbed(q)
    <3>1. View(q)' = View(q) /\ Locks(q)' = Locks(q)
      BY <2>1 DEF Undisturbed, View, Locks
    <3>2. ASSUME NEW s PROVE Creates(q, s)' <=> Creates(q, s)
      BY <2>1 DEF Undisturbed, Creates
    <3>3. LoadedSound(q)'
      BY <2>0, <2>1, <3>1, <3>2 DEF Undisturbed, LoadedSound
    <3>4. PlanSound(q)' /\ WrittenSound(q)'
      BY <2>0, <2>1, <3>1 DEF Undisturbed, PlanSound, WrittenSound
    <3> QED
      BY <3>3, <3>4
  <2>2. CASE Cleared(q)
    BY <2>2, NoRowsTable DEF Cleared, LoadedSound, PlanSound, WrittenSound, Locks
  <2> QED
    BY <2>1, <2>2
<1>4. LocksApart'
  BY <1>1, <1>2 DEF RowsInv, LocksApart
<1>5. KeysApart'
  BY <1>1 DEF RowsInv, KeysApart
<1> QED
  BY <1>3, <1>4, <1>5 DEF RowsInv

\* A step that loads rows and plans a write keeps RowsInv when what it loads and plans is
\* sound and nobody else has the row it is about to insert.
LEMMA RowsLoad ==
  ASSUME RowsInv, dev' = dev, NEW r \in Requests,
         \A q \in Requests \ {r} : Undisturbed(q),
         req'[r].locked = req[r].locked,
         LoadedSound(r)', PlanSound(r)',
         \A s \in Slots : Creates(r, s)' =>
           \A q \in Requests \ {r} : s \notin Locks(q) /\ ~ Creates(q, s)
  PROVE  RowsInv'
<1>1. \A q \in Requests : Locks(q)' = Locks(q) /\ req'[q].locked = req[q].locked
  BY DEF Undisturbed, Locks
<1>2. \A q \in Requests \ {r} : View(q)' = View(q) /\ \A s : Creates(q, s)' <=> Creates(q, s)
  BY DEF Undisturbed, View, Creates
<1>3. ASSUME NEW q \in Requests PROVE LoadedSound(q)' /\ PlanSound(q)' /\ WrittenSound(q)'
  <2>0. LoadedSound(q) /\ PlanSound(q) /\ WrittenSound(q)
    BY DEF RowsInv
  <2>1. WrittenSound(q)'
    BY <1>1, <2>0 DEF WrittenSound
  <2>2. CASE q # r
    BY <1>1, <1>2, <2>0, <2>1, <2>2 DEF Undisturbed, LoadedSound, PlanSound
  <2> QED
    BY <2>1, <2>2
<1>4. LocksApart'
  BY <1>1, <1>2 DEF RowsInv, LocksApart
<1>5. KeysApart'
  BY <1>1 DEF RowsInv, KeysApart
<1> QED
  BY <1>3, <1>4, <1>5 DEF RowsInv
\* A flush keeps RowsInv: an existing row keeps its key, and the key of a new one is no
\* committed row's (the unique index) and no other session's (its locks).
LEMMA RowsWrite ==
  ASSUME Types, RowsInv, NEW r \in Requests, req[r].pc = "flush",
         Blockers(r) = {}, ~ Duplicates(r), dev' = dev,
         \A q \in Requests \ {r} : req'[q] = req[q],
         req'[r].locked = Put(req[r].locked, req[r].slot, Merged(r)),
         req'[r].base = [req[r].base EXCEPT ![req[r].slot] = req[r].plan],
         req'[r].pc # "flush"
  PROVE  RowsInv'
<1> DEFINE s == req[r].slot
           m == Merged(r)
           p == req[r].plan
           b == req[r].base[s]
<1>0. /\ s \in DOMAIN req[r].base /\ s \in Slots /\ p \in Existing /\ m \in Existing
      /\ IsTable(req[r].locked) /\ IsTable(req[r].base)
  BY MergedSound DEF RowsInv, PlanSound, Types, IsReq, IsTable
<1>1. /\ b # NoDevice => View(r)[s] # NoDevice /\ Keeps(View(r)[s], m) /\ Keeps(b, p)
      /\ b = NoDevice => m = p /\ dev[s] = NoDevice /\ s \notin Locks(r)
                         /\ \A q \in Requests \ {r} : s \notin Locks(q)
  BY <1>0, MergedSound DEF RowsInv, LoadedSound, PlanSound, LocksApart, Creates
<1>2. \A q \in Requests \ {r} : s \notin Locks(q) /\ Locks(q) \subseteq Slots
  BY <1>0 DEF Blockers, Locks, Types, IsReq, IsTable
<1>3. /\ Locks(r)' = Locks(r) \cup {s} /\ req'[r].locked[s] = m
      /\ \A x \in Locks(r) \ {s} : req'[r].locked[x] = req[r].locked[x]
  <2> DEFINE f == req[r].locked
  <2>1. IsTable(f) /\ s \in Slots /\ m \in Existing \cup {NoDevice} /\ req'[r].locked = Put(f, s, m)
    BY <1>0
  <2> HIDE DEF f, s, m
  <2>2. /\ DOMAIN Put(f, s, m) = DOMAIN f \cup {s} /\ Put(f, s, m)[s] = m
        /\ \A x \in DOMAIN f \ {s} : Put(f, s, m)[x] = f[x]
    BY <2>1 DEF Put
  <2> QED
    BY <2>1, <2>2 DEF Locks, f
<1>4. \A q \in Requests \ {r} : /\ Locks(q)' = Locks(q) /\ View(q)' = View(q)
                               /\ \A x : Creates(q, x)' <=> Creates(q, x)
  BY DEF Locks, View, Creates
<1>5. m # NoDevice /\ p # NoDevice
  BY <1>0, NoDeviceFacts
<1>6. \A x : ~ Creates(r, x)'
  BY DEF Creates
<1>7. /\ View(r)'[s] = m
      /\ \A x \in Slots \ {s} : View(r)'[x] = View(r)[x]
  BY <1>0, <1>3 DEF View, Locks
<1>8. dev[s] # NoDevice => Keeps(dev[s], m)
  <2>1. CASE s \in Locks(r) /\ dev[s] # NoDevice
    <3>1. Keeps(dev[s], req[r].locked[s]) /\ View(r)[s] = req[r].locked[s]
      BY <2>1, ViewType DEF RowsInv, WrittenSound
    <3> QED
      BY <1>1, <2>1, <3>1, KeepsTransitive
  <2>2. CASE s \notin Locks(r)
    BY <1>0, <1>1, <2>2, ViewType
  <2> QED
    BY <2>1, <2>2
<1>9. p.serial = m.serial /\ p.place = m.place
  BY <1>0, <1>1 DEF Keeps, RowsInv, LoadedSound
<1> HIDE DEF s, m, p, b
<1>10. LoadedSound(r)'
  <2> SUFFICES ASSUME NEW x \in DOMAIN req'[r].base
               PROVE  /\ req'[r].base[x] # NoDevice
                      /\ View(r)'[x] # NoDevice
                      /\ View(r)'[x].serial = req'[r].base[x].serial
                      /\ View(r)'[x].place = req'[r].base[x].place
    BY DEF LoadedSound
  <2>1. x \in DOMAIN req[r].base /\ x \in Slots
    BY <1>0 DEF IsTable, s
  <2>2. CASE x = s
    BY <1>0, <1>5, <1>7, <1>9, <2>1, <2>2 DEF s, p
  <2>3. CASE x # s
    <3>1. req'[r].base[x] = req[r].base[x] /\ req[r].base[x] # NoDevice
      BY <2>1, <2>3 DEF s, RowsInv, LoadedSound, Creates
    <3> QED
      BY <1>7, <2>1, <2>3, <3>1 DEF RowsInv, LoadedSound
  <2> QED
    BY <2>2, <2>3
<1>11. ASSUME NEW q \in Requests PROVE LoadedSound(q)' /\ PlanSound(q)' /\ WrittenSound(q)'
  <2>0. LoadedSound(q) /\ PlanSound(q) /\ WrittenSound(q)
    BY DEF RowsInv
  <2>1. CASE q # r
    BY <1>4, <2>0, <2>1 DEF LoadedSound, PlanSound, WrittenSound
  <2>2. CASE q = r
    <3>1. WrittenSound(r)'
      BY <1>3, <1>5, <1>8, <2>0, <2>2 DEF WrittenSound
    <3> QED
      BY <1>10, <2>2, <3>1 DEF PlanSound
  <2> QED
    BY <2>1, <2>2
<1>12. LocksApart'
  <2>1. ASSUME NEW q \in Requests \ {r}, NEW x \in Slots, Creates(q, x) PROVE x # s
    <3>1. CASE b = NoDevice
      BY <1>0, <2>1, <3>1 DEF RowsInv, LocksApart, Creates, s, b
    <3>2. CASE b # NoDevice
      <4>1. dev[x] = NoDevice /\ x \notin Locks(r)
        BY <2>1 DEF RowsInv, LocksApart, LoadedSound, PlanSound, Creates
      <4>2. View(r)[x] = NoDevice
        BY <2>1, <4>1, ViewType
      <4> QED
        BY <1>1, <3>2, <4>2
    <3> QED
      BY <3>1, <3>2
  <2> QED
    BY <1>2, <1>3, <1>4, <1>6, <2>1 DEF RowsInv, LocksApart
<1>13. ASSUME NEW t \in Slots, t # s, dev[t] # NoDevice PROVE Key(m) # Key(dev[t])
  <2>1. CASE b # NoDevice
    <3>1. Key(m) = Key(View(r)[s])
      BY <1>1, <2>1, KeyOf DEF Keeps
    <3>2. CASE s \in Locks(r)
      BY <1>13, <3>1, <3>2, ViewType DEF RowsInv, KeysApart
    <3>3. CASE s \notin Locks(r)
      BY <1>0, <1>1, <1>13, <2>1, <3>1, <3>3, ViewType DEF RowsInv, KeysApart
    <3> QED
      BY <3>2, <3>3
  <2>2. CASE b = NoDevice
    <3>1. View(r)[t] # NoDevice /\ Key(View(r)[t]) = Key(dev[t])
      BY <1>13, ViewType, KeyOf DEF RowsInv, WrittenSound, Keeps
    <3>2. Key(View(r)[t]) # Key(p)
      BY <1>13, <3>1 DEF Duplicates, s, p
    <3> QED
      BY <1>1, <2>2, <3>1, <3>2
  <2> QED
    BY <2>1, <2>2
<1>14. ASSUME NEW q \in Requests, NEW t \in Locks(q), t # s PROVE Key(m) # Key(req[q].locked[t])
  <2>0. t \in Slots /\ req[q].locked[t] # NoDevice
    BY <1>14, <1>2, ViewType DEF RowsInv, WrittenSound
  <2>1. CASE b # NoDevice
    <3>1. Key(m) = Key(View(r)[s])
      BY <1>1, <2>1, KeyOf DEF Keeps
    <3>2. CASE s \in Locks(r)
      BY <1>14, <3>1, <3>2, ViewType DEF RowsInv, KeysApart
    <3>3. CASE s \notin Locks(r)
      BY <1>0, <1>1, <1>14, <2>1, <3>1, <3>3, ViewType DEF RowsInv, KeysApart
    <3> QED
      BY <3>2, <3>3
  <2>2. CASE b = NoDevice /\ dev[t] # NoDevice
    <3>1. Key(req[q].locked[t]) = Key(dev[t])
      BY <1>14, <2>2, KeyOf DEF RowsInv, WrittenSound, Keeps
    <3> QED
      BY <1>13, <1>14, <2>0, <2>2, <3>1
  <2>3. CASE b = NoDevice /\ dev[t] = NoDevice /\ q # r
    BY <1>1, <1>14, <2>3 DEF Blockers, Locks, s, p
  <2>4. CASE b = NoDevice /\ dev[t] = NoDevice /\ q = r
    <3>1. View(r)[t] = req[r].locked[t]
      BY <1>14, <2>4, ViewType
    <3> QED
      BY <1>1, <1>14, <2>0, <2>4, <3>1 DEF Duplicates, s, p
  <2> QED
    BY <2>1, <2>2, <2>3, <2>4
<1>15. KeysApart'
  <2>1. ASSUME NEW q \in Requests, NEW x \in Locks(q)'
        PROVE  \/ q = r /\ x = s /\ req'[q].locked[x] = m
               \/ x \in Locks(q) /\ req'[q].locked[x] = req[q].locked[x] /\ (x = s => q # r)
    BY <1>3, <1>4, <2>1
  <2>2. ASSUME NEW q \in Requests \ {r} PROVE s \notin Locks(q)
    BY <1>2
  <2>3. ASSUME NEW q \in Requests, NEW x \in Locks(q)', NEW t \in Slots, x # t, dev[t] # NoDevice
        PROVE  Key(req'[q].locked[x]) # Key(dev[t])
    BY <1>13, <2>1, <2>3 DEF RowsInv, KeysApart
  <2>4. ASSUME NEW q \in Requests, NEW u \in Requests, NEW x \in Locks(q)', NEW t \in Locks(u)', x # t
        PROVE  Key(req'[q].locked[x]) # Key(req'[u].locked[t])
    BY <1>14, <2>1, <2>2, <2>4 DEF RowsInv, KeysApart
  <2> QED
    BY <2>3, <2>4 DEF RowsInv, KeysApart
<1> QED
  BY <1>11, <1>12, <1>15 DEF RowsInv

\* The commit of a session keeps RowsInv, and what was known of every device.
LEMMA RowsCommitted ==
  ASSUME Types, RowsInv, NEW r \in Requests, dev' = View(r), Cleared(r),
         \A q \in Requests \ {r} : Undisturbed(q)
  PROVE  /\ RowsInv'
         /\ \A s \in Slots : dev[s] # NoDevice => dev'[s] # NoDevice /\ Keeps(dev[s], dev'[s])
<1>1. \A s \in Slots : /\ s \in Locks(r) => dev'[s] = req[r].locked[s]
                       /\ s \notin Locks(r) => dev'[s] = dev[s]
  BY ViewType
<1>2. \A s \in Slots : dev[s] # NoDevice => dev'[s] # NoDevice /\ Keeps(dev[s], dev'[s])
  BY <1>1 DEF RowsInv, WrittenSound, Keeps
<1>3. \A q \in Requests \ {r} : Locks(q)' = Locks(q) /\ req'[q].locked = req[q].locked
  BY DEF Undisturbed, Locks
<1>4. \A q \in Requests \ {r} : \A s : Creates(q, s)' <=> Creates(q, s)
  BY DEF Undisturbed, Creates
<1>5. Locks(r)' = {} /\ req'[r].base = NoRows /\ req'[r].pc # "flush" /\ \A s : ~ Creates(r, s)'
  BY NoRowsTable DEF Cleared, Locks, Creates
<1>6. ASSUME NEW q \in Requests PROVE LoadedSound(q)' /\ PlanSound(q)' /\ WrittenSound(q)'
  <2>0. LoadedSound(q) /\ PlanSound(q) /\ WrittenSound(q)
    BY DEF RowsInv
  <2>1. CASE q = r
    BY <1>5, <2>1, NoRowsTable DEF LoadedSound, PlanSound, WrittenSound
  <2>2. CASE q # r
    <3>1. Locks(q) \cap Locks(r) = {} /\ Locks(q) \subseteq Slots
      BY <2>2, ViewType DEF RowsInv, LocksApart
    <3>2. \A s \in Slots : View(q)'[s] = IF s \in Locks(q) THEN View(q)[s] ELSE dev'[s]
      BY <1>3, <2>2 DEF View, Locks
    <3>3. LoadedSound(q)'
      <4> SUFFICES ASSUME NEW s \in DOMAIN req'[q].base
                   PROVE  IF req'[q].base[s] = NoDevice
                          THEN Creates(q, s)' /\ dev'[s] = NoDevice /\ s \notin Locks(q)'
                          ELSE /\ View(q)'[s] # NoDevice
                               /\ View(q)'[s].serial = req'[q].base[s].serial
                               /\ View(q)'[s].place = req'[q].base[s].place
        BY DEF LoadedSound
      <4>1. req'[q].base = req[q].base /\ s \in Slots
        BY <2>2 DEF Undisturbed, Types, IsReq, IsTable
      <4>2. CASE req[q].base[s] = NoDevice
        <5>1. Creates(q, s) /\ dev[s] = NoDevice /\ s \notin Locks(q)
          BY <2>0, <4>1, <4>2 DEF LoadedSound
        <5>2. s \notin Locks(r)
          BY <2>2, <4>1, <5>1 DEF RowsInv, LocksApart
        <5> QED
          BY <1>1, <1>3, <1>4, <2>2, <4>1, <4>2, <5>1, <5>2
      <4>3. CASE req[q].base[s] # NoDevice
        <5>1. /\ View(q)[s] # NoDevice
              /\ View(q)[s].serial = req[q].base[s].serial
              /\ View(q)[s].place = req[q].base[s].place
          BY <2>0, <4>1, <4>3 DEF LoadedSound
        <5>2. CASE s \in Locks(q)
          BY <3>2, <4>1, <4>3, <5>1, <5>2
        <5>3. CASE s \notin Locks(q)
          BY <1>2, <3>2, <4>1, <4>3, <5>1, <5>3, ViewType DEF Keeps
        <5> QED
          BY <5>2, <5>3
      <4> QED
        BY <4>1, <4>2, <4>3
    <3>4. PlanSound(q)'
      BY <2>0, <2>2 DEF Undisturbed, PlanSound
    <3>5. WrittenSound(q)'
      BY <1>1, <1>3, <2>0, <2>2, <3>1 DEF WrittenSound
    <3> QED
      BY <3>3, <3>4, <3>5
  <2> QED
    BY <2>1, <2>2
<1>7. LocksApart'
  BY <1>3, <1>4, <1>5 DEF RowsInv, LocksApart
<1>8. KeysApart'
  <2>1. ASSUME NEW s \in Slots, NEW t \in Slots, s # t, dev'[s] # NoDevice, dev'[t] # NoDevice
        PROVE  Key(dev'[s]) # Key(dev'[t])
    BY <1>1, <2>1 DEF RowsInv, KeysApart
  <2>2. ASSUME NEW q \in Requests, NEW s \in Locks(q)', NEW t \in Slots, s # t, dev'[t] # NoDevice
        PROVE  Key(req'[q].locked[s]) # Key(dev'[t])
    BY <1>1, <1>3, <1>5, <2>2 DEF RowsInv, KeysApart
  <2>3. ASSUME NEW q \in Requests, NEW u \in Requests, NEW s \in Locks(q)', NEW t \in Locks(u)', s # t
        PROVE  Key(req'[q].locked[s]) # Key(req'[u].locked[t])
    BY <1>3, <1>5, <2>3 DEF RowsInv, KeysApart
  <2> QED
    BY <2>1, <2>2, <2>3 DEF KeysApart
<1> QED
  BY <1>2, <1>6, <1>7, <1>8 DEF RowsInv
---------------------------------------------------------------------------
(* What the steps of a request do to its record.                           *)

Only(r) == DOMAIN req' = Requests /\ \A q \in Requests \ {r} : req'[q] = req[q]

LEMMA OverFacts ==
  ASSUME Types, NEW r \in Requests, NEW pc \in Pcs
  PROVE  /\ IsReq(Over(r, pc))
         /\ Over(r, pc).pc = pc /\ Over(r, pc).op = req[r].op
         /\ Over(r, pc).job = NoJob /\ Over(r, pc).slot = NoSlot
         /\ Over(r, pc).base = NoRows /\ Over(r, pc).locked = NoRows
         /\ Over(r, pc).observed = {} /\ Over(r, pc).added = {}
         /\ Over(r, pc).todo = <<>> /\ Over(r, pc).emitted = 0
<1> DEFINE t == Over(r, pc)
<1>1. /\ t.pc = pc /\ t.op = req[r].op /\ t.job = NoJob /\ t.slot = NoSlot
      /\ t.base = NoRows /\ t.locked = NoRows
      /\ t.observed = {} /\ t.added = {} /\ t.todo = <<>> /\ t.emitted = 0
  BY DEF Over, Idle
<1>2. NoJob \in Job
  BY DEF NoJob, Job, NoCount, Count
<1>3. req[r].op \in Op \cup {NoOp}
  BY DEF Types, IsReq
<1>4. NoDevice \in Device /\ IsTable(NoRows) /\ 0 \in 0..LastDay /\ <<>> \in Seq(Slots)
  BY NoDeviceFacts, NoRowsTable, ConstantsAssumption
<1>5. t = [Idle EXCEPT !.pc = pc, !.op = req[r].op]
  BY DEF Over
<1> HIDE DEF t
<1>6. IsReq(t)
  BY <1>2, <1>3, <1>4, <1>5 DEF Idle, IsReq
<1> QED
  BY <1>1, <1>6 DEF t

LEMMA EndEffect ==
  ASSUME Types, NEW r \in Requests, NEW pc \in Pcs, End(r, pc)
  PROVE  Only(r) /\ req'[r] = Over(r, pc)
  BY DEF End, Types, Only

LEMMA EmitEffect ==
  ASSUME Types, NEW r \in Requests, Emit(r)
  PROVE  Only(r) /\ IsReq(req'[r])
         /\ req'[r] = [req[r] EXCEPT !.pc = "audit commit", !.emitted = day]
<1> DEFINE t == [req[r] EXCEPT !.pc = "audit commit", !.emitted = day]
<1>1. Only(r) /\ req'[r] = t
  BY DEF Emit, Only, Types, IsReq
<1>2. IsReq(req[r]) /\ day \in 0..LastDay
  BY DEF Types
<1>3. IsReq(t)
  BY <1>2 DEF IsReq, Pcs, Active, Handling
<1> QED
  BY <1>1, <1>3

LEMMA AuditCommitEffect ==
  ASSUME Types, NEW r \in Requests, AuditCommit(r)
  PROVE  Only(r) /\ IsReq(req'[r]) /\ req'[r] = [req[r] EXCEPT !.pc = "returned"]
<1> DEFINE t == [req[r] EXCEPT !.pc = "returned"]
<1>1. Only(r) /\ req'[r] = t
  BY DEF AuditCommit, Only, Types, IsReq
<1>2. IsReq(req[r]) /\ day \in 0..LastDay
  BY DEF Types
<1>3. IsReq(t)
  BY <1>2 DEF IsReq, Pcs, Active, Handling
<1> QED
  BY <1>1, <1>3

LEMMA TeardownEffect ==
  ASSUME Types, NEW r \in Requests, Teardown(r)
  PROVE  Only(r) /\ IsReq(req'[r]) /\ req'[r] = [req[r] EXCEPT !.pc = "commit"]
<1> DEFINE t == [req[r] EXCEPT !.pc = "commit"]
<1>1. Only(r) /\ req'[r] = t
  BY DEF Teardown, Only, Types, IsReq
<1>2. IsReq(req[r]) /\ day \in 0..LastDay
  BY DEF Types
<1>3. IsReq(t)
  BY <1>2 DEF IsReq, Pcs, Active, Handling
<1> QED
  BY <1>1, <1>3
\* Where a request is after a row.
LEMMA AfterFacts ==
  ASSUME Types, NEW r \in Requests, NEW i \in Nat
  PROVE  /\ After(r, i).pc \in {"row", "audit", "commit"} /\ After(r, i).i \in Nat
         /\ i < Len(Rows(r)) => After(r, i).pc = "row" /\ After(r, i).i = i + 1
         /\ ~ (i < Len(Rows(r))) =>
              /\ After(r, i).i = i
              /\ After(r, i).pc = IF req[r].op.kind = "upload" THEN "audit" ELSE "commit"
  BY DEF After

LEMMA CountedType ==
  ASSUME Types, NEW r \in Requests, NEW kinds
  PROVE  /\ Counted(r, kinds) \in Count
         /\ \A c \in {"total", "accepted", "rejected", "review", "duplicate", "created", "updated"} :
              Counted(r, kinds)[c] = req[r].job.count[c] + (IF c \in kinds THEN 1 ELSE 0)
<1>1. req[r].job.count \in Count
  BY DEF Types, IsReq, Job
<1>2. DOMAIN NoCount = {"total", "accepted", "rejected", "review", "duplicate", "created", "updated"}
  BY DEF NoCount
<1>3. Counted(r, kinds) = [c \in DOMAIN NoCount |->
                             req[r].job.count[c] + (IF c \in kinds THEN 1 ELSE 0)]
  BY DEF Counted
<1> QED
  BY <1>1, <1>2, <1>3 DEF Count

\* The job a request inserts.
NewJob(op, status) == [NoJob EXCEPT !.status = status, !.file = op.file, !.override = op.override]

LEMMA NewJobFacts ==
  ASSUME NEW op \in Op, NEW status \in {"completed", "failed"}
  PROVE  /\ NewJob(op, status) \in Job
         /\ NewJob(op, status).status = status /\ NewJob(op, status).file = op.file
         /\ NewJob(op, status).override = op.override /\ NewJob(op, status).count = NoCount
  BY DEF NewJob, NoJob, Job, NoCount, Count, Op

LEMMA InsertJobEffect ==
  ASSUME Types, NEW r \in Requests, Progress(r), InsertJob(r)
  PROVE  /\ Only(r) /\ IsReq(req'[r])
         /\ Taken(r) => req'[r] = Over(r, "failed")
         /\ ~ Taken(r) =>
              \E status \in {"completed", "failed"}, pc \in Pcs :
                /\ req'[r] = [req[r] EXCEPT !.pc = pc, !.job = NewJob(req[r].op, status)]
                /\ status = "failed" => pc = "audit"
                /\ status = "completed" => pc = After(r, 0).pc
<1> DEFINE op == req[r].op
<1>1. op \in Op /\ IsReq(req[r]) /\ "failed" \in Pcs
  BY DEF Progress, InsertJob, Types, Pcs, Ended
<1>2. CASE Taken(r)
  <2>1. End(r, "failed")
    BY <1>2 DEF InsertJob
  <2> QED
    BY <1>1, <1>2, <2>1, EndEffect, OverFacts
<1>3. ASSUME ~ Taken(r), NEW status \in {"completed", "failed"}, NEW pc \in Pcs,
             req' = [req EXCEPT ![r].pc = pc, ![r].job = NewJob(op, status)]
      PROVE  /\ Only(r) /\ IsReq(req'[r])
             /\ req'[r] = [req[r] EXCEPT !.pc = pc, !.job = NewJob(op, status)]
  <2> DEFINE t == [req[r] EXCEPT !.pc = pc, !.job = NewJob(op, status)]
  <2>1. Only(r) /\ req'[r] = t
    BY <1>3 DEF Only, Types, IsReq
  <2>2. NewJob(op, status) \in Job
    BY <1>1, NewJobFacts
  <2>3. IsReq(t)
    BY <1>1, <2>2 DEF IsReq
  <2> QED
    BY <2>1, <2>3
<1>4. CASE ~ Taken(r) /\ op.file \in Unreadable
  <2>1. req' = [req EXCEPT ![r].pc = "audit", ![r].job = NewJob(op, "failed")]
    BY <1>4 DEF InsertJob, NewJob
  <2>2. "audit" \in Pcs
    BY DEF Pcs, Active, Handling
  <2> QED
    BY <1>3, <1>4, <2>1, <2>2
<1>5. CASE ~ Taken(r) /\ op.file \notin Unreadable
  <2>1. req' = [req EXCEPT ![r].pc = After(r, 0).pc, ![r].job = NewJob(op, "completed")]
    BY <1>5 DEF InsertJob, NewJob
  <2>2. After(r, 0).pc \in Pcs
    BY AfterFacts DEF Pcs, Active, Handling
  <2> QED
    BY <1>3, <1>5, <2>1, <2>2
<1> QED
  BY <1>2, <1>4, <1>5

LEMMA LoadCatalogEffect ==
  ASSUME Types, NEW r \in Requests, LoadCatalog(r)
  PROVE  /\ Only(r) /\ IsReq(req'[r])
         /\ \/ req'[r] = Over(r, "failed")
            \/ /\ req'[r].added \subseteq Rule
               /\ \A x, y \in req'[r].added : x.id = y.id => x = y
               /\ req'[r] = [req[r] EXCEPT !.pc = "commit", !.added = req'[r].added]
<1> DEFINE before(x) == {y \in req[r].found : y.id = x.id}
           new(x) == [x EXCEPT !.created = IF before(x) = {} THEN r
                                           ELSE (CHOOSE y \in before(x) : TRUE).created]
           added == {new(x) : x \in FileRules}
           t == [req[r] EXCEPT !.pc = "commit", !.added = added]
<1>0. IsReq(req[r]) /\ "failed" \in Pcs /\ "commit" \in Pcs /\ req[r].found \subseteq Rule
  BY DEF Types, IsReq, Pcs, Ended, Active
<1>1. ASSUME NEW x \in FileRules PROVE new(x) \in Rule /\ new(x).id = x.id
  <2>1. x \in Rule /\ r \in Int
    BY ConstantsAssumption
  <2>2. before(x) # {} => (CHOOSE y \in before(x) : TRUE) \in Rule
    BY <1>0
  <2>3. (IF before(x) = {} THEN r ELSE (CHOOSE y \in before(x) : TRUE).created) \in Int
    BY <2>1, <2>2 DEF Rule
  <2> HIDE DEF before
  <2> QED
    BY <2>1, <2>3 DEF Rule
<1>2. added \subseteq Rule /\ \A x, y \in added : x.id = y.id => x = y
  <2> HIDE DEF new
  <2> QED
    BY <1>1, ConstantsAssumption
<1>3. \/ End(r, "failed")
      \/ req' = [req EXCEPT ![r].pc = "commit", ![r].added = added]
  BY DEF LoadCatalog
<1> HIDE DEF added
<1>4. CASE End(r, "failed")
  BY <1>0, <1>4, EndEffect, OverFacts
<1>5. CASE req' = [req EXCEPT ![r].pc = "commit", ![r].added = added]
  <2>1. Only(r) /\ req'[r] = t
    BY <1>5 DEF Only, Types, IsReq
  <2>2. IsReq(t)
    BY <1>0, <1>2 DEF IsReq
  <2>3. t.added = added
    BY <1>0 DEF IsReq
  <2> QED
    BY <1>2, <2>1, <2>2, <2>3
<1> QED
  BY <1>3, <1>4, <1>5
\* The rows a request goes through.
LEMMA RowsFacts ==
  ASSUME Types, NEW r \in Requests, Progress(r), req[r].pc # "idle"
  PROVE  /\ req[r].op.kind = "upload" => Rows(r) = RowsOf(req[r].op.file) /\ Rows(r) \in Seq(Row)
         /\ req[r].op.kind # "upload" =>
              /\ DOMAIN Rows(r) = DOMAIN req[r].todo
              /\ \A i \in DOMAIN req[r].todo :
                   LET d == req[r].base[req[r].todo[i]]
                   IN Rows(r)[i] = [valid |-> TRUE, serial |-> d.serial, place |-> d.place,
                                    raw |-> d.raw, fact |-> d.fact]
         /\ Len(Rows(r)) \in Nat /\ DOMAIN Rows(r) = 1..Len(Rows(r))
<1>1. CASE req[r].op.kind = "upload"
  <2>1. req[r].op.file \in Files /\ Rows(r) = RowsOf(req[r].op.file)
    BY <1>1 DEF Progress, Rows
  <2>2. Rows(r) \in Seq(Row)
    BY <2>1, ConstantsAssumption
  <2> QED
    BY <1>1, <2>1, <2>2
<1>2. CASE req[r].op.kind # "upload"
  <2> DEFINE todo == req[r].todo
             row(i) == LET d == req[r].base[todo[i]]
                       IN [valid |-> TRUE, serial |-> d.serial, place |-> d.place, raw |-> d.raw,
                           fact |-> d.fact]
             All == {row(i) : i \in DOMAIN todo}
  <2>1. Rows(r) = [i \in DOMAIN todo |-> row(i)]
    BY <1>2 DEF Rows
  <2>2. todo \in Seq(Slots)
    BY DEF Types, IsReq
  <2>3. Len(todo) \in Nat /\ DOMAIN todo = 1..Len(todo)
    BY <2>2
  <2> HIDE DEF todo, row
  <2>4. Rows(r) \in [1..Len(todo) -> All]
    BY <2>1, <2>3
  <2>5. Rows(r) \in Seq(All)
    BY <2>3, <2>4
  <2>6. Len(Rows(r)) \in Nat /\ DOMAIN Rows(r) = 1..Len(Rows(r))
    BY <2>5
  <2>7. \A i \in DOMAIN todo : Rows(r)[i] = row(i)
    BY <2>1
  <2> QED
    BY <1>2, <2>1, <2>6, <2>7 DEF todo, row
<1> QED
  BY <1>1, <1>2

\* The row that a request is at.
LEMMA RowType ==
  ASSUME Types, NEW r \in Requests, Progress(r), LoadedSound(r), req[r].pc = "row"
  PROVE  /\ Rows(r)[req[r].i] \in Row
         /\ req[r].op.kind # "upload" => Rows(r)[req[r].i].valid
<1>1. /\ req[r].i \in DOMAIN Rows(r) /\ IsReq(req[r])
      /\ req[r].op.kind \in {"upload", "rule", "renormalize"}
  BY DEF Progress, Types
<1>2. CASE req[r].op.kind = "upload"
  BY <1>1, <1>2, RowsFacts
<1>3. CASE req[r].op.kind # "upload"
  <2> DEFINE d == req[r].base[req[r].todo[req[r].i]]
  <2>1. req[r].i \in DOMAIN req[r].todo
    BY <1>1, <1>3, RowsFacts
  <2>2. req[r].todo[req[r].i] \in DOMAIN req[r].base
    BY <2>1 DEF Progress
  <2>3. d \in Existing
    BY <1>1, <2>2 DEF IsReq, IsTable, LoadedSound, Creates
  <2>4. Rows(r)[req[r].i] = [valid |-> TRUE, serial |-> d.serial, place |-> d.place,
                             raw |-> d.raw, fact |-> d.fact]
    BY <1>3, <2>1, RowsFacts
  <2> HIDE DEF d
  <2>5. Rows(r)[req[r].i] \in Row
    BY <2>3, <2>4 DEF Existing, Device, Row
  <2> QED
    BY <2>4, <2>5
<1> QED
  BY <1>2, <1>3

LEMMA RejectEffect ==
  ASSUME Types, NEW r \in Requests, Look(r), ~ Rows(r)[req[r].i].valid
  PROVE  /\ Only(r) /\ IsReq(req'[r])
         /\ req'[r] = [req[r] EXCEPT !.job = [@ EXCEPT !.count = Counted(r, {"total", "rejected"})],
                                     !.pc = After(r, req[r].i).pc, !.i = After(r, req[r].i).i]
<1> DEFINE job == [req[r].job EXCEPT !.count = Counted(r, {"total", "rejected"})]
           pc == After(r, req[r].i).pc
           i == After(r, req[r].i).i
           t == [req[r] EXCEPT !.job = job, !.pc = pc, !.i = i]
<1>1. IsReq(req[r]) /\ req[r].i \in Nat /\ req[r].job \in Job
  BY DEF Types, IsReq
<1>2. job \in Job
  BY <1>1, CountedType DEF Job
<1>3. pc \in Pcs /\ i \in Nat
  BY <1>1, AfterFacts DEF Pcs, Active, Handling
<1>4. req' = [req EXCEPT ![r].job.count = Counted(r, {"total", "rejected"}),
                         ![r].pc = pc, ![r].i = i]
  BY DEF Look
<1> HIDE DEF pc, i
<1>5. Only(r) /\ req'[r] = t
  BY <1>1, <1>4 DEF Only, Types, IsReq
<1> HIDE DEF job
<1>6. IsReq(t)
  BY <1>1, <1>2, <1>3 DEF IsReq
<1> QED
  BY <1>5, <1>6 DEF job, pc, i

\* What normalize may say of a row.
Norm == [family : Families \cup {None}, review : BOOLEAN]

LEMMA NormalizedType ==
  ASSUME Types, NEW r \in Requests, NEW row
  PROVE  Normalized(r, row) \subseteq Norm
<1>1. Visible(r) \subseteq Rule
  BY DEF Visible, Types, IsReq
<1>2. \A x \in Visible(r) : [family |-> x.family, review |-> x.review] \in Norm
  BY <1>1 DEF Rule, Norm
<1>3. Unmatched \in Norm
  BY DEF Unmatched, Norm
<1> QED
  BY <1>2, <1>3 DEF Normalized

\* What a row makes of a new device, and of one that is there.
LEMMA CreatedType ==
  ASSUME NEW row \in Row, NEW norm \in Norm
  PROVE  Created(row, norm) \in Existing
  BY ConstantsAssumption DEF Created, Norm, Row, Existing, Device

LEMMA UpdatedSound ==
  ASSUME NEW old \in Existing, NEW row \in Row, NEW norm \in Norm
  PROVE  Updated(old, row, norm) \in Existing /\ Keeps(old, Updated(old, row, norm))
<1> DEFINE fact == IF row.fact # None THEN row.fact ELSE old.fact
           fam == IF norm.family # None THEN norm.family ELSE old.family
           life == IF ~ norm.review /\ old.life = "imported" THEN "classified" ELSE old.life
           e == [old EXCEPT !.raw = row.raw, !.fact = fact, !.family = fam, !.life = life]
<1>1. Updated(old, row, norm) = e
  BY DEF Updated, Existing, Device
<1>2. row.raw \in Raws /\ row.raw # None /\ fact \in Facts \cup {None} /\ fam \in Families \cup {None}
  BY ConstantsAssumption DEF Norm, Row, Existing, Device
<1>3. /\ life \in {"absent", "imported", "classified", "judged"} /\ life # "absent"
      /\ life = "imported" => old.life = "imported"
  BY DEF Existing, Device
<1>4. (old.fact # None => fact # None) /\ (old.family # None => fam # None)
  OBVIOUS
<1> HIDE DEF fact, fam, life
<1>5. e \in Existing
  BY <1>2, <1>3 DEF Existing, Device
<1>6. Keeps(old, e)
  BY <1>3, <1>4 DEF Keeps, Existing, Device
<1> QED
  BY <1>1, <1>5, <1>6

LEMMA UpsertEffect ==
  ASSUME Types, NEW r \in Requests, LoadedSound(r), req[r].pc = "row",
         NEW row \in Row, Upsert(r, row)
  PROVE  /\ Only(r) /\ IsReq(req'[r])
         /\ \E s \in Slots, review \in BOOLEAN, old \in Existing \cup {NoDevice},
               plan \in Existing :
              /\ req'[r] = [req[r] EXCEPT !.pc = "flush", !.slot = s, !.base = Put(@, s, old),
                                          !.review = review, !.plan = plan]
              /\ \/ /\ View(r)[s] # NoDevice /\ old # NoDevice /\ Keeps(old, plan)
                    /\ old = IF s \in DOMAIN req[r].base THEN req[r].base[s] ELSE View(r)[s]
                 \/ s \in Fresh /\ old = NoDevice /\ s \notin DOMAIN req[r].base
<1> DEFINE found == Find(r, row)
           O(s) == IF s \in DOMAIN req[r].base THEN req[r].base[s] ELSE View(r)[s]
           P(s, norm) == IF found = {} THEN Created(row, norm) ELSE Updated(O(s), row, norm)
           T(s, norm) == [req[r] EXCEPT !.pc = "flush", !.slot = s, !.base = Put(@, s, O(s)),
                                          !.review = norm.review, !.plan = P(s, norm)]
<1>0. IsReq(req[r]) /\ "flush" \in Pcs
  BY DEF Types, Pcs, Active, Handling
<1>1. PICK s \in (IF found # {} THEN found ELSE Fresh), norm \in Normalized(r, row) :
        req' = [req EXCEPT ![r].pc = "flush", ![r].slot = s, ![r].base = Put(@, s, O(s)),
                           ![r].review = norm.review, ![r].plan = P(s, norm)]
  BY DEF Upsert
<1>2. s \in Slots /\ norm \in Norm /\ norm.review \in BOOLEAN
  BY <1>1, NormalizedType DEF Find, Fresh, Norm
<1>3. Only(r) /\ req'[r] = T(s, norm)
  BY <1>0, <1>1 DEF Only, Types, IsReq
<1>4. O(s) \in Existing \cup {NoDevice}
  BY <1>0, <1>2, ViewType DEF IsReq, IsTable
<1>5. CASE found # {}
  <2>1. View(r)[s] # NoDevice
    BY <1>1, <1>5 DEF Find
  <2>2. O(s) # NoDevice /\ O(s) \in Existing
    BY <1>4, <2>1 DEF LoadedSound, Creates
  <2> HIDE DEF O
  <2>3. P(s, norm) \in Existing /\ Keeps(O(s), P(s, norm))
    BY <1>2, <1>5, <2>2, UpdatedSound
  <2>4. P(s, norm) \in Device
    BY <2>3, NoDeviceFacts
  <2>5. IsTable(Put(req[r].base, s, O(s)))
    BY <1>0, <1>2, <1>4, PutTable DEF IsReq
  <2> HIDE DEF P
  <2>6. IsReq(T(s, norm))
    BY <1>0, <1>2, <2>4, <2>5 DEF IsReq
  <2>7. O(s) = IF s \in DOMAIN req[r].base THEN req[r].base[s] ELSE View(r)[s]
    BY DEF O
  <2> QED
    BY <1>2, <1>3, <1>4, <2>1, <2>2, <2>3, <2>6, <2>7
<1>6. CASE found = {}
  <2>1. s \in Fresh
    BY <1>1, <1>6
  <2>2. dev[s] = NoDevice /\ s \notin Locks(r) /\ View(r)[s] = NoDevice
    BY <1>2, <2>1, ViewType DEF Fresh, Locks
  <2>3. s \notin DOMAIN req[r].base
    BY <2>2 DEF LoadedSound, Creates
  <2>4. O(s) = NoDevice
    BY <2>2, <2>3
  <2> HIDE DEF O
  <2>5. P(s, norm) \in Existing /\ P(s, norm) \in Device
    BY <1>2, <1>6, CreatedType, NoDeviceFacts
  <2>6. IsTable(Put(req[r].base, s, O(s)))
    BY <1>0, <1>2, <1>4, PutTable DEF IsReq
  <2> HIDE DEF P
  <2>7. IsReq(T(s, norm))
    BY <1>0, <1>2, <2>5, <2>6 DEF IsReq
  <2> QED
    BY <1>2, <1>3, <2>1, <2>3, <2>4, <2>5, <2>7
<1> QED
  BY <1>5, <1>6

\* The record of a request after it has written its row.
Written(r) == [req[r] EXCEPT !.locked = Put(@, req[r].slot, Merged(r)),
                             !.base = [@ EXCEPT ![req[r].slot] = req[r].plan]]

LEMMA FlushEffect ==
  ASSUME Types, NEW r \in Requests, LoadedSound(r), PlanSound(r), Flush(r)
  PROVE  /\ Only(r) /\ IsReq(req'[r])
         /\ req[r].op.kind = "judge" => req'[r] = [Written(r) EXCEPT !.pc = "returned"]
         /\ req[r].op.kind \notin {"judge", "upload"} =>
              req'[r] = [Written(r) EXCEPT !.pc = After(r, req[r].i).pc, !.i = After(r, req[r].i).i]
         /\ req[r].op.kind = "upload" =>
              req'[r] = [Written(r) EXCEPT !.pc = After(r, req[r].i).pc, !.i = After(r, req[r].i).i,
                           !.job = [@ EXCEPT !.count = Counted(r, Tally(r))],
                           !.observed = @ \cup {<<r, req[r].i, req[r].slot>>}]
<1> DEFINE s == req[r].slot
           kind == req[r].op.kind
           pc == After(r, req[r].i).pc
           i == After(r, req[r].i).i
           count == Counted(r, Tally(r))
           held == [req EXCEPT ![r].locked = Put(@, s, Merged(r)), ![r].base[s] = req[r].plan]
           next == [held EXCEPT ![r].pc = pc, ![r].i = i]
           job == [req[r].job EXCEPT !.count = count]
           seen == req[r].observed \cup {<<r, req[r].i, s>>}
<1>0. /\ IsReq(req[r]) /\ req[r].pc = "flush" /\ req[r].job \in Job /\ req[r].i \in Nat
      /\ s \in DOMAIN req[r].base /\ s \in Slots /\ req[r].plan \in Existing /\ r \in Requests
      /\ req[r].observed \subseteq Requests \X Nat \X Slots
  BY DEF PlanSound, Types, IsReq, IsTable, Flush
<1>1. Merged(r) \in Existing
  BY <1>0, MergedSound
<1>2. IsTable(Put(req[r].locked, s, Merged(r)))
  BY <1>0, <1>1, PutTable DEF IsReq
<1>3. IsTable([req[r].base EXCEPT ![s] = req[r].plan])
  BY <1>0 DEF IsReq, IsTable
<1>4. pc \in Pcs /\ i \in Nat
  BY <1>0, AfterFacts DEF Pcs, Active, Handling
<1>5. job \in Job
  BY <1>0, CountedType DEF Job
<1>6. seen \subseteq Requests \X Nat \X Slots
  BY <1>0
<1>7. "returned" \in Pcs
  BY DEF Pcs, Active
<1>8. req' = IF kind = "judge" THEN [held EXCEPT ![r].pc = "returned"]
             ELSE IF kind # "upload" THEN next
             ELSE [next EXCEPT ![r].job.count = count,
                               ![r].observed = @ \cup {<<r, req[r].i, s>>}]
  BY DEF Flush
<1> HIDE DEF pc, i, count
<1>9. DOMAIN held = Requests /\ held[r] = Written(r) /\ \A q \in Requests \ {r} : held[q] = req[q]
  BY <1>0 DEF Written, Types, IsReq
<1>10. IsReq(Written(r)) /\ Written(r).job = req[r].job /\ Written(r).observed = req[r].observed
  <2> DEFINE l == Put(req[r].locked, s, Merged(r))
             b == [req[r].base EXCEPT ![s] = req[r].plan]
  <2>1. IsTable(l) /\ IsTable(b)
    BY <1>2, <1>3
  <2>2. Written(r) = [req[r] EXCEPT !.locked = l, !.base = b]
    BY DEF Written
  <2> HIDE DEF l, b
  <2> QED
    BY <1>0, <2>1, <2>2 DEF IsReq
<1> HIDE DEF held
<1>11. CASE kind = "judge"
  <2>1. Only(r) /\ req'[r] = [Written(r) EXCEPT !.pc = "returned"]
    BY <1>8, <1>9, <1>11 DEF Only
  <2>2. IsReq([Written(r) EXCEPT !.pc = "returned"])
    BY <1>7, <1>10 DEF IsReq
  <2> QED
    BY <1>11, <2>1, <2>2
<1>12. CASE kind \notin {"judge", "upload"}
  <2>1. Only(r) /\ req'[r] = [Written(r) EXCEPT !.pc = pc, !.i = i]
    BY <1>8, <1>9, <1>12 DEF Only
  <2>2. IsReq([Written(r) EXCEPT !.pc = pc, !.i = i])
    BY <1>4, <1>10 DEF IsReq
  <2> QED
    BY <1>12, <2>1, <2>2 DEF pc, i
<1>13. CASE kind = "upload"
  <2> DEFINE t == [Written(r) EXCEPT !.pc = pc, !.i = i, !.job = job, !.observed = seen]
  <2>1. Only(r) /\ req'[r] = t
    BY <1>8, <1>9, <1>10, <1>13 DEF Only, IsReq
  <2> HIDE DEF job, seen
  <2>2. IsReq(t)
    BY <1>4, <1>5, <1>6, <1>10 DEF IsReq
  <2> QED
    BY <1>10, <1>13, <2>1, <2>2 DEF pc, i, job, seen, count
<1> QED
  BY <1>11, <1>12, <1>13
---------------------------------------------------------------------------
(* How a request begins, and how it ends.                                  *)

LEMMA TakenFacts ==
  ASSUME NEW op \in Op, NEW taken, taken = [Idle EXCEPT !.op = op]
  PROVE  /\ IsReq(taken)
         /\ taken.op = op /\ taken.job = NoJob /\ taken.i = 1 /\ taken.slot = NoSlot
         /\ taken.base = NoRows /\ taken.locked = NoRows /\ taken.todo = <<>>
         /\ taken.added = {} /\ taken.observed = {} /\ taken.emitted = 0
<1>1. /\ taken.op = op /\ taken.job = NoJob /\ taken.i = 1 /\ taken.slot = NoSlot
      /\ taken.base = NoRows /\ taken.locked = NoRows /\ taken.todo = <<>>
      /\ taken.added = {} /\ taken.observed = {} /\ taken.emitted = 0
  BY DEF Idle
<1>2. NoJob \in Job
  BY DEF NoJob, Job, NoCount, Count
<1>3. NoDevice \in Device /\ IsTable(NoRows) /\ 0 \in 0..LastDay /\ <<>> \in Seq(Slots)
  BY NoDeviceFacts, NoRowsTable, ConstantsAssumption
<1>4. "idle" \in Pcs
  BY DEF Pcs
<1>5. IsReq(taken)
  BY <1>2, <1>3, <1>4 DEF Idle, IsReq
<1> QED
  BY <1>1, <1>5

\* The devices listed by renormalize_estate.
LEMMA EstateFacts ==
  ASSUME Types, NEW estate \in Estates \cup {<<>>}
  PROVE  /\ estate \in Seq(Slots)
         /\ \A i \in DOMAIN estate : estate[i] \in Slots /\ dev[estate[i]] # NoDevice
         /\ estate # <<>> => 1 \in DOMAIN estate
<1> DEFINE there == {s \in Slots : dev[s] # NoDevice}
<1>1. IsFiniteSet(there)
  BY ConstantsAssumption, FS_Subset
<1>2. Cardinality(there) \in Nat
  BY <1>1, FS_CardinalityType
<1>3. CASE estate \in Estates
  <2>1. estate \in [1..Cardinality(there) -> there]
    BY <1>3 DEF Estates
  <2> DEFINE n == Cardinality(there)
  <2> HIDE DEF n
  <2>2. n \in Nat /\ estate \in [1..n -> there]
    BY <1>2, <2>1 DEF n
  <2>3. estate \in Seq(there) /\ Len(estate) = n
    BY <2>2
  <2>4. estate \in Seq(Slots)
    BY <2>2
  <2>5. estate # <<>> => 1 \in DOMAIN estate
    BY <2>2, <2>3
  <2> QED
    BY <2>2, <2>4, <2>5
<1>4. CASE estate = <<>>
  BY <1>4
<1> QED
  BY <1>3, <1>4

\* What a request begins with.
Begins(t) ==
  /\ IsReq(t) /\ t.op \in Op
  /\ t.op.kind = "upload" => t.op.file \in Files
  /\ t.op.kind = "judge" => t.op.slot \in Slots
  /\ t.job = NoJob /\ t.i = 1 /\ t.locked = NoRows /\ t.observed = {} /\ t.emitted = 0
  /\ \A x, y \in t.added : x.id = y.id => x = y
  /\ \A j \in DOMAIN t.todo : t.todo[j] \in DOMAIN t.base
  /\ \A s \in DOMAIN t.base : t.base[s] = dev[s] /\ dev[s] # NoDevice
  /\ \/ /\ t.op.kind = "upload" /\ t.pc \in {"failed", "job"}
        /\ t.slot = NoSlot /\ t.base = NoRows
     \/ /\ t.op.kind = "judge" /\ t.pc \in {"returned", "flush"} /\ t.slot \in DOMAIN t.base
        /\ t.plan = [dev[t.slot] EXCEPT !.life = "judged"]
     \/ t.op.kind = "load" /\ t.pc = "load"
     \/ /\ t.op.kind \in {"rule", "renormalize"} /\ t.pc \in {"row", "commit"}
        /\ t.pc = "row" => 1 \in DOMAIN t.todo

LEMMA BeginEffect ==
  ASSUME Types, NEW r \in Requests, Begin(r)
  PROVE  Only(r) /\ Begins(req'[r])
<1> DEFINE begin(op) ==
       LET taken == [Idle EXCEPT !.op = op]
       IN CASE op.kind = "upload" ->
                 req' = [req EXCEPT ![r] = [taken EXCEPT !.pc =
                   IF ~ op.override /\ \E q \in Requests :
                        jobs[q].status # None /\ ~ jobs[q].override /\ jobs[q].file = op.file
                   THEN "failed" ELSE "job"]]
            [] op.kind = "judge" ->
                 /\ dev[op.slot] # NoDevice
                 /\ req' = [req EXCEPT ![r] = [taken EXCEPT !.slot = op.slot,
                      !.pc = IF dev[op.slot].life = "judged" THEN "returned" ELSE "flush",
                      !.base = Put(NoRows, op.slot, dev[op.slot]),
                      !.plan = [dev[op.slot] EXCEPT !.life = "judged"]]]
            [] op.kind = "load" ->
                 req' = [req EXCEPT ![r] = [taken EXCEPT !.pc = "load",
                   !.found = {x \in rules : \E y \in FileRules : x.id = y.id}]]
            [] OTHER ->
                 \E estate \in Estates \cup (IF op.kind = "rule" THEN {<<>>} ELSE {}) :
                   req' = [req EXCEPT ![r] = [taken EXCEPT
                     !.pc = IF estate = <<>> THEN "commit" ELSE "row", !.todo = estate,
                     !.added = IF op.kind = "rule"
                               THEN {[op.rule EXCEPT !.id = NewId(r), !.created = r]} ELSE {},
                     !.base = [s \in {estate[i] : i \in DOMAIN estate} |-> dev[s]]]]
<1>1. PICK op \in setting.ops : begin(op)
  BY DEF Begin
<1>2. /\ op \in Op /\ IsStart(setting) /\ DOMAIN req = Requests
      /\ op.kind = "upload" => op.file \in Files
      /\ op.kind = "judge" => op.slot \in Slots
      /\ op.kind = "rule" => op.rule \in Rule
      /\ op.kind \in {"upload", "judge", "load", "rule", "renormalize"}
  BY ConstantsAssumption DEF Types, IsStart, Op
<1>3. /\ IsTable(NoRows) /\ DOMAIN NoRows = {} /\ NoDevice \in Device
      /\ <<>> \in Seq(Slots) /\ DOMAIN <<>> = {}
  BY NoRowsTable, NoDeviceFacts
<1>4. {"failed", "job", "returned", "flush", "load", "row", "commit"} \subseteq Pcs
  BY DEF Pcs, Active, Handling, Ended
<1>5. SUFFICES \E t : req' = [req EXCEPT ![r] = t] /\ Begins(t)
  BY <1>2 DEF Only
<1> DEFINE taken == [Idle EXCEPT !.op = op]
<1>6. /\ IsReq(taken)
      /\ taken.op = op /\ taken.job = NoJob /\ taken.i = 1 /\ taken.slot = NoSlot
      /\ taken.base = NoRows /\ taken.locked = NoRows /\ taken.todo = <<>>
      /\ taken.added = {} /\ taken.observed = {} /\ taken.emitted = 0
  BY <1>2, TakenFacts
<1>7. CASE op.kind = "upload"
  <2>1. PICK pc \in {"failed", "job"} : req' = [req EXCEPT ![r] = [taken EXCEPT !.pc = pc]]
    BY <1>1, <1>7
  <2> DEFINE t == [taken EXCEPT !.pc = pc]
  <2> HIDE DEF taken
  <2>2. IsReq(t)
    BY <1>4, <1>6, <2>1 DEF IsReq
  <2>3. /\ t.pc = pc /\ t.op = op /\ t.job = NoJob /\ t.i = 1 /\ t.slot = NoSlot
        /\ t.base = NoRows /\ t.locked = NoRows /\ t.todo = <<>>
        /\ t.added = {} /\ t.observed = {} /\ t.emitted = 0
    BY <1>6 DEF IsReq
  <2> HIDE DEF t
  <2>4. Begins(t)
    BY <1>2, <1>3, <1>7, <2>1, <2>2, <2>3 DEF Begins
  <2> QED
    BY <2>1, <2>4 DEF t
<1>8. CASE op.kind = "judge"
  <2> DEFINE base == Put(NoRows, op.slot, dev[op.slot])
             plan == [dev[op.slot] EXCEPT !.life = "judged"]
  <2>1. PICK pc \in {"returned", "flush"} :
          /\ dev[op.slot] # NoDevice
          /\ req' = [req EXCEPT ![r] = [taken EXCEPT
                      !.slot = op.slot, !.pc = pc, !.base = base, !.plan = plan]]
    BY <1>1, <1>8
  <2>2. dev[op.slot] \in Existing /\ op.slot \in Slots
    BY <1>2, <1>8, <2>1 DEF Types
  <2>3. plan \in Device
    BY <2>2 DEF Existing, Device
  <2>4. IsTable(base) /\ DOMAIN base = {op.slot} /\ base[op.slot] = dev[op.slot]
    BY <1>3, <2>2 DEF IsTable, Put
  <2> DEFINE t == [taken EXCEPT !.slot = op.slot, !.pc = pc, !.base = base, !.plan = plan]
  <2> HIDE DEF taken, base, plan
  <2>5. IsReq(t)
    BY <1>4, <1>6, <2>1, <2>2, <2>3, <2>4, ZenonT(60) DEF IsReq
  <2>6. /\ t.pc = pc /\ t.op = op /\ t.job = NoJob /\ t.i = 1 /\ t.slot = op.slot
        /\ t.base = base /\ t.plan = plan /\ t.locked = NoRows /\ t.todo = <<>>
        /\ t.added = {} /\ t.observed = {} /\ t.emitted = 0
    BY <1>6 DEF IsReq
  <2> HIDE DEF t
  <2>7. Begins(t)
    BY <1>2, <1>3, <1>8, <2>1, <2>4, <2>5, <2>6 DEF Begins, plan
  <2> QED
    BY <2>1, <2>7 DEF t
<1>9. CASE op.kind = "load"
  <2> DEFINE found == {x \in rules : \E y \in FileRules : x.id = y.id}
  <2>1. req' = [req EXCEPT ![r] = [taken EXCEPT !.pc = "load", !.found = found]]
    BY <1>1, <1>9
  <2>2. found \in SUBSET Rule
    BY DEF Types
  <2> DEFINE t == [taken EXCEPT !.pc = "load", !.found = found]
  <2> HIDE DEF taken, found
  <2>3. IsReq(t)
    BY <1>4, <1>6, <2>2 DEF IsReq
  <2>4. /\ t.pc = "load" /\ t.op = op /\ t.job = NoJob /\ t.i = 1 /\ t.slot = NoSlot
        /\ t.base = NoRows /\ t.locked = NoRows /\ t.todo = <<>>
        /\ t.added = {} /\ t.observed = {} /\ t.emitted = 0
    BY <1>6 DEF IsReq
  <2> HIDE DEF t
  <2>5. Begins(t)
    BY <1>2, <1>3, <1>9, <2>3, <2>4 DEF Begins
  <2> QED
    BY <2>1, <2>5 DEF t
<1>10. CASE op.kind \in {"rule", "renormalize"}
  <2> DEFINE new == [op.rule EXCEPT !.id = NewId(r), !.created = r]
             added == IF op.kind = "rule" THEN {new} ELSE {}
             base(estate) == [s \in {estate[i] : i \in DOMAIN estate} |-> dev[s]]
  <2>1. PICK estate \in Estates \cup (IF op.kind = "rule" THEN {<<>>} ELSE {}) :
          req' = [req EXCEPT ![r] = [taken EXCEPT
                    !.pc = IF estate = <<>> THEN "commit" ELSE "row",
                    !.todo = estate, !.added = added, !.base = base(estate)]]
    BY <1>1, <1>10
  <2>2. /\ estate \in Seq(Slots)
        /\ \A i \in DOMAIN estate : estate[i] \in Slots /\ dev[estate[i]] # NoDevice
        /\ estate # <<>> => 1 \in DOMAIN estate
    BY EstateFacts
  <2>3. op.kind = "rule" => new \in Rule
    <3>1. NewId(r) \in RuleIds /\ r \in Int
      BY ConstantsAssumption
    <3> QED
      BY <1>2, <3>1 DEF Rule
  <2>4. added \in SUBSET Rule /\ \A x, y \in added : x.id = y.id => x = y
    <3> HIDE DEF new
    <3> QED
      BY <2>3
  <2> DEFINE b == base(estate)
             pc == IF estate = <<>> THEN "commit" ELSE "row"
             t == [taken EXCEPT !.pc = pc, !.todo = estate, !.added = added, !.base = b]
  <2>5. /\ IsTable(b)
        /\ \A j \in DOMAIN estate : estate[j] \in DOMAIN b
        /\ \A s \in DOMAIN b : b[s] = dev[s] /\ dev[s] # NoDevice
    BY <2>2 DEF IsTable, Types
  <2>6. pc \in {"row", "commit"} /\ (pc = "row" => 1 \in DOMAIN estate)
    BY <2>2
  <2>7. req' = [req EXCEPT ![r] = t]
    BY <2>1
  <2> HIDE DEF taken, added, b, pc
  <2>8. IsReq(t)
    BY <1>4, <1>6, <2>2, <2>4, <2>5, <2>6, ZenonT(60) DEF IsReq
  <2>9. /\ t.pc = pc /\ t.op = op /\ t.job = NoJob /\ t.i = 1 /\ t.slot = NoSlot
        /\ t.base = b /\ t.locked = NoRows /\ t.todo = estate
        /\ t.added = added /\ t.observed = {} /\ t.emitted = 0
    BY <1>6 DEF IsReq
  <2> HIDE DEF t
  <2>10. Begins(t)
    BY <1>2, <1>10, <2>4, <2>5, <2>6, <2>8, <2>9 DEF Begins
  <2> QED
    BY <2>7, <2>10
<1> QED
  BY <1>2, <1>7, <1>8, <1>9, <1>10
\* A request that did not act may have lost its quiet.
Same(q) == req'[q] = req[q] \/ req'[q] = [req[q] EXCEPT !.quiet = FALSE]

LEMMA SameFacts ==
  ASSUME Types, NEW q \in Requests, Same(q)
  PROVE  /\ IsReq(req'[q])
         /\ req'[q].pc = req[q].pc /\ req'[q].op = req[q].op /\ req'[q].job = req[q].job
         /\ req'[q].i = req[q].i /\ req'[q].slot = req[q].slot /\ req'[q].base = req[q].base
         /\ req'[q].plan = req[q].plan /\ req'[q].locked = req[q].locked
         /\ req'[q].todo = req[q].todo /\ req'[q].added = req[q].added
         /\ req'[q].observed = req[q].observed /\ req'[q].emitted = req[q].emitted
<1>1. IsReq(req[q])
  BY DEF Types
<1>2. CASE req'[q] = req[q]
  BY <1>1, <1>2
<1>3. CASE req'[q] = [req[q] EXCEPT !.quiet = FALSE]
  BY <1>1, <1>3 DEF IsReq
<1> QED
  BY <1>2, <1>3 DEF Same

LEMMA SameUndisturbed ==
  ASSUME Types, NEW q \in Requests, Same(q)
  PROVE  Undisturbed(q)
  BY SameFacts DEF Undisturbed

LEMMA OverCleared ==
  ASSUME Types, NEW r \in Requests, NEW pc \in Ended, req'[r] = Over(r, pc)
  PROVE  IsReq(req'[r]) /\ Cleared(r) /\ req'[r].pc = pc /\ req'[r].op = req[r].op
<1>1. pc \in Pcs /\ pc # "flush"
  BY DEF Pcs, Ended
<1> QED
  BY <1>1, OverFacts DEF Cleared

LEMMA CommitEffect ==
  ASSUME Types, NEW r \in Requests, Commit(r)
  PROVE  /\ DOMAIN req' = Requests /\ req'[r] = Over(r, "done")
         /\ \A q \in Requests \ {r} : Same(q)
<1> DEFINE other == Disturbed(r)
<1>1. DOMAIN other = Requests /\ \A q \in Requests \ {r} :
        other[q] = req[q] \/ other[q] = [req[q] EXCEPT !.quiet = FALSE]
  BY DEF Disturbed
<1>2. req' = [other EXCEPT ![r] = Over(r, "done")]
  BY DEF Commit
<1> HIDE DEF other
<1> QED
  BY <1>1, <1>2 DEF Same

LEMMA CrashEffect ==
  ASSUME NEW p, Crash(p)
  PROVE  /\ DOMAIN req' = Requests
         /\ \A q \in Requests : \/ Same(q)
                                \/ req[q].pc \in Active /\ req'[q] = Over(q, "crashed")
  BY DEF Crash, Same

LEMMA OnlySame ==
  ASSUME NEW r \in Requests, Only(r)
  PROVE  \A q \in Requests \ {r} : Same(q)
  BY DEF Only, Same

---------------------------------------------------------------------------
(* Types and rows.                                                         *)

\* All that a step may do to the requests.
LEMMA RequestsTyped ==
  ASSUME IInv, Next
  PROVE  DOMAIN req' = Requests /\ \A q \in Requests : IsReq(req'[q])
<1> USE DEF IInv
<1>1. ASSUME NEW r \in Requests, Only(r), IsReq(req'[r])
      PROVE  DOMAIN req' = Requests /\ \A q \in Requests : IsReq(req'[q])
  BY <1>1 DEF Only, Types
<1>2. ASSUME NEW r \in Requests, NEW pc \in Ended, End(r, pc)
      PROVE  Only(r) /\ IsReq(req'[r])
  <2>1. pc \in Pcs
    BY DEF Pcs
  <2> QED
    BY <1>2, <2>1, EndEffect, OverFacts
<1>3. ASSUME NEW r \in Requests, Begin(r) PROVE Only(r) /\ IsReq(req'[r])
  BY <1>3, BeginEffect DEF Begins
<1>4. ASSUME NEW r \in Requests, InsertJob(r) PROVE Only(r) /\ IsReq(req'[r])
  BY <1>4, InsertJobEffect DEF JobsInv
<1>5. ASSUME NEW r \in Requests, LoadCatalog(r) PROVE Only(r) /\ IsReq(req'[r])
  BY <1>5, LoadCatalogEffect
<1>6. ASSUME NEW r \in Requests, Look(r) PROVE Only(r) /\ IsReq(req'[r])
  <2>1. CASE ~ Rows(r)[req[r].i].valid
    BY <1>6, <2>1, RejectEffect
  <2>2. CASE Rows(r)[req[r].i].valid
    <3>1. req[r].pc = "row" /\ Upsert(r, Rows(r)[req[r].i]) /\ LoadedSound(r) /\ Progress(r)
      BY <1>6, <2>2 DEF Look, RowsInv, JobsInv
    <3> QED
      BY <3>1, RowType, UpsertEffect
  <2> QED
    BY <2>1, <2>2
<1>7. ASSUME NEW r \in Requests, Flush(r) PROVE Only(r) /\ IsReq(req'[r])
  BY <1>7, FlushEffect DEF RowsInv
<1>8. ASSUME NEW r \in Requests, FlushRaises(r) \/ DeadlockVictim(r) PROVE Only(r) /\ IsReq(req'[r])
  BY <1>2, <1>8 DEF FlushRaises, DeadlockVictim, Ended
<1>9. ASSUME NEW r \in Requests, Emit(r) \/ AuditCommit(r) \/ Teardown(r)
      PROVE  Only(r) /\ IsReq(req'[r])
  BY <1>9, EmitEffect, AuditCommitEffect, TeardownEffect
<1>10. ASSUME NEW r \in Requests, Commit(r)
       PROVE  DOMAIN req' = Requests /\ \A q \in Requests : IsReq(req'[q])
  BY <1>10, CommitEffect, SameFacts, OverCleared DEF Ended
<1>11. ASSUME NEW p, Crash(p)
       PROVE  DOMAIN req' = Requests /\ \A q \in Requests : IsReq(req'[q])
  BY <1>11, CrashEffect, SameFacts, OverCleared DEF Ended
<1>12. CASE req' = req
  BY <1>12 DEF Types
<1>13. CASE Midnight \/ (\E d \in 0..LastDay : SealRead(d)) \/ SealCommit
  BY <1>12, <1>13 DEF Midnight, SealRead, SealCommit
<1>14. CASE \E r \in Requests : Begin(r) \/ Step(r)
  BY <1>1, <1>3, <1>4, <1>5, <1>6, <1>7, <1>8, <1>9, <1>10, <1>14 DEF Step
<1> QED
  BY <1>11, <1>13, <1>14 DEF Next

\* What a step of a request leaves alone.
LEMMA StepFrame ==
  ASSUME NEW r \in Requests, Step(r)
  PROVE  /\ setting' = setting /\ spent' = spent /\ day' = day
         /\ heads' = heads /\ sealer' = sealer
         /\ audits' = audits \/ AuditCommit(r)
         /\ (dev' = dev /\ rules' = rules /\ jobs' = jobs /\ observed' = observed) \/ Commit(r)
<1> DEFINE Frame == /\ setting' = setting /\ spent' = spent /\ day' = day
                    /\ heads' = heads /\ sealer' = sealer
                    /\ audits' = audits \/ AuditCommit(r)
                    /\ \/ dev' = dev /\ rules' = rules /\ jobs' = jobs /\ observed' = observed
                       \/ Commit(r)
<1>1. InsertJob(r) => Frame
  BY DEF InsertJob
<1>2. LoadCatalog(r) => Frame
  BY DEF LoadCatalog
<1>3. Look(r) => Frame
  BY DEF Look
<1>4. Flush(r) => Frame
  BY DEF Flush
<1>5. FlushRaises(r) \/ DeadlockVictim(r) => Frame
  BY DEF FlushRaises, DeadlockVictim
<1>6. Emit(r) => Frame
  BY DEF Emit
<1>7. AuditCommit(r) => Frame
  BY DEF AuditCommit
<1>8. Teardown(r) => Frame
  BY DEF Teardown
<1>9. Commit(r) => Frame
  BY DEF Commit
<1> HIDE DEF Frame
<1>10. Frame
  BY <1>1, <1>2, <1>3, <1>4, <1>5, <1>6, <1>7, <1>8, <1>9 DEF Step
<1> QED
  BY <1>10 DEF Frame

\* And a step of the whole.
LEMMA NextFrame ==
  ASSUME Next
  PROVE  /\ setting' = setting
         /\ spent' = spent \/ \E what \in Kept : Spend(what)
         /\ day' = day \/ Midnight
         /\ audits' = audits \/ \E r \in Requests : AuditCommit(r)
         /\ \/ dev' = dev /\ rules' = rules /\ jobs' = jobs /\ observed' = observed
            \/ \E r \in Requests : Commit(r)
<1>1. CASE \E r \in Requests : Begin(r)
  BY <1>1 DEF Begin, Kept
<1>2. CASE \E r \in Requests : Step(r)
  BY <1>2, StepFrame
<1>3. CASE \E p \in Processes : Crash(p)
  BY <1>3 DEF Crash, Kept
<1>4. CASE Midnight
  BY <1>4 DEF Midnight, Kept
<1>5. CASE \E d \in 0..LastDay : SealRead(d)
  BY <1>5 DEF SealRead, Kept
<1>6. CASE SealCommit
  BY <1>6 DEF SealCommit
<1> QED
  BY <1>1, <1>2, <1>3, <1>4, <1>5, <1>6 DEF Next

LEMMA TypesStep ==
  ASSUME IInv, Next
  PROVE  Types'
<1>0. Types /\ \A r \in Requests : Progress(r)
  BY DEF IInv, JobsInv
<1>1. DOMAIN req' = Requests /\ \A q \in Requests : IsReq(req'[q])
  BY RequestsTyped
<1>2. setting' = setting
  BY NextFrame
<1>3. spent' \in [Kept -> Nat] /\ \A w \in Kept : spent'[w] \in 0..setting'.bound[w]
  <2>1. ASSUME NEW what \in Kept, Spend(what)
        PROVE  spent' \in [Kept -> Nat] /\ \A w \in Kept : spent'[w] \in 0..setting'.bound[w]
    <3>1. setting.bound \in [Kept -> Nat]
      BY <1>0, ConstantsAssumption DEF Types, IsStart
    <3>2. /\ spent \in [Kept -> Nat] /\ \A w \in Kept : spent[w] \in 0..setting.bound[w]
          /\ spent[what] < setting.bound[what] /\ spent' = [spent EXCEPT ![what] = spent[what] + 1]
      BY <1>0, <2>1 DEF Spend, Types
    <3> QED
      BY <1>2, <3>1, <3>2
  <2>2. CASE spent' = spent
    BY <1>0, <1>2, <2>2 DEF Types
  <2> QED
    BY <2>1, <2>2, NextFrame
<1>5. day' \in 0..LastDay
  <2>1. day' = day \/ Midnight
    BY NextFrame
  <2>2. day \in 0..LastDay /\ LastDay \in Nat
    BY <1>0, ConstantsAssumption DEF Types
  <2> QED
    BY <2>1, <2>2 DEF Midnight
<1>6. \A a \in audits' : a.req \in Requests /\ a.day \in Int /\ a.on \in Int /\ a.day <= a.on
  <2>1. \A a \in audits : a.req \in Requests /\ a.day \in Int /\ a.on \in Int /\ a.day <= a.on
    BY <1>0 DEF Types
  <2>2. ASSUME NEW r \in Requests, AuditCommit(r)
        PROVE  \A a \in audits' : a.req \in Requests /\ a.day \in Int /\ a.on \in Int /\ a.day <= a.on
    <3>0. IsReq(req[r]) /\ day \in 0..LastDay
      BY <1>0 DEF Types
    <3>1. req[r].emitted \in Int /\ day \in Int
      BY <3>0 DEF IsReq
    <3>2. req[r].emitted <= day
      BY <1>0 DEF Progress
    <3>3. audits' = audits \cup {[req |-> r, day |-> req[r].emitted, on |-> day]}
      BY <2>2 DEF AuditCommit
    <3> QED
      BY <2>1, <3>1, <3>2, <3>3
  <2> QED
    BY <2>1, <2>2, NextFrame
<1>7. CASE ~ \E r \in Requests : Commit(r)
  <2>1. dev' = dev /\ rules' = rules /\ jobs' = jobs /\ observed' = observed
    BY <1>7, NextFrame
  <2> QED
    BY <1>0, <1>1, <1>2, <1>3, <1>5, <1>6, <2>1 DEF Types, IsReq, IsTable
<1>8. ASSUME NEW r \in Requests, Commit(r) PROVE Types'
  <2>1. dev' \in [Slots -> Existing \cup {NoDevice}]
    BY <1>0, <1>8, ViewType DEF Commit
  <2>2. rules' \subseteq Rule /\ \A x, y \in rules' : x.id = y.id => x = y
    <3>1. rules \subseteq Rule /\ \A x, y \in rules : x.id = y.id => x = y
      BY <1>0 DEF Types
    <3>2. req[r].added \subseteq Rule /\ \A x, y \in req[r].added : x.id = y.id => x = y
      BY <1>0 DEF Types, IsReq, Progress
    <3> QED
      BY <1>8, <3>1, <3>2 DEF Commit, Visible
  <2>3. jobs' \in [Requests -> Job]
    BY <1>0, <1>8 DEF Commit, Types, IsReq
  <2>4. observed' \subseteq Requests \X Nat \X Slots
    BY <1>0, <1>8 DEF Commit, Types, IsReq
  <2> QED
    BY <1>0, <1>1, <1>2, <1>3, <1>5, <1>6, <2>1, <2>2, <2>3, <2>4 DEF Types, IsReq, IsTable
<1> QED
  BY <1>7, <1>8
LEMMA RowsBegin ==
  ASSUME IInv, NEW r \in Requests, Begin(r)
  PROVE  RowsInv'
<1>1. /\ Types /\ RowsInv /\ Progress(r) /\ dev' = dev /\ Only(r) /\ Begins(req'[r])
      /\ req[r].pc = "idle"
  BY BeginEffect DEF IInv, JobsInv, Begin
<1>2. req[r].locked = NoRows /\ req'[r].locked = NoRows /\ IsReq(req'[r])
  BY <1>1 DEF Progress, Gone, Begins, Active, Handling
<1>3. \A q \in Requests \ {r} : Undisturbed(q)
  BY <1>1, OnlySame, SameUndisturbed
<1>4. \A s \in Slots : View(r)'[s] = dev[s]
  BY <1>1, <1>2, NoRowsTable DEF View
<1>5. DOMAIN req'[r].base \subseteq Slots
  BY <1>2 DEF IsReq, IsTable
<1>6. LoadedSound(r)'
  BY <1>1, <1>4, <1>5 DEF Begins, LoadedSound
<1>7. req'[r].pc = "flush" =>
        /\ req'[r].slot \in DOMAIN req'[r].base
        /\ req'[r].base[req'[r].slot] = dev[req'[r].slot] /\ dev[req'[r].slot] # NoDevice
        /\ req'[r].plan = [dev[req'[r].slot] EXCEPT !.life = "judged"]
  BY <1>1 DEF Begins
<1>8. PlanSound(r)'
  <2> SUFFICES ASSUME req'[r].pc = "flush"
               PROVE  /\ req'[r].slot \in DOMAIN req'[r].base
                      /\ req'[r].plan \in Existing
                      /\ Keeps(req'[r].base[req'[r].slot], req'[r].plan)
    BY DEF PlanSound
  <2> DEFINE d == dev[req'[r].slot]
  <2>1. d \in Existing
    BY <1>1, <1>5, <1>7 DEF Types
  <2>2. req'[r].plan = [d EXCEPT !.life = "judged"] /\ req'[r].base[req'[r].slot] = d
    BY <1>7
  <2> HIDE DEF d
  <2>3. [d EXCEPT !.life = "judged"] \in Existing /\ Keeps(d, [d EXCEPT !.life = "judged"])
    BY <2>1 DEF Existing, Device, Keeps
  <2> QED
    BY <1>7, <2>2, <2>3
<1>9. \A s \in Slots : ~ Creates(r, s)'
  BY <1>7 DEF Creates
<1> QED
  BY <1>1, <1>2, <1>3, <1>6, <1>8, <1>9, RowsLoad

LEMMA RowsUpsert ==
  ASSUME IInv, NEW r \in Requests, Look(r), Rows(r)[req[r].i].valid
  PROVE  RowsInv'
<1> DEFINE row == Rows(r)[req[r].i]
<1>1. /\ Types /\ RowsInv /\ LoadedSound(r) /\ Progress(r) /\ req[r].pc = "row" /\ dev' = dev
      /\ Upsert(r, row)
  BY DEF IInv, RowsInv, JobsInv, Look
<1>2. row \in Row /\ IsReq(req[r])
  BY <1>1, RowType DEF Types
<1> HIDE DEF row
<1>3. Only(r) /\ IsReq(req'[r])
  BY <1>1, <1>2, UpsertEffect
<1>4. PICK s \in Slots, review \in BOOLEAN, old \in Existing \cup {NoDevice},
           plan \in Existing :
        /\ req'[r] = [req[r] EXCEPT !.pc = "flush", !.slot = s, !.base = Put(@, s, old),
                                    !.review = review, !.plan = plan]
        /\ \/ /\ View(r)[s] # NoDevice /\ old # NoDevice /\ Keeps(old, plan)
              /\ old = IF s \in DOMAIN req[r].base THEN req[r].base[s] ELSE View(r)[s]
           \/ s \in Fresh /\ old = NoDevice /\ s \notin DOMAIN req[r].base
  BY <1>1, <1>2, UpsertEffect
<1> DEFINE base == Put(req[r].base, s, old)
<1>5. /\ req'[r].pc = "flush" /\ req'[r].slot = s /\ req'[r].plan = plan
      /\ req'[r].locked = req[r].locked /\ req'[r].base = base
  BY <1>2, <1>4 DEF IsReq
<1>6. /\ DOMAIN base = DOMAIN req[r].base \cup {s} /\ base[s] = old
      /\ \A x \in DOMAIN req[r].base \ {s} : base[x] = req[r].base[x]
  BY DEF Put
<1> HIDE DEF base
<1>7. \A q \in Requests \ {r} : Undisturbed(q)
  BY <1>1, <1>3, OnlySame, SameUndisturbed
<1>8. View(r)' = View(r) /\ Locks(r)' = Locks(r)
  BY <1>1, <1>5 DEF View, Locks
<1>9. \A x : Creates(r, x)' <=> x = s /\ old = NoDevice
  BY <1>5, <1>6 DEF Creates
<1>10. s \in Fresh => /\ dev[s] = NoDevice
                      /\ \A q \in Requests : s \notin Locks(q) /\ ~ Creates(q, s)
  BY DEF Fresh, Locks, Creates
<1>11. \A x \in DOMAIN req[r].base :
         /\ req[r].base[x] # NoDevice /\ View(r)[x] # NoDevice
         /\ View(r)[x].serial = req[r].base[x].serial /\ View(r)[x].place = req[r].base[x].place
  BY <1>1 DEF LoadedSound, Creates
<1>12. old # NoDevice => /\ View(r)[s] # NoDevice
                         /\ View(r)[s].serial = old.serial /\ View(r)[s].place = old.place
  BY <1>4, <1>11
<1>13. old = NoDevice => s \in Fresh
  BY <1>4
<1>14. LoadedSound(r)'
  <2> SUFFICES ASSUME NEW x \in DOMAIN base
               PROVE  IF base[x] = NoDevice
                      THEN Creates(r, x)' /\ dev'[x] = NoDevice /\ x \notin Locks(r)'
                      ELSE /\ View(r)'[x] # NoDevice
                           /\ View(r)'[x].serial = base[x].serial /\ View(r)'[x].place = base[x].place
    BY <1>5 DEF LoadedSound
  <2>1. CASE x = s
    BY <1>1, <1>6, <1>8, <1>9, <1>10, <1>12, <1>13, <2>1
  <2>2. CASE x # s
    BY <1>6, <1>8, <1>11, <2>2
  <2> QED
    BY <2>1, <2>2
<1>15. PlanSound(r)'
  BY <1>4, <1>5, <1>6 DEF PlanSound
<1> QED
  BY <1>1, <1>5, <1>7, <1>9, <1>10, <1>13, <1>14, <1>15, RowsLoad

\* Steps of a request that leave its rows alone, or end it.
LEMMA RowsQuiet ==
  ASSUME Types, RowsInv, dev' = dev, NEW r \in Requests, Only(r), Undisturbed(r) \/ Cleared(r)
  PROVE  RowsInv'
  BY OnlySame, SameUndisturbed, RowsShrink

LEMMA RowsStep ==
  ASSUME IInv, Next
  PROVE  RowsInv'
<1>0. Types /\ RowsInv /\ \A r \in Requests : Progress(r) /\ IsReq(req[r])
  BY DEF IInv, JobsInv, Types
<1>1. ASSUME NEW r \in Requests, NEW pc \in Ended, End(r, pc), dev' = dev PROVE RowsInv'
  <2>1. Only(r) /\ req'[r] = Over(r, pc)
    BY <1>0, <1>1, EndEffect DEF Pcs
  <2>2. Cleared(r)
    BY <1>0, <1>1, <2>1, OverCleared
  <2> QED
    BY <1>0, <1>1, <2>1, <2>2, RowsQuiet
<1>2. ASSUME NEW r \in Requests, InsertJob(r) PROVE RowsInv'
  <2>0. Only(r) /\ dev' = dev /\ req[r].pc = "job"
    BY <1>0, <1>2, InsertJobEffect DEF InsertJob
  <2>1. CASE Taken(r)
    <3>1. End(r, "failed")
      BY <1>2, <2>1 DEF InsertJob
    <3> QED
      BY <1>1, <2>0, <3>1 DEF Ended
  <2>2. CASE ~ Taken(r)
    <3>1. PICK status \in {"completed", "failed"}, pc \in Pcs :
            /\ req'[r] = [req[r] EXCEPT !.pc = pc, !.job = NewJob(req[r].op, status)]
            /\ status = "failed" => pc = "audit"
            /\ status = "completed" => pc = After(r, 0).pc
      BY <1>0, <1>2, <2>2, InsertJobEffect
    <3>2. pc # "flush"
      BY <1>0, <3>1, AfterFacts
    <3>3. Undisturbed(r)
      BY <1>0, <2>0, <3>1, <3>2 DEF Undisturbed, IsReq
    <3> QED
      BY <1>0, <2>0, <3>3, RowsQuiet
  <2> QED
    BY <2>1, <2>2
<1>3. ASSUME NEW r \in Requests, LoadCatalog(r) PROVE RowsInv'
  <2>0. Only(r) /\ dev' = dev /\ req[r].pc = "load"
    BY <1>0, <1>3, LoadCatalogEffect DEF LoadCatalog
  <2>1. CASE req'[r] = Over(r, "failed")
    BY <1>0, <2>0, <2>1, OverCleared, RowsQuiet DEF Ended
  <2>2. CASE req'[r] = [req[r] EXCEPT !.pc = "commit", !.added = req'[r].added]
    <3>1. Undisturbed(r)
      BY <1>0, <2>0, <2>2 DEF Undisturbed, IsReq
    <3> QED
      BY <1>0, <2>0, <3>1, RowsQuiet
  <2> QED
    BY <1>0, <1>3, <2>1, <2>2, LoadCatalogEffect
<1>4. ASSUME NEW r \in Requests, Look(r) PROVE RowsInv'
  <2>1. CASE Rows(r)[req[r].i].valid
    BY <1>4, <2>1, RowsUpsert
  <2>2. CASE ~ Rows(r)[req[r].i].valid
    <3>1. /\ Only(r) /\ dev' = dev /\ req[r].pc = "row"
          /\ req'[r] = [req[r] EXCEPT !.job = [@ EXCEPT !.count = Counted(r, {"total", "rejected"})],
                                      !.pc = After(r, req[r].i).pc, !.i = After(r, req[r].i).i]
      BY <1>0, <1>4, <2>2, RejectEffect DEF Look
    <3>2. After(r, req[r].i).pc # "flush"
      BY <1>0, AfterFacts DEF IsReq
    <3>3. Undisturbed(r)
      BY <1>0, <3>1, <3>2 DEF Undisturbed, IsReq
    <3> QED
      BY <1>0, <3>1, <3>3, RowsQuiet
  <2> QED
    BY <2>1, <2>2
<1>5. ASSUME NEW r \in Requests, Flush(r) PROVE RowsInv'
  <2>1. /\ Only(r) /\ dev' = dev /\ req[r].pc = "flush" /\ Blockers(r) = {} /\ ~ Duplicates(r)
        /\ LoadedSound(r) /\ PlanSound(r)
    BY <1>0, <1>5, FlushEffect DEF Flush, RowsInv
  <2>2. /\ req'[r].locked = Written(r).locked /\ req'[r].base = Written(r).base
        /\ req'[r].pc # "flush"
    <3>1. DOMAIN Written(r) = DOMAIN req[r]
      BY DEF Written
    <3>2. After(r, req[r].i).pc # "flush"
      BY <1>0, AfterFacts DEF IsReq
    <3>3. /\ req[r].op.kind = "judge" => req'[r] = [Written(r) EXCEPT !.pc = "returned"]
          /\ req[r].op.kind \notin {"judge", "upload"} =>
               req'[r] = [Written(r) EXCEPT !.pc = After(r, req[r].i).pc, !.i = After(r, req[r].i).i]
          /\ req[r].op.kind = "upload" =>
               req'[r] = [Written(r) EXCEPT !.pc = After(r, req[r].i).pc, !.i = After(r, req[r].i).i,
                            !.job = [@ EXCEPT !.count = Counted(r, Tally(r))],
                            !.observed = @ \cup {<<r, req[r].i, req[r].slot>>}]
      BY <1>0, <1>5, <2>1, FlushEffect
    <3>4. "pc" \in DOMAIN Written(r)
      BY <1>0, <3>1 DEF IsReq
    <3>5. CASE req[r].op.kind = "judge"
      <4>1. req'[r] = [Written(r) EXCEPT !.pc = "returned"]
        BY <3>3, <3>5
      <4> QED
        BY <3>4, <4>1
    <3>6. CASE req[r].op.kind \notin {"judge", "upload"}
      <4> DEFINE pc == After(r, req[r].i).pc
                 i == After(r, req[r].i).i
      <4>1. req'[r] = [Written(r) EXCEPT !.pc = pc, !.i = i] /\ pc # "flush"
        BY <3>2, <3>3, <3>6
      <4> HIDE DEF pc, i
      <4> QED
        BY <3>4, <4>1
    <3>7. CASE req[r].op.kind = "upload"
      <4> DEFINE pc == After(r, req[r].i).pc
                 i == After(r, req[r].i).i
                 job == [Written(r).job EXCEPT !.count = Counted(r, Tally(r))]
                 seen == Written(r).observed \cup {<<r, req[r].i, req[r].slot>>}
      <4>1. /\ pc # "flush"
            /\ req'[r] = [Written(r) EXCEPT !.pc = pc, !.i = i, !.job = job, !.observed = seen]
        BY <3>2, <3>3, <3>7
      <4> HIDE DEF pc, i, job, seen
      <4> QED
        BY <3>4, <4>1
    <3> QED
      BY <3>5, <3>6, <3>7
  <2>3. /\ req'[r].locked = Put(req[r].locked, req[r].slot, Merged(r))
        /\ req'[r].base = [req[r].base EXCEPT ![req[r].slot] = req[r].plan]
    BY <1>0, <2>2 DEF Written, IsReq
  <2> QED
    BY <1>0, <2>1, <2>2, <2>3, RowsWrite DEF Only
<1>6. ASSUME NEW r \in Requests, FlushRaises(r) \/ DeadlockVictim(r) PROVE RowsInv'
  BY <1>1, <1>6 DEF FlushRaises, DeadlockVictim, Ended
<1>7. ASSUME NEW r \in Requests, Emit(r) \/ AuditCommit(r) \/ Teardown(r) PROVE RowsInv'
  <2>1. Only(r) /\ dev' = dev
    BY <1>0, <1>7, EmitEffect, AuditCommitEffect, TeardownEffect DEF Emit, AuditCommit, Teardown
  <2>2. CASE Emit(r)
    <3>1. Undisturbed(r)
      <4>1. req[r].pc # "flush" /\ IsReq(req[r])
        BY <1>0, <2>2 DEF Emit
      <4>2. req'[r] = [req[r] EXCEPT !.pc = "audit commit", !.emitted = day]
        BY <1>0, <2>2, EmitEffect
      <4> QED
        BY <4>1, <4>2 DEF Undisturbed, IsReq
    <3> QED
      BY <1>0, <2>1, <3>1, RowsQuiet
  <2>3. CASE AuditCommit(r)
    <3>1. Undisturbed(r)
      <4>1. req[r].pc # "flush" /\ IsReq(req[r])
        BY <1>0, <2>3 DEF AuditCommit
      <4>2. req'[r] = [req[r] EXCEPT !.pc = "returned"]
        BY <1>0, <2>3, AuditCommitEffect
      <4> QED
        BY <4>1, <4>2 DEF Undisturbed, IsReq
    <3> QED
      BY <1>0, <2>1, <3>1, RowsQuiet
  <2>4. CASE Teardown(r)
    BY <1>0, <2>1, <2>4, TeardownEffect, RowsQuiet DEF Teardown, Undisturbed, IsReq
  <2> QED
    BY <1>7, <2>2, <2>3, <2>4
<1>8. ASSUME NEW r \in Requests, Commit(r) PROVE RowsInv'
  <2>1. Cleared(r) /\ \A q \in Requests \ {r} : Undisturbed(q)
    BY <1>0, <1>8, CommitEffect, OverCleared, SameUndisturbed DEF Ended
  <2> QED
    BY <1>0, <1>8, <2>1, RowsCommitted DEF Commit
<1>9. ASSUME NEW p \in Processes, Crash(p) PROVE RowsInv'
  <2>1. \A q \in Requests : Undisturbed(q) \/ Cleared(q)
    BY <1>0, <1>9, CrashEffect, OverCleared, SameUndisturbed DEF Ended
  <2> QED
    BY <1>0, <1>9, <2>1, RowsShrink DEF Crash
<1>10. CASE Midnight \/ (\E d \in 0..LastDay : SealRead(d)) \/ SealCommit
  <2>1. req' = req /\ dev' = dev
    BY <1>10 DEF Midnight, SealRead, SealCommit
  <2> QED
    BY <1>0, <2>1, RowsShrink DEF Undisturbed
<1> QED
  BY <1>2, <1>3, <1>4, <1>5, <1>6, <1>7, <1>8, <1>9, <1>10, RowsBegin DEF Next, Step
---------------------------------------------------------------------------
(* Counting, row by row.                                                   *)

\* The valid rows and their keys, one row further.
LEMMA ValidStep ==
  ASSUME NEW file, NEW n \in Nat
  PROVE  /\ ValidUpTo(file, n + 1)
              = ValidUpTo(file, n) \cup (IF file[n + 1].valid THEN {n + 1} ELSE {})
         /\ n + 1 \notin ValidUpTo(file, n)
         /\ {Key(file[j]) : j \in ValidUpTo(file, n + 1)}
              = {Key(file[j]) : j \in ValidUpTo(file, n)}
                \cup (IF file[n + 1].valid THEN {Key(file[n + 1])} ELSE {})
<1>1. 1..(n + 1) = 1..n \cup {n + 1} /\ n + 1 \notin 1..n
  OBVIOUS
<1>2. ValidUpTo(file, n + 1) = ValidUpTo(file, n) \cup (IF file[n + 1].valid THEN {n + 1} ELSE {})
  BY <1>1 DEF ValidUpTo
<1>3. n + 1 \notin ValidUpTo(file, n)
  BY <1>1 DEF ValidUpTo
<1> QED
  BY <1>2, <1>3

LEMMA CountsStart ==
  ASSUME NEW file
  PROVE  CountsUpTo(NoCount, {}, file, 0)
<1>1. ValidUpTo(file, 0) = {} /\ {Key(file[j]) : j \in ValidUpTo(file, 0)} = {}
  BY DEF ValidUpTo
<1>2. IsFiniteSet({}) /\ Cardinality({}) = 0
  BY FS_EmptySet
<1> QED
  BY <1>1, <1>2 DEF CountsUpTo, NoCount

\* A row that is not valid adds to the rejected ones.
LEMMA CountsReject ==
  ASSUME NEW count \in Count, NEW c \in Count, NEW rows, NEW file, NEW n \in Nat,
         CountsUpTo(count, rows, file, n), ~ file[n + 1].valid,
         c.total = count.total + 1, c.rejected = count.rejected + 1,
         c.accepted = count.accepted, c.review = count.review, c.duplicate = count.duplicate,
         c.created = count.created, c.updated = count.updated
  PROVE  CountsUpTo(c, rows, file, n + 1)
<1>1. /\ ValidUpTo(file, n + 1) = ValidUpTo(file, n)
      /\ {Key(file[j]) : j \in ValidUpTo(file, n + 1)} = {Key(file[j]) : j \in ValidUpTo(file, n)}
  <2>1. ValidUpTo(file, n + 1)
          = ValidUpTo(file, n) \cup (IF file[n + 1].valid THEN {n + 1} ELSE {})
    BY ValidStep
  <2>2. ValidUpTo(file, n + 1) = ValidUpTo(file, n)
    BY <2>1
  <2> QED
    BY <2>2
<1>2. \A o \in rows : o[2] \in 1..(n + 1)
  BY DEF CountsUpTo
<1>3. count.total = count.accepted + count.rejected + count.review + count.duplicate
  BY DEF CountsUpTo
<1>4. c.total = c.accepted + c.rejected + c.review + c.duplicate
  BY <1>3 DEF Count
<1> QED
  BY <1>1, <1>2, <1>4 DEF CountsUpTo

\* A row that is written adds one observation, and one identity unless it was seen before.
LEMMA CountsWrite ==
  ASSUME NEW count \in Count, NEW c \in Count, NEW rows, NEW file, NEW n \in Nat, NEW o,
         CountsUpTo(count, rows, file, n), file[n + 1].valid, o[2] = n + 1,
         c.total = count.total + 1, c.rejected = count.rejected,
         c.created + c.updated = count.created + count.updated + 1,
         IF \E j \in 1..n : file[j].valid /\ Key(file[j]) = Key(file[n + 1])
         THEN c.duplicate = count.duplicate + 1 /\ c.accepted + c.review = count.accepted + count.review
         ELSE c.duplicate = count.duplicate /\ c.accepted + c.review = count.accepted + count.review + 1
  PROVE  CountsUpTo(c, rows \cup {o}, file, n + 1)
<1> DEFINE V == ValidUpTo(file, n)
           K == {Key(file[j]) : j \in V}
           k == Key(file[n + 1])
<1>1. /\ ValidUpTo(file, n + 1) = V \cup {n + 1} /\ n + 1 \notin V
      /\ {Key(file[j]) : j \in ValidUpTo(file, n + 1)} = K \cup {k}
  BY ValidStep
<1>2. /\ IsFiniteSet(rows) /\ IsFiniteSet(V) /\ IsFiniteSet(K)
      /\ Cardinality(V) = Cardinality(rows)
      /\ count.created + count.updated = Cardinality(rows)
      /\ count.accepted + count.review = Cardinality(K)
      /\ count.total = n
      /\ count.total = count.accepted + count.rejected + count.review + count.duplicate
      /\ \A x \in rows : x[2] \in 1..n
  BY DEF CountsUpTo
<1>3. o \notin rows /\ \A x \in rows \cup {o} : x[2] \in 1..(n + 1)
  BY <1>2
<1>4. k \in K <=> \E j \in 1..n : file[j].valid /\ Key(file[j]) = k
  BY DEF ValidUpTo
<1> HIDE DEF V, K, k
<1>5. IsFiniteSet(rows \cup {o}) /\ Cardinality(rows \cup {o}) = Cardinality(rows) + 1
  BY <1>2, <1>3, FS_AddElement
<1>6. IsFiniteSet(V \cup {n + 1}) /\ Cardinality(V \cup {n + 1}) = Cardinality(V) + 1
  BY <1>1, <1>2, FS_AddElement
<1>7. /\ IsFiniteSet(K \cup {k})
      /\ Cardinality(K \cup {k}) = IF k \in K THEN Cardinality(K) ELSE Cardinality(K) + 1
  BY <1>2, FS_AddElement
<1>8. c.accepted + c.review = Cardinality(K \cup {k})
  BY <1>2, <1>4, <1>7 DEF k
<1>9. c.total = c.accepted + c.rejected + c.review + c.duplicate /\ c.total = n + 1
  BY <1>2 DEF Count
<1> QED
  BY <1>1, <1>2, <1>3, <1>5, <1>6, <1>7, <1>8, <1>9 DEF CountsUpTo

---------------------------------------------------------------------------
(* Jobs, audit rows and counts, step by step.                              *)

LEMMA RowsSame ==
  ASSUME NEW q \in Requests, req'[q].op = req[q].op, req'[q].todo = req[q].todo,
         req'[q].base = req[q].base \/ req[q].op.kind = "upload"
  PROVE  Rows(q)' = Rows(q)
  BY DEF Rows

\* What holds of a request that does nothing still holds of it.
LEMMA OthersKept ==
  ASSUME IInv, NEW q \in Requests, Same(q), day' \in Int, day <= day', jobs'[q] = jobs[q],
         Audited(q)' <=> Audited(q), {o \in observed' : o[1] = q} = {o \in observed : o[1] = q}
  PROVE  /\ Progress(q)' /\ AuditOf(q)' /\ CountOf(q)'
         /\ \A f : Claims(q, f)' <=> Claims(q, f)
<1>0. /\ Types /\ Progress(q) /\ AuditOf(q) /\ CountOf(q) /\ IsReq(req[q])
      /\ day \in 0..LastDay /\ LastDay \in Nat
  BY ConstantsAssumption DEF IInv, Types, JobsInv, CountsInv
<1>1. /\ req'[q].pc = req[q].pc /\ req'[q].op = req[q].op /\ req'[q].job = req[q].job
      /\ req'[q].i = req[q].i /\ req'[q].slot = req[q].slot /\ req'[q].base = req[q].base
      /\ req'[q].plan = req[q].plan /\ req'[q].locked = req[q].locked
      /\ req'[q].todo = req[q].todo /\ req'[q].added = req[q].added
      /\ req'[q].observed = req[q].observed /\ req'[q].emitted = req[q].emitted
  BY <1>0, SameFacts
<1>2. Rows(q)' = Rows(q)
  BY <1>1, RowsSame
<1>3. Progress(q)'
  <2>0. req[q].emitted \in 0..LastDay /\ req[q].emitted <= day
    BY <1>0 DEF Progress, IsReq
  <2>1. req[q].emitted <= day'
    BY <1>0, <2>0
  <2> QED
    BY <1>0, <1>1, <1>2, <2>1, ZenonT(60) DEF Progress, Gone
<1>4. AuditOf(q)'
  BY <1>0, <1>1 DEF AuditOf
<1>5. CountOf(q)'
  <2>1. Through(q)' = Through(q)
    BY <1>1 DEF Through
  <2> QED
    BY <1>0, <1>1, <2>1 DEF CountOf
<1> QED
  BY <1>1, <1>3, <1>4, <1>5 DEF Claims
\* A step of r alone keeps the invariant when it does for r.
LEMMA ActsKeep ==
  ASSUME IInv, NEW r \in Requests, Only(r), day' = day, jobs' = jobs, observed' = observed,
         \A q \in Requests \ {r} : Audited(q)' <=> Audited(q),
         Progress(r)', AuditOf(r)', CountOf(r)',
         \A f \in Files \cup {None} :
           Claims(r, f)' => Claims(r, f) \/ \A q \in Requests \ {r} : ~ Claims(q, f)
  PROVE  JobsInv' /\ CountsInv'
<1>0. FilesApart /\ day \in 0..LastDay
  BY DEF IInv, JobsInv, Types
<1>1. \A q \in Requests \ {r} : /\ Progress(q)' /\ AuditOf(q)' /\ CountOf(q)'
                               /\ \A f : Claims(q, f)' <=> Claims(q, f)
  <2> SUFFICES ASSUME NEW q \in Requests \ {r}
               PROVE  /\ Progress(q)' /\ AuditOf(q)' /\ CountOf(q)'
                      /\ \A f : Claims(q, f)' <=> Claims(q, f)
    OBVIOUS
  <2>1. Same(q)
    BY OnlySame
  <2>2. day' \in Int /\ day <= day'
    BY <1>0
  <2> QED
    BY <2>1, <2>2, OthersKept
<1>2. FilesApart'
  BY <1>0, <1>1 DEF FilesApart
<1> QED
  BY <1>1, <1>2 DEF JobsInv, CountsInv

\* Before a request is about to commit, it has neither a job nor an audit row.
LEMMA AuditQuiet ==
  ASSUME IInv, NEW r \in Requests, audits' = audits, jobs' = jobs,
         req[r].pc \notin {"done", "returned", "commit", "crashed"},
         ~ (req'[r].op.kind = "upload" /\ req'[r].pc \in {"returned", "commit"})
  PROVE  AuditOf(r)' /\ \A q \in Requests : Audited(q)' <=> Audited(q)
<1>1. AuditOf(r)
  BY DEF IInv, JobsInv
<1>2. jobs[r].status = None /\ ~ Audited(r)
  BY <1>1 DEF AuditOf
<1> QED
  BY <1>2 DEF AuditOf, Audited

\* Nothing is counted for a request without a job.
LEMMA CountNothing ==
  ASSUME IInv, NEW r \in Requests, jobs' = jobs, observed' = observed,
         req'[r].job.status # "completed", req'[r].observed = {}
  PROVE  CountOf(r)'
<1>1. CountOf(r)
  BY DEF IInv, CountsInv
<1> QED
  BY <1>1 DEF CountOf

LEMMA OverKept ==
  ASSUME IInv, NEW r \in Requests, NEW pc \in Ended, req'[r] = Over(r, pc), req[r].pc # "idle",
         day' \in Nat
  PROVE  Progress(r)' /\ req'[r].job = NoJob /\ req'[r].observed = {} /\ req'[r].pc = pc
         /\ req'[r].op = req[r].op
<1>1. Types /\ Progress(r) /\ pc \in Pcs
  BY DEF IInv, JobsInv, Pcs
<1>2. /\ req'[r].pc = pc /\ req'[r].op = req[r].op
      /\ req'[r].job = NoJob /\ req'[r].slot = NoSlot
      /\ req'[r].base = NoRows /\ req'[r].locked = NoRows
      /\ req'[r].observed = {} /\ req'[r].added = {}
      /\ req'[r].todo = <<>> /\ req'[r].emitted = 0
  BY <1>1, OverFacts
<1>3. pc \notin Active /\ pc # "idle"
  BY DEF Active, Handling, Ended
<1>4. DOMAIN req'[r].todo = {} /\ 0 <= day'
  BY <1>2
<1>5. /\ req[r].op \in Op
      /\ req[r].op.kind = "upload" => req[r].op.file \in Files
      /\ req[r].op.kind = "judge" => req[r].op.slot \in Slots
  BY <1>1 DEF Progress
<1>6. pc \notin {"load", "row", "flush", "job", "audit", "audit commit"}
  BY DEF Ended
<1>7. Gone(r)'
  BY <1>2 DEF Gone
<1>8. Progress(r)'
  BY <1>2, <1>3, <1>4, <1>5, <1>6, <1>7 DEF Progress
<1> QED
  BY <1>2, <1>8

LEMMA EndKeeps ==
  ASSUME IInv, NEW r \in Requests, End(r, "failed"), req[r].pc \in {"job", "load", "flush"},
         day' = day, jobs' = jobs, observed' = observed, audits' = audits
  PROVE  JobsInv' /\ CountsInv'
<1>1. "failed" \in Ended /\ "failed" \in Pcs /\ day' \in Nat
  BY ConstantsAssumption DEF Ended, Pcs, IInv, Types
<1>2. Only(r) /\ req'[r] = Over(r, "failed")
  BY <1>1, EndEffect DEF IInv
<1>3. Progress(r)' /\ req'[r].job = NoJob /\ req'[r].observed = {} /\ req'[r].pc = "failed"
  BY <1>1, <1>2, OverKept
<1>4. NoJob.status = None /\ None # "completed"
  BY DEF NoJob, None
<1>5. AuditOf(r)' /\ \A q \in Requests : Audited(q)' <=> Audited(q)
  BY <1>3, AuditQuiet
<1>6. CountOf(r)'
  BY <1>3, <1>4, CountNothing
<1>7. \A f : Claims(r, f)' => Claims(r, f)
  BY <1>3, <1>4 DEF Claims
<1> QED
  BY <1>2, <1>3, <1>5, <1>6, <1>7, ActsKeep

LEMMA BeginKeeps ==
  ASSUME IInv, NEW r \in Requests, Begin(r)
  PROVE  JobsInv' /\ CountsInv'
<1>1. /\ Only(r) /\ Begins(req'[r]) /\ req[r].pc = "idle" /\ day' = day /\ jobs' = jobs
      /\ observed' = observed /\ audits' = audits /\ dev' = dev /\ day \in Nat
  <2>1. Types /\ LastDay \in Nat
    BY ConstantsAssumption DEF IInv
  <2>2. Only(r) /\ Begins(req'[r])
    BY <2>1, BeginEffect
  <2>3. day \in Nat
    BY <2>1 DEF Types
  <2> QED
    BY <2>2, <2>3 DEF Begin
<1> DEFINE t == req'[r]
<1>2. /\ IsReq(t) /\ t.op \in Op
      /\ t.op.kind = "upload" => t.op.file \in Files
      /\ t.op.kind = "judge" => t.op.slot \in Slots
      /\ t.job = NoJob /\ t.i = 1 /\ t.locked = NoRows /\ t.observed = {} /\ t.emitted = 0
      /\ \A x, y \in t.added : x.id = y.id => x = y
      /\ \A j \in DOMAIN t.todo : t.todo[j] \in DOMAIN t.base
      /\ \/ /\ t.op.kind = "upload" /\ t.pc \in {"failed", "job"}
            /\ t.slot = NoSlot /\ t.base = NoRows
         \/ t.op.kind = "judge" /\ t.pc \in {"returned", "flush"}
         \/ t.op.kind = "load" /\ t.pc = "load"
         \/ /\ t.op.kind \in {"rule", "renormalize"} /\ t.pc \in {"row", "commit"}
            /\ t.pc = "row" => 1 \in DOMAIN t.todo
  BY <1>1 DEF Begins
<1>3. Rows(r)' = IF t.op.kind = "upload" THEN RowsOf(t.op.file)
                 ELSE [i \in DOMAIN t.todo |->
                        LET d == t.base[t.todo[i]]
                        IN [valid |-> TRUE, serial |-> d.serial, place |-> d.place, raw |-> d.raw,
                            fact |-> d.fact]]
  BY DEF Rows
<1> HIDE DEF t
<1>4. t.op.kind # "upload" => DOMAIN (Rows(r)') = DOMAIN t.todo
  BY <1>3
<1>5. Progress(r)'
  <2>1. t.pc \notin Active => t.pc = "failed"
    BY <1>2 DEF Active, Handling
  <2>2. Gone(r)' <=> /\ t.job = NoJob /\ t.slot = NoSlot /\ t.base = NoRows /\ t.locked = NoRows
                     /\ t.observed = {}
    BY DEF Gone, t
  <2>3. t.pc # "idle" /\ (t.pc \notin Active => Gone(r)')
    BY <1>2, <2>1, <2>2
  <2>4. (t.pc = "row" /\ t.op.kind # "judge") => t.i \in DOMAIN (Rows(r)')
    BY <1>2, <1>4
  <2>5. ~ (t.op.kind = "upload" /\ t.pc \in Active \ {"job"})
    BY <1>2 DEF Active, Handling
  <2>6. t.emitted <= day'
    BY <1>1, <1>2
  <2> QED
    BY <1>2, <2>3, <2>4, <2>5, <2>6 DEF Progress, t
<1>6. NoJob.status = None /\ None # "completed"
  BY DEF NoJob, None
<1>7. AuditOf(r)' /\ \A q \in Requests : Audited(q)' <=> Audited(q)
  BY <1>1, <1>2, AuditQuiet DEF t
<1>8. CountOf(r)'
  BY <1>1, <1>2, <1>6, CountNothing DEF t
<1>9. \A f : Claims(r, f)' => Claims(r, f)
  BY <1>1, <1>2, <1>6 DEF Claims, t
<1> QED
  BY <1>1, <1>5, <1>7, <1>8, <1>9, ActsKeep
LEMMA InsertJobKeeps ==
  ASSUME IInv, NEW r \in Requests, InsertJob(r)
  PROVE  JobsInv' /\ CountsInv'
<1>1. /\ Types /\ Progress(r) /\ CountOf(r) /\ IsReq(req[r]) /\ req[r].pc = "job"
      /\ day' = day /\ jobs' = jobs /\ observed' = observed /\ audits' = audits
      /\ Blockers(r) = {}
  BY DEF IInv, Types, JobsInv, CountsInv, InsertJob
<1>2. Only(r)
  BY <1>1, InsertJobEffect
<1>3. CASE Taken(r)
  <2>1. End(r, "failed")
    BY <1>3 DEF InsertJob
  <2> QED
    BY <1>1, <2>1, EndKeeps
<1>4. CASE ~ Taken(r)
  <2> DEFINE op == req[r].op
             file == RowsOf(op.file)
  <2>1. PICK status \in {"completed", "failed"}, pc \in Pcs :
          /\ req'[r] = [req[r] EXCEPT !.pc = pc, !.job = NewJob(op, status)]
          /\ status = "failed" => pc = "audit"
          /\ status = "completed" => pc = After(r, 0).pc
    BY <1>1, <1>4, InsertJobEffect
  <2>2. /\ op \in Op /\ op.kind = "upload" /\ op.file \in Files
        /\ req[r].i = 1 /\ req[r].observed = {} /\ req[r].emitted <= day
        /\ \A j \in DOMAIN req[r].todo : req[r].todo[j] \in DOMAIN req[r].base
        /\ \A x, y \in req[r].added : x.id = y.id => x = y
    BY <1>1 DEF Progress
  <2>3. /\ Rows(r) = file /\ Len(file) \in Nat /\ DOMAIN file = 1..Len(file)
    BY <1>1, <2>2, RowsFacts
  <2>4. /\ pc \in {"row", "audit"}
        /\ pc = "row" => 1 \in DOMAIN file
        /\ (status = "completed" /\ pc = "audit") => Len(file) = 0
    BY <1>1, <2>1, <2>2, <2>3, AfterFacts
  <2> DEFINE t == req'[r]
             job == NewJob(op, status)
  <2>5. /\ job.status = status /\ job.file = op.file /\ job.override = op.override
        /\ job.count = NoCount /\ status # None
    BY <2>2, NewJobFacts DEF None
  <2> HIDE DEF job
  <2>6. /\ t.pc = pc /\ t.op = op /\ t.job = job /\ t.i = 1 /\ t.observed = {}
        /\ t.emitted = req[r].emitted /\ t.todo = req[r].todo /\ t.base = req[r].base
        /\ t.added = req[r].added
    BY <1>1, <2>1, <2>2 DEF IsReq, job
  <2>7. Rows(r)' = file
    BY <2>2, <2>3, <2>6, RowsSame
  <2> HIDE DEF t
  <2>8. Progress(r)'
    <3>1. t.pc \in Active \ {"job", "idle"}
      BY <2>4, <2>6 DEF Active, Handling
    <3> QED
      BY <1>1, <2>2, <2>4, <2>5, <2>6, <2>7, <3>1 DEF Progress, t
  <2>9. AuditOf(r)' /\ \A q \in Requests : Audited(q)' <=> Audited(q)
    BY <1>1, <2>4, <2>6, AuditQuiet DEF t
  <2>10. CountOf(r)'
    <3>1. t.job.status = "completed" => Through(r)' = 0
      BY <2>3, <2>4, <2>5, <2>6 DEF Through, t
    <3>2. t.job.status = "completed" =>
            CountsUpTo(t.job.count, t.observed, RowsOf(t.op.file), Through(r)')
      BY <2>5, <2>6, <3>1, CountsStart
    <3> QED
      BY <1>1, <2>6, <3>2 DEF CountOf, t
  <2>11. \A f \in Files \cup {None} :
           Claims(r, f)' => Claims(r, f) \/ \A q \in Requests \ {r} : ~ Claims(q, f)
    <3> SUFFICES ASSUME NEW f \in Files \cup {None}, Claims(r, f)', ~ Claims(r, f),
                        NEW q \in Requests \ {r}
                 PROVE  ~ Claims(q, f)
      OBVIOUS
    <3>1. f = op.file /\ ~ op.override
      BY <1>1, <2>5, <2>6 DEF Claims, t
    <3>2. ~ Override(op)
      BY <3>1 DEF Override
    <3>3. ~ (jobs[q].status # None /\ ~ jobs[q].override /\ jobs[q].file = f)
      BY <1>4, <3>1, <3>2 DEF Taken
    <3>4. ~ (req[q].job.status # None /\ ~ req[q].job.override /\ req[q].job.file = f)
      BY <1>1, <3>1, <3>2 DEF Blockers
    <3> QED
      BY <3>3, <3>4 DEF Claims
  <2> QED
    BY <1>1, <1>2, <2>8, <2>9, <2>10, <2>11, ActsKeep
<1> QED
  BY <1>3, <1>4

LEMMA LoadCatalogKeeps ==
  ASSUME IInv, NEW r \in Requests, LoadCatalog(r)
  PROVE  JobsInv' /\ CountsInv'
<1>1. /\ Types /\ Progress(r) /\ IsReq(req[r]) /\ req[r].pc = "load"
      /\ day' = day /\ jobs' = jobs /\ observed' = observed /\ audits' = audits
  BY DEF IInv, Types, JobsInv, LoadCatalog
<1>2. /\ Only(r)
      /\ \/ req'[r] = Over(r, "failed")
         \/ /\ \A x, y \in req'[r].added : x.id = y.id => x = y
            /\ req'[r] = [req[r] EXCEPT !.pc = "commit", !.added = req'[r].added]
  BY <1>1, LoadCatalogEffect
<1>3. CASE req'[r] = Over(r, "failed")
  <2>1. req' = [req EXCEPT ![r] = Over(r, "failed")]
    BY <1>1, <1>2, <1>3 DEF LoadCatalog, End
  <2> QED
    BY <1>1, <2>1, EndKeeps DEF End
<1>4. CASE /\ \A x, y \in req'[r].added : x.id = y.id => x = y
           /\ req'[r] = [req[r] EXCEPT !.pc = "commit", !.added = req'[r].added]
  <2> DEFINE t == req'[r]
  <2>1. /\ t.pc = "commit" /\ t.op = req[r].op /\ t.job = req[r].job /\ t.i = req[r].i
        /\ t.observed = req[r].observed /\ t.emitted = req[r].emitted
        /\ t.todo = req[r].todo /\ t.base = req[r].base
        /\ \A x, y \in t.added : x.id = y.id => x = y
    BY <1>1, <1>4 DEF IsReq
  <2> HIDE DEF t
  <2>2. t.op.kind = "load" /\ t.job = NoJob /\ t.observed = {} /\ t.op \in Op
    BY <1>1, <2>1 DEF Progress
  <2>3. Progress(r)'
    <3>1. "commit" \in Active
      BY DEF Active
    <3> QED
      BY <1>1, <2>1, <2>2, <3>1 DEF Progress, t
  <2>4. AuditOf(r)' /\ \A q \in Requests : Audited(q)' <=> Audited(q)
    BY <1>1, <2>2, AuditQuiet DEF t
  <2>5. NoJob.status = None /\ None # "completed"
    BY DEF NoJob, None
  <2>6. CountOf(r)'
    BY <1>1, <2>2, <2>5, CountNothing DEF t
  <2>7. \A f : Claims(r, f)' => Claims(r, f)
    BY <1>1, <2>2, <2>5 DEF Claims, t
  <2> QED
    BY <1>1, <1>2, <2>3, <2>4, <2>6, <2>7, ActsKeep
<1> QED
  BY <1>2, <1>3, <1>4

\* A request between two of its steps: where it is changes, its job's counts may.
LEMMA PassKeeps ==
  ASSUME IInv, NEW r \in Requests, Only(r), req[r].pc \in {"row", "flush"},
         day' = day, jobs' = jobs, observed' = observed, audits' = audits,
         req'[r].op = req[r].op, req'[r].todo = req[r].todo, req'[r].emitted = req[r].emitted,
         req'[r].added = req[r].added, DOMAIN req[r].base \subseteq DOMAIN req'[r].base,
         Rows(r)' = Rows(r) \/ (req[r].op.kind # "upload" /\ DOMAIN (Rows(r)') = DOMAIN Rows(r)),
         req'[r].job = [req[r].job EXCEPT !.count = req'[r].job.count],
         req[r].op.kind # "upload" => req'[r].job = req[r].job /\ req'[r].observed = req[r].observed,
         req'[r].pc \in {"row", "flush"} => req[r].op.kind # "judge" /\ req'[r].i \in DOMAIN Rows(r),
         req'[r].pc \in {"row", "flush", "audit", "returned", "commit"},
         req'[r].pc = "audit" => req[r].op.kind = "upload",
         req'[r].pc \in {"returned", "commit"} => req[r].op.kind # "upload",
         (req'[r].pc = "flush" /\ req[r].op.kind = "upload") => Rows(r)[req'[r].i].valid,
         \A o \in req'[r].observed : o[1] = r,
         req'[r].job.status = "completed" =>
           CountsUpTo(req'[r].job.count, req'[r].observed, RowsOf(req[r].op.file), Through(r)')
  PROVE  JobsInv' /\ CountsInv'
<1>1. /\ Progress(r) /\ CountOf(r) /\ IsReq(req[r]) /\ req[r].job \in Job
  BY DEF IInv, Types, JobsInv, CountsInv, IsReq
<1>2. /\ req'[r].job.status = req[r].job.status /\ req'[r].job.file = req[r].job.file
      /\ req'[r].job.override = req[r].job.override
  <2> DEFINE c == req'[r].job.count
  <2>1. req'[r].job = [req[r].job EXCEPT !.count = c]
    OBVIOUS
  <2> HIDE DEF c
  <2> QED
    BY <1>1, <2>1 DEF Job
<1>3. /\ req[r].op \in Op /\ req[r].op.kind # "load"
      /\ req[r].op.kind = "upload" => req[r].op.file \in Files
      /\ req[r].op.kind = "judge" => req[r].op.slot \in Slots
      /\ req[r].emitted <= day
      /\ \A x, y \in req[r].added : x.id = y.id => x = y
      /\ \A j \in DOMAIN req[r].todo : req[r].todo[j] \in DOMAIN req[r].base
      /\ req[r].op.kind = "upload" =>
           /\ req[r].job.status # None
           /\ req[r].job.file = req[r].op.file /\ req[r].job.override = req[r].op.override
      /\ req[r].op.kind # "upload" => req[r].job = NoJob /\ req[r].observed = {}
  <2>1. req[r].pc \in Active \ {"job"} /\ req[r].pc # "idle"
    BY DEF Active, Handling
  <2> QED
    BY <1>1, <2>1 DEF Progress
<1>4. /\ req'[r].pc \in Active \ {"job"}
      /\ req'[r].pc \notin {"idle", "load", "job", "audit commit"}
  BY DEF Active, Handling
<1>5. req[r].op.kind \in {"upload", "judge", "load", "rule", "renormalize"}
  BY <1>3 DEF Op
<1>6. Progress(r)'
  <2>1. req'[r].pc = "row" => req[r].op.kind \in {"upload", "rule", "renormalize"}
    BY <1>3, <1>5
  <2>2. (req'[r].pc \in {"row", "flush"} /\ req'[r].op.kind # "judge") => req'[r].i \in DOMAIN (Rows(r)')
    OBVIOUS
  <2>3. (req'[r].pc = "flush" /\ req'[r].op.kind = "upload") => Rows(r)'[req'[r].i].valid
    OBVIOUS
  <2>4. \A j \in DOMAIN req'[r].todo : req'[r].todo[j] \in DOMAIN req'[r].base
    BY <1>3
  <2>5. req'[r].op.kind # "upload" => req'[r].job = NoJob /\ req'[r].observed = {}
    BY <1>3
  <2>6. \A x, y \in req'[r].added : x.id = y.id => x = y
    BY <1>3
  <2> QED
    BY <1>2, <1>3, <1>4, <2>1, <2>2, <2>3, <2>4, <2>5, <2>6 DEF Progress
<1>7. AuditOf(r)' /\ \A q \in Requests : Audited(q)' <=> Audited(q)
  BY AuditQuiet
<1>8. CountOf(r)'
  BY <1>1 DEF CountOf
<1>9. \A f : Claims(r, f)' => Claims(r, f)
  BY <1>2 DEF Claims
<1> QED
  BY <1>6, <1>7, <1>8, <1>9, ActsKeep
\* After the i-th row of its file, an upload is through i rows.
LEMMA ThroughNext ==
  ASSUME Types, NEW r \in Requests, Progress(r), req[r].pc \in {"row", "flush"},
         req[r].op.kind = "upload", req'[r].op = req[r].op,
         req'[r].pc = After(r, req[r].i).pc, req'[r].i = After(r, req[r].i).i
  PROVE  /\ Through(r)' = req[r].i /\ Through(r) = req[r].i - 1
         /\ req[r].i \in DOMAIN Rows(r) /\ req[r].i \in Nat \ {0}
         /\ Rows(r) = RowsOf(req[r].op.file)
         /\ req'[r].pc \in {"row", "audit"}
         /\ req'[r].pc = "row" => req'[r].i \in DOMAIN Rows(r)
<1>1. req[r].i \in DOMAIN Rows(r)
  BY DEF Progress
<1>2. /\ Len(Rows(r)) \in Nat /\ DOMAIN Rows(r) = 1..Len(Rows(r))
      /\ Rows(r) = RowsOf(req[r].op.file)
  BY RowsFacts
<1> DEFINE n == Len(Rows(r))
           i == req[r].i
<1>3. i \in 1..n /\ n \in Nat
  BY <1>1, <1>2
<1>4. /\ i < n => req'[r].pc = "row" /\ req'[r].i = i + 1
      /\ ~ (i < n) => req'[r].pc = "audit" /\ req'[r].i = i
  BY <1>3, AfterFacts
<1> HIDE DEF n, i
<1>5. Through(r)' = i
  <2>1. CASE i < n
    BY <1>3, <1>4, <2>1 DEF Through
  <2>2. CASE ~ (i < n)
    BY <1>2, <1>3, <1>4, <2>2 DEF Through, n
  <2> QED
    BY <2>1, <2>2
<1> QED
  BY <1>1, <1>2, <1>3, <1>4, <1>5 DEF Through, n, i

LEMMA RejectKeeps ==
  ASSUME IInv, NEW r \in Requests, Look(r), ~ Rows(r)[req[r].i].valid
  PROVE  JobsInv' /\ CountsInv'
<1>1. /\ Types /\ Progress(r) /\ CountOf(r) /\ LoadedSound(r) /\ IsReq(req[r]) /\ req[r].pc = "row"
      /\ day' = day /\ jobs' = jobs /\ observed' = observed /\ audits' = audits
  BY DEF IInv, Types, JobsInv, CountsInv, RowsInv, Look
<1> DEFINE kinds == {"total", "rejected"}
           c == Counted(r, kinds)
           job == [req[r].job EXCEPT !.count = c]
           pc == After(r, req[r].i).pc
           i == After(r, req[r].i).i
           t == req'[r]
<1>2. Only(r) /\ t = [req[r] EXCEPT !.job = job, !.pc = pc, !.i = i]
  BY <1>1, RejectEffect
<1>3. c \in Count /\ req[r].job \in Job /\ req[r].job.count \in Count
  BY <1>1, CountedType DEF IsReq, Job
<1>4. /\ c.total = req[r].job.count.total + 1 /\ c.rejected = req[r].job.count.rejected + 1
      /\ c.accepted = req[r].job.count.accepted /\ c.review = req[r].job.count.review
      /\ c.duplicate = req[r].job.count.duplicate
      /\ c.created = req[r].job.count.created /\ c.updated = req[r].job.count.updated
  <2>1. \A x \in {"total", "accepted", "rejected", "review", "duplicate", "created", "updated"} :
          c[x] = req[r].job.count[x] + (IF x \in kinds THEN 1 ELSE 0)
    BY <1>1, CountedType
  <2> HIDE DEF c
  <2> QED
    BY <1>3, <2>1 DEF Count
<1> HIDE DEF c
<1>5. job.count = c
  BY <1>3 DEF Job
<1> HIDE DEF job, pc, i
<1>6. /\ t.op = req[r].op /\ t.todo = req[r].todo /\ t.emitted = req[r].emitted
      /\ t.added = req[r].added /\ t.base = req[r].base /\ t.job = job /\ t.observed = req[r].observed
      /\ t.pc = pc /\ t.i = i
  BY <1>1, <1>2 DEF IsReq
<1> HIDE DEF t
<1>7. t.job = [req[r].job EXCEPT !.count = t.job.count]
  BY <1>5, <1>6 DEF job
<1>8. req[r].op.kind = "upload"
  BY <1>1, RowType
<1>9. /\ Through(r)' = req[r].i /\ Through(r) = req[r].i - 1
      /\ req[r].i \in DOMAIN Rows(r) /\ req[r].i \in Nat \ {0}
      /\ Rows(r) = RowsOf(req[r].op.file)
      /\ t.pc \in {"row", "audit"}
      /\ t.pc = "row" => t.i \in DOMAIN Rows(r)
  BY <1>1, <1>6, <1>8, ThroughNext DEF t, pc, i
<1>10. Rows(r)' = Rows(r)
  BY <1>6, RowsSame DEF t
<1>11. t.job.status = "completed" =>
         CountsUpTo(t.job.count, t.observed, RowsOf(req[r].op.file), Through(r)')
  <2> SUFFICES ASSUME t.job.status = "completed"
               PROVE  CountsUpTo(c, req[r].observed, Rows(r), req[r].i)
    BY <1>5, <1>6, <1>9
  <2>1. req[r].job.status = "completed"
    BY <1>3, <1>7 DEF Job
  <2> DEFINE n == req[r].i - 1
  <2>2. CountsUpTo(req[r].job.count, req[r].observed, Rows(r), n)
    BY <1>1, <1>9, <2>1 DEF CountOf
  <2>3. n \in Nat /\ n + 1 = req[r].i /\ ~ Rows(r)[n + 1].valid
    BY <1>9
  <2> HIDE DEF n
  <2>4. CountsUpTo(c, req[r].observed, Rows(r), n + 1)
    BY <1>3, <1>4, <2>2, <2>3, CountsReject
  <2> QED
    BY <2>3, <2>4
<1>12. \A o \in t.observed : o[1] = r
  BY <1>1, <1>6 DEF CountOf
<1> QED
  BY <1>1, <1>2, <1>6, <1>7, <1>8, <1>9, <1>10, <1>11, <1>12, PassKeeps DEF t

LEMMA UpsertKeeps ==
  ASSUME IInv, NEW r \in Requests, Look(r), Rows(r)[req[r].i].valid
  PROVE  JobsInv' /\ CountsInv'
<1> DEFINE row == Rows(r)[req[r].i]
           t == req'[r]
<1>1. /\ Types /\ LoadedSound(r) /\ Progress(r) /\ CountOf(r) /\ IsReq(req[r]) /\ req[r].pc = "row"
      /\ Upsert(r, row)
      /\ day' = day /\ jobs' = jobs /\ observed' = observed /\ audits' = audits
  BY DEF IInv, Types, RowsInv, JobsInv, CountsInv, Look
<1>2. row \in Row
  BY <1>1, RowType
<1> HIDE DEF row
<1>3. Only(r)
  BY <1>1, <1>2, UpsertEffect
<1>4. PICK s \in Slots, review \in BOOLEAN, old \in Existing \cup {NoDevice},
           plan \in Existing :
        /\ t = [req[r] EXCEPT !.pc = "flush", !.slot = s, !.base = Put(@, s, old),
                              !.review = review, !.plan = plan]
        /\ \/ /\ View(r)[s] # NoDevice /\ old # NoDevice /\ Keeps(old, plan)
              /\ old = IF s \in DOMAIN req[r].base THEN req[r].base[s] ELSE View(r)[s]
           \/ s \in Fresh /\ old = NoDevice /\ s \notin DOMAIN req[r].base
  BY <1>1, <1>2, UpsertEffect
<1> DEFINE base == Put(req[r].base, s, old)
<1>5. DOMAIN req[r].base \subseteq DOMAIN base
  BY DEF Put
<1> HIDE DEF base
<1>6. /\ t.pc = "flush" /\ t.base = base /\ t.i = req[r].i /\ t.op = req[r].op
      /\ t.todo = req[r].todo /\ t.emitted = req[r].emitted /\ t.added = req[r].added
      /\ t.job = req[r].job /\ t.observed = req[r].observed
  BY <1>1, <1>4 DEF IsReq, base
<1> HIDE DEF t
<1>7. /\ req[r].op.kind \in {"upload", "rule", "renormalize"} /\ req[r].i \in DOMAIN Rows(r)
      /\ req[r].job \in Job
  BY <1>1 DEF Progress, IsReq
<1>8. Rows(r)' = Rows(r) \/ (req[r].op.kind # "upload" /\ DOMAIN (Rows(r)') = DOMAIN Rows(r))
  <2>1. CASE req[r].op.kind = "upload"
    BY <1>6, <2>1, RowsSame DEF t
  <2>2. CASE req[r].op.kind # "upload"
    BY <1>6, <2>2 DEF Rows, t
  <2> QED
    BY <2>1, <2>2
<1>9. t.job = [req[r].job EXCEPT !.count = t.job.count]
  BY <1>6, <1>7 DEF Job
<1>10. Through(r)' = Through(r)
  BY <1>1, <1>6 DEF Through, t
<1>11. /\ \A o \in t.observed : o[1] = r
       /\ t.job.status = "completed" =>
            CountsUpTo(t.job.count, t.observed, RowsOf(req[r].op.file), Through(r)')
  BY <1>1, <1>6, <1>10 DEF CountOf
<1> QED
  BY <1>1, <1>3, <1>5, <1>6, <1>7, <1>8, <1>9, <1>11, PassKeeps DEF t
\* How the row that r writes counts.
LEMMA TallyCounts ==
  ASSUME Types, NEW r \in Requests, req[r].i \in Nat \ {0}
  PROVE  LET count == req[r].job.count
             c == Counted(r, Tally(r))
         IN /\ c \in Count /\ count \in Count
            /\ c.total = count.total + 1 /\ c.rejected = count.rejected
            /\ c.created + c.updated = count.created + count.updated + 1
            /\ IF SeenBefore(r)
               THEN /\ c.duplicate = count.duplicate + 1
                    /\ c.accepted + c.review = count.accepted + count.review
               ELSE /\ c.duplicate = count.duplicate
                    /\ c.accepted + c.review = count.accepted + count.review + 1
<1> DEFINE count == req[r].job.count
           c == Counted(r, Tally(r))
<1>1. c \in Count /\ count \in Count
  BY CountedType DEF Types, IsReq, Job
<1>2. \A x \in {"total", "accepted", "rejected", "review", "duplicate", "created", "updated"} :
        c[x] = count[x] + (IF x \in Tally(r) THEN 1 ELSE 0)
  BY CountedType
<1>3. /\ "total" \in Tally(r) /\ "rejected" \notin Tally(r)
      /\ ("created" \in Tally(r)) # ("updated" \in Tally(r))
      /\ "duplicate" \in Tally(r) <=> SeenBefore(r)
      /\ SeenBefore(r) => "accepted" \notin Tally(r) /\ "review" \notin Tally(r)
      /\ ~ SeenBefore(r) => ("accepted" \in Tally(r)) # ("review" \in Tally(r))
  <2> DEFINE s == SeenBefore(r)
             n == req[r].base[req[r].slot] = NoDevice
             f == req[r].review
  <2>1. Tally(r) = {"total", IF n THEN "created" ELSE "updated",
                    IF s THEN "duplicate" ELSE IF f THEN "review" ELSE "accepted"}
    BY DEF Tally
  <2> HIDE DEF s, n, f
  <2>2. /\ "total" \in Tally(r) /\ "rejected" \notin Tally(r)
        /\ "created" \in Tally(r) <=> n
        /\ "updated" \in Tally(r) <=> ~ n
        /\ "duplicate" \in Tally(r) <=> s
        /\ "review" \in Tally(r) <=> ~ s /\ f
        /\ "accepted" \in Tally(r) <=> ~ s /\ ~ f
    BY <2>1
  <2> QED
    BY <2>2 DEF s
<1> HIDE DEF c, count
<1>4. /\ c.total = count.total + 1 /\ c.rejected = count.rejected
      /\ c.created + c.updated = count.created + count.updated + 1
  BY <1>1, <1>2, <1>3 DEF Count
<1>5. CASE SeenBefore(r)
  <2>1. /\ c.duplicate = count.duplicate + 1
        /\ c.accepted + c.review = count.accepted + count.review
    BY <1>1, <1>2, <1>3, <1>5 DEF Count
  <2> QED
    BY <1>1, <1>4, <1>5, <2>1 DEF c, count
<1>6. CASE ~ SeenBefore(r)
  <2>1. /\ c.duplicate = count.duplicate
        /\ c.accepted + c.review = count.accepted + count.review + 1
    BY <1>1, <1>2, <1>3, <1>6 DEF Count
  <2> QED
    BY <1>1, <1>4, <1>6, <2>1 DEF c, count
<1> QED
  BY <1>5, <1>6

LEMMA FlushKeeps ==
  ASSUME IInv, NEW r \in Requests, Flush(r)
  PROVE  JobsInv' /\ CountsInv'
<1> DEFINE W == Written(r)
           t == req'[r]
           b == [req[r].base EXCEPT ![req[r].slot] = req[r].plan]
           l == Put(req[r].locked, req[r].slot, Merged(r))
           pc == After(r, req[r].i).pc
           i == After(r, req[r].i).i
<1>1. /\ Types /\ LoadedSound(r) /\ PlanSound(r) /\ Progress(r) /\ CountOf(r) /\ IsReq(req[r])
      /\ req[r].pc = "flush"
      /\ day' = day /\ jobs' = jobs /\ observed' = observed /\ audits' = audits
  BY DEF IInv, Types, RowsInv, JobsInv, CountsInv, Flush
<1>2. /\ Only(r)
      /\ req[r].op.kind = "judge" => t = [W EXCEPT !.pc = "returned"]
      /\ req[r].op.kind \notin {"judge", "upload"} => t = [W EXCEPT !.pc = pc, !.i = i]
      /\ req[r].op.kind = "upload" =>
           t = [W EXCEPT !.pc = pc, !.i = i, !.job = [@ EXCEPT !.count = Counted(r, Tally(r))],
                         !.observed = @ \cup {<<r, req[r].i, req[r].slot>>}]
  BY <1>1, FlushEffect
<1>3. W = [req[r] EXCEPT !.locked = l, !.base = b] /\ DOMAIN b = DOMAIN req[r].base
  BY DEF Written
<1> HIDE DEF b, l, W, pc, i
<1>4. /\ DOMAIN W = DOMAIN req[r]
      /\ W.op = req[r].op /\ W.todo = req[r].todo /\ W.emitted = req[r].emitted
      /\ W.added = req[r].added /\ W.base = b /\ W.job = req[r].job /\ W.observed = req[r].observed
  BY <1>1, <1>3 DEF IsReq
<1>5. {"pc", "i", "op", "todo", "emitted", "added", "base", "job", "observed"} \subseteq DOMAIN W
  BY <1>1, <1>4 DEF IsReq
<1>6. req[r].job \in Job /\ req[r].op.kind # "load" /\ req[r].i \in Nat
  BY <1>1 DEF Progress, IsReq
<1>7. req[r].job = [req[r].job EXCEPT !.count = req[r].job.count]
  BY <1>6 DEF Job
<1>8. req[r].op.kind # "upload" => req[r].job = NoJob /\ req[r].observed = {}
  BY <1>1 DEF Progress
<1>9. NoJob.status # "completed"
  BY DEF NoJob, None
<1>10. ASSUME t.op = req[r].op, t.todo = req[r].todo, req[r].op.kind # "upload"
       PROVE  DOMAIN (Rows(r)') = DOMAIN Rows(r)
  BY <1>10 DEF Rows
<1>11. CASE req[r].op.kind = "judge"
  <2>1. t = [W EXCEPT !.pc = "returned"]
    BY <1>2, <1>11
  <2>2. /\ t.pc = "returned" /\ t.op = req[r].op /\ t.todo = req[r].todo
        /\ t.emitted = req[r].emitted /\ t.added = req[r].added /\ t.base = b
        /\ t.job = req[r].job /\ t.observed = req[r].observed
    BY <1>4, <1>5, <2>1
  <2> HIDE DEF t
  <2>3. DOMAIN (Rows(r)') = DOMAIN Rows(r)
    BY <1>10, <1>11, <2>2
  <2> QED
    BY <1>1, <1>2, <1>3, <1>7, <1>8, <1>9, <1>11, <2>2, <2>3, PassKeeps DEF t
<1>12. CASE req[r].op.kind \notin {"judge", "upload"}
  <2>1. t = [W EXCEPT !.pc = pc, !.i = i]
    BY <1>2, <1>12
  <2>2. /\ t.pc = pc /\ t.i = i /\ t.op = req[r].op /\ t.todo = req[r].todo
        /\ t.emitted = req[r].emitted /\ t.added = req[r].added /\ t.base = b
        /\ t.job = req[r].job /\ t.observed = req[r].observed
    BY <1>4, <1>5, <2>1
  <2> HIDE DEF t
  <2>3. DOMAIN (Rows(r)') = DOMAIN Rows(r)
    BY <1>10, <1>12, <2>2
  <2>4. req[r].i \in DOMAIN Rows(r) /\ Len(Rows(r)) \in Nat /\ DOMAIN Rows(r) = 1..Len(Rows(r))
    BY <1>1, <1>12, RowsFacts DEF Progress
  <2>5. /\ pc \in {"row", "commit"}
        /\ pc = "row" => i \in DOMAIN Rows(r)
    BY <1>1, <1>6, <1>12, <2>4, AfterFacts DEF pc, i
  <2> QED
    BY <1>1, <1>2, <1>3, <1>7, <1>8, <1>9, <1>12, <2>2, <2>3, <2>5, PassKeeps DEF t
<1>13. CASE req[r].op.kind = "upload"
  <2> DEFINE c == Counted(r, Tally(r))
             job == [W.job EXCEPT !.count = c]
             o == <<r, req[r].i, req[r].slot>>
             seen == W.observed \cup {o}
  <2>1. t = [W EXCEPT !.pc = pc, !.i = i, !.job = job, !.observed = seen]
    BY <1>2, <1>13
  <2>2. o[1] = r /\ o[2] = req[r].i
    OBVIOUS
  <2> HIDE DEF c, o
  <2>3. job = [req[r].job EXCEPT !.count = c] /\ job.count = c /\ job.status = req[r].job.status
    BY <1>4, <1>6 DEF Job
  <2>4. seen = req[r].observed \cup {o}
    BY <1>4
  <2> HIDE DEF job, seen
  <2>5. /\ t.pc = pc /\ t.i = i /\ t.op = req[r].op /\ t.todo = req[r].todo
        /\ t.emitted = req[r].emitted /\ t.added = req[r].added /\ t.base = b
        /\ t.job = job /\ t.observed = seen
    BY <1>4, <1>5, <2>1
  <2> HIDE DEF t
  <2>6. t.job = [req[r].job EXCEPT !.count = t.job.count]
    BY <2>3, <2>5
  <2>7. /\ Through(r)' = req[r].i /\ Through(r) = req[r].i - 1
        /\ req[r].i \in DOMAIN Rows(r) /\ req[r].i \in Nat \ {0}
        /\ Rows(r) = RowsOf(req[r].op.file)
        /\ t.pc \in {"row", "audit"}
        /\ t.pc = "row" => t.i \in DOMAIN Rows(r)
    BY <1>1, <1>13, <2>5, ThroughNext DEF t, pc, i
  <2>8. Rows(r)' = Rows(r)
    BY <1>13, <2>5, RowsSame DEF t
  <2>9. t.job.status = "completed" =>
          CountsUpTo(t.job.count, t.observed, RowsOf(req[r].op.file), Through(r)')
    <3> SUFFICES ASSUME t.job.status = "completed"
                 PROVE  CountsUpTo(c, req[r].observed \cup {o}, Rows(r), req[r].i)
      BY <2>3, <2>4, <2>5, <2>7
    <3> DEFINE n == req[r].i - 1
               count == req[r].job.count
    <3>1. CountsUpTo(count, req[r].observed, Rows(r), n)
      BY <1>1, <2>3, <2>5, <2>7 DEF CountOf
    <3>2. n \in Nat /\ n + 1 = req[r].i /\ Rows(r)[n + 1].valid
      BY <1>1, <1>13, <2>7 DEF Progress
    <3>3. /\ c \in Count /\ count \in Count
          /\ c.total = count.total + 1 /\ c.rejected = count.rejected
          /\ c.created + c.updated = count.created + count.updated + 1
          /\ IF SeenBefore(r)
             THEN /\ c.duplicate = count.duplicate + 1
                  /\ c.accepted + c.review = count.accepted + count.review
             ELSE /\ c.duplicate = count.duplicate
                  /\ c.accepted + c.review = count.accepted + count.review + 1
      BY <1>1, <2>7, TallyCounts DEF c
    <3>4. SeenBefore(r) <=> \E j \in 1..n : Rows(r)[j].valid /\ Key(Rows(r)[j]) = Key(Rows(r)[n + 1])
      BY <3>2 DEF SeenBefore
    <3> HIDE DEF n, count
    <3>5. CountsUpTo(c, req[r].observed \cup {o}, Rows(r), n + 1)
      BY <2>2, <3>1, <3>2, <3>3, <3>4, CountsWrite
    <3> QED
      BY <3>2, <3>5
  <2>10. \A x \in t.observed : x[1] = r
    BY <1>1, <2>2, <2>4, <2>5 DEF CountOf
  <2> QED
    BY <1>1, <1>2, <1>3, <1>13, <2>5, <2>6, <2>7, <2>8, <2>9, <2>10, PassKeeps DEF t
<1> QED
  BY <1>11, <1>12, <1>13
\* The last steps of a handler and of its dependencies.
LEMMA MoveKeeps ==
  ASSUME IInv, NEW r \in Requests, Only(r), NEW pc \in {"audit commit", "returned", "commit"},
         req'[r].pc = pc, req'[r].emitted <= day, req'[r].op = req[r].op, req'[r].job = req[r].job,
         req'[r].observed = req[r].observed, req'[r].todo = req[r].todo,
         req'[r].base = req[r].base, req'[r].added = req[r].added,
         req[r].pc \in {"audit", "audit commit", "returned"},
         pc = "audit commit" => req[r].op.kind = "upload",
         day' = day, jobs' = jobs, observed' = observed,
         AuditOf(r)', \A q \in Requests \ {r} : Audited(q)' <=> Audited(q)
  PROVE  JobsInv' /\ CountsInv'
<1>1. Types /\ Progress(r) /\ CountOf(r) /\ IsReq(req[r])
  BY DEF IInv, Types, JobsInv, CountsInv
<1>2. req[r].pc \in Active \ {"job"} /\ pc \in Active \ {"job"}
  BY DEF Active, Handling
<1>3. Progress(r)'
  BY <1>1, <1>2 DEF Progress
<1>4. Through(r)' = Through(r)
  BY DEF Through
<1>5. CountOf(r)'
  BY <1>1, <1>4 DEF CountOf
<1>6. \A f : Claims(r, f)' => Claims(r, f)
  BY DEF Claims
<1> QED
  BY <1>3, <1>5, <1>6, ActsKeep

LEMMA EmitKeeps ==
  ASSUME IInv, NEW r \in Requests, Emit(r) \/ AuditCommit(r) \/ Teardown(r)
  PROVE  JobsInv' /\ CountsInv'
<1>1. /\ Types /\ Progress(r) /\ AuditOf(r) /\ IsReq(req[r]) /\ day \in Nat
      /\ day' = day /\ jobs' = jobs /\ observed' = observed
  <2>1. LastDay \in Nat /\ day \in 0..LastDay
    BY ConstantsAssumption DEF IInv, Types
  <2>2. Types /\ Progress(r) /\ AuditOf(r) /\ IsReq(req[r])
    BY DEF IInv, Types, JobsInv
  <2>3. day \in Nat
    BY <2>1
  <2>4. day' = day /\ jobs' = jobs /\ observed' = observed
    BY DEF Emit, AuditCommit, Teardown
  <2> QED
    BY <2>2, <2>3, <2>4
<1>2. req[r].emitted <= day /\ day <= day
  <2>1. req[r].emitted <= day
    BY <1>1 DEF Progress
  <2>2. day <= day
    BY <1>1
  <2> QED
    BY <2>1, <2>2
<1> DEFINE Fields(t) ==
       /\ t.op = req[r].op /\ t.job = req[r].job /\ t.observed = req[r].observed
       /\ t.todo = req[r].todo /\ t.base = req[r].base /\ t.added = req[r].added
<1>3. CASE Emit(r)
  <2>1. /\ req[r].pc = "audit" /\ audits' = audits
        /\ Only(r) /\ req'[r] = [req[r] EXCEPT !.pc = "audit commit", !.emitted = day]
    BY <1>1, <1>3, EmitEffect DEF Emit
  <2>2. /\ req'[r].pc = "audit commit" /\ req[r].op.kind = "upload"
        /\ req'[r].emitted = day /\ Fields(req'[r])
    BY <1>1, <2>1 DEF IsReq, Progress
  <2>3. AuditOf(r)' /\ \A q \in Requests : Audited(q)' <=> Audited(q)
    BY <1>1, <2>1, <2>2, AuditQuiet
  <2> QED
    BY <1>1, <1>2, <2>1, <2>2, <2>3, MoveKeeps
<1>4. CASE AuditCommit(r)
  <2>1. /\ req[r].pc = "audit commit" /\ Only(r) /\ req'[r] = [req[r] EXCEPT !.pc = "returned"]
        /\ audits' = audits \cup {[req |-> r, day |-> req[r].emitted, on |-> day]}
    BY <1>1, <1>4, AuditCommitEffect DEF AuditCommit
  <2>2. /\ req'[r].pc = "returned" /\ req[r].op.kind = "upload"
        /\ req'[r].emitted = req[r].emitted /\ Fields(req'[r])
    BY <1>1, <2>1 DEF IsReq, Progress
  <2>3. Audited(r)' /\ \A q \in Requests \ {r} : Audited(q)' <=> Audited(q)
    <3> DEFINE new == [req |-> r, day |-> req[r].emitted, on |-> day]
    <3>1. new.req = r /\ audits' = audits \cup {new}
      BY <2>1
    <3> HIDE DEF new
    <3> QED
      BY <3>1 DEF Audited
  <2>4. AuditOf(r)'
    BY <1>1, <2>1, <2>2, <2>3 DEF AuditOf
  <2> QED
    BY <1>1, <1>2, <2>1, <2>2, <2>3, <2>4, MoveKeeps
<1>5. CASE Teardown(r)
  <2>1. /\ req[r].pc = "returned" /\ Only(r) /\ req'[r] = [req[r] EXCEPT !.pc = "commit"]
        /\ audits' = audits
    BY <1>1, <1>5, TeardownEffect DEF Teardown
  <2>2. /\ req'[r].pc = "commit" /\ req'[r].emitted = req[r].emitted /\ Fields(req'[r])
    BY <1>1, <2>1 DEF IsReq
  <2>3. \A q \in Requests : Audited(q)' <=> Audited(q)
    BY <2>1 DEF Audited
  <2>4. AuditOf(r)'
    BY <1>1, <2>1, <2>2, <2>3 DEF AuditOf
  <2> QED
    BY <1>1, <1>2, <2>1, <2>2, <2>3, <2>4, MoveKeeps
<1> QED
  BY <1>3, <1>4, <1>5

LEMMA CommitKeeps ==
  ASSUME IInv, NEW r \in Requests, Commit(r)
  PROVE  JobsInv' /\ CountsInv'
<1>1. /\ Types /\ FilesApart /\ Progress(r) /\ AuditOf(r) /\ CountOf(r) /\ IsReq(req[r])
      /\ req[r].pc = "commit" /\ day \in Nat /\ "done" \in Ended
      /\ day' = day /\ jobs' = [jobs EXCEPT ![r] = req[r].job]
      /\ observed' = observed \cup req[r].observed /\ audits' = audits
  <2>1. LastDay \in Nat
    BY ConstantsAssumption
  <2> QED
    BY <2>1 DEF IInv, Types, JobsInv, CountsInv, Commit, Ended
<1>2. req'[r] = Over(r, "done") /\ \A q \in Requests \ {r} : Same(q)
  BY <1>1, CommitEffect
<1>3. /\ Progress(r)' /\ req'[r].job = NoJob /\ req'[r].observed = {} /\ req'[r].pc = "done"
      /\ req'[r].op = req[r].op
  BY <1>1, <1>2, OverKept
<1>4. NoJob.status = None /\ None # "completed"
  BY DEF NoJob, None
<1>5. /\ jobs'[r] = req[r].job /\ \A q \in Requests \ {r} : jobs'[q] = jobs[q]
  BY <1>1 DEF Types
<1>6. \A q \in Requests : Audited(q)' <=> Audited(q)
  BY <1>1 DEF Audited
<1>7. /\ req[r].op.kind = "upload" => req[r].job.status # None /\ req[r].job.file = req[r].op.file
                                     /\ req[r].op.file \in Files
      /\ req[r].op.kind # "upload" => req[r].job = NoJob /\ req[r].observed = {}
  BY <1>1 DEF Progress, Active
<1>8. AuditOf(r)'
  BY <1>1, <1>3, <1>4, <1>5, <1>6, <1>7 DEF AuditOf
<1>9. CountOf(r)'
  <2>1. jobs[r].status = None
    BY <1>1 DEF AuditOf
  <2>2. \A o \in observed : o[1] # r
    BY <1>1, <2>1 DEF CountOf
  <2>3. \A o \in req[r].observed : o[1] = r
    BY <1>1 DEF CountOf
  <2>4. {o \in observed' : o[1] = r} = req[r].observed
    BY <1>1, <2>2, <2>3
  <2>5. Through(r) = Len(RowsOf(req[r].op.file))
    BY <1>1 DEF Through
  <2>6. jobs'[r].status = "completed" =>
          /\ jobs'[r].file \in Files
          /\ CountsUpTo(jobs'[r].count, {o \in observed' : o[1] = r}, RowsOf(jobs'[r].file),
                        Len(RowsOf(jobs'[r].file)))
    <3> SUFFICES ASSUME req[r].job.status = "completed"
                 PROVE  /\ req[r].job.file \in Files
                        /\ CountsUpTo(req[r].job.count, req[r].observed, RowsOf(req[r].job.file),
                                      Len(RowsOf(req[r].job.file)))
      BY <1>5, <2>4
    <3>1. req[r].job.file = req[r].op.file /\ req[r].op.file \in Files
      BY <1>4, <1>7
    <3> QED
      BY <1>1, <2>5, <3>1 DEF CountOf
  <2>7. jobs'[r].status = None => \A o \in observed' : o[1] # r
    BY <1>1, <1>5, <1>7, <2>2
  <2> QED
    BY <1>3, <1>4, <2>6, <2>7 DEF CountOf
<1>10. \A f : Claims(r, f)' => Claims(r, f)
  BY <1>3, <1>4, <1>5 DEF Claims
<1>11. ASSUME NEW q \in Requests \ {r}
       PROVE  /\ Progress(q)' /\ AuditOf(q)' /\ CountOf(q)'
              /\ \A f : Claims(q, f)' <=> Claims(q, f)
  <2>1. \A o \in req[r].observed : o[1] = r
    BY <1>1 DEF CountOf
  <2>2. {o \in observed' : o[1] = q} = {o \in observed : o[1] = q}
    BY <1>1, <2>1
  <2>3. day' \in Int /\ day <= day'
    BY <1>1
  <2> QED
    BY <1>2, <1>5, <1>6, <2>2, <2>3, OthersKept
<1>12. FilesApart'
  BY <1>1, <1>10, <1>11 DEF FilesApart
<1> QED
  BY <1>3, <1>8, <1>9, <1>11, <1>12 DEF JobsInv, CountsInv

LEMMA CrashKeeps ==
  ASSUME IInv, NEW p \in Processes, Crash(p)
  PROVE  JobsInv' /\ CountsInv'
<1>1. /\ FilesApart /\ day \in Nat /\ "crashed" \in Ended
      /\ day' = day /\ jobs' = jobs /\ observed' = observed /\ audits' = audits
  <2>1. LastDay \in Nat
    BY ConstantsAssumption
  <2> QED
    BY <2>1 DEF IInv, Types, JobsInv, Crash, Ended
<1>2. NoJob.status = None /\ None # "completed"
  BY DEF NoJob, None
<1>3. \A q \in Requests : Audited(q)' <=> Audited(q)
  BY <1>1 DEF Audited
<1>4. ASSUME NEW q \in Requests
      PROVE  /\ Progress(q)' /\ AuditOf(q)' /\ CountOf(q)'
             /\ \A f : Claims(q, f)' => Claims(q, f)
  <2>1. CASE Same(q)
    BY <1>1, <1>3, <2>1, OthersKept
  <2>2. CASE req[q].pc \in Active /\ req'[q] = Over(q, "crashed")
    <3>1. req[q].pc \notin {"idle", "done"}
      BY <2>2 DEF Active, Handling
    <3>2. /\ Progress(q)' /\ req'[q].job = NoJob /\ req'[q].observed = {} /\ req'[q].pc = "crashed"
          /\ req'[q].op = req[q].op
      BY <1>1, <2>2, <3>1, OverKept
    <3>3. AuditOf(q)
      BY DEF IInv, JobsInv
    <3>4. AuditOf(q)'
      BY <1>1, <1>3, <3>1, <3>2, <3>3 DEF AuditOf
    <3>5. CountOf(q)'
      BY <1>1, <1>2, <3>2, CountNothing
    <3>6. \A f : Claims(q, f)' => Claims(q, f)
      BY <1>1, <1>2, <3>2 DEF Claims
    <3> QED
      BY <3>2, <3>4, <3>5, <3>6
  <2> QED
    BY <2>1, <2>2, CrashEffect
<1>5. FilesApart'
  BY <1>1, <1>4 DEF FilesApart
<1> QED
  BY <1>4, <1>5 DEF JobsInv, CountsInv

LEMMA JobsCountsStep ==
  ASSUME IInv, Next
  PROVE  JobsInv' /\ CountsInv'
<1>1. ASSUME NEW r \in Requests, Look(r) PROVE JobsInv' /\ CountsInv'
  BY <1>1, RejectKeeps, UpsertKeeps
<1>2. ASSUME NEW r \in Requests, FlushRaises(r) \/ DeadlockVictim(r) PROVE JobsInv' /\ CountsInv'
  <2>1. req[r].pc \in {"job", "load", "flush"}
    BY <1>2 DEF FlushRaises, DeadlockVictim, Blockers
  <2> QED
    BY <1>2, <2>1, EndKeeps DEF FlushRaises, DeadlockVictim
<1>3. CASE Midnight \/ (\E d \in 0..LastDay : SealRead(d)) \/ SealCommit
  <2>1. /\ req' = req /\ jobs' = jobs /\ observed' = observed /\ audits' = audits
        /\ day' \in Int /\ day <= day' /\ FilesApart
    <3>1. day \in Int
      BY DEF IInv, Types
    <3> QED
      BY <1>3, <3>1 DEF IInv, JobsInv, Midnight, SealRead, SealCommit
  <2>2. \A q \in Requests : /\ Progress(q)' /\ AuditOf(q)' /\ CountOf(q)'
                            /\ \A f : Claims(q, f)' <=> Claims(q, f)
    BY <2>1, OthersKept DEF Same, Audited
  <2>3. FilesApart'
    BY <2>1, <2>2 DEF FilesApart
  <2> QED
    BY <2>2, <2>3 DEF JobsInv, CountsInv
<1>4. ASSUME NEW r \in Requests, Step(r) PROVE JobsInv' /\ CountsInv'
  BY <1>1, <1>2, <1>4, InsertJobKeeps, LoadCatalogKeeps, FlushKeeps, EmitKeeps, CommitKeeps DEF Step
<1> QED
  BY <1>3, <1>4, BeginKeeps, CrashKeeps DEF Next
---------------------------------------------------------------------------
(* The seal.                                                               *)

\* A seal covers what was audited on its day: the day is over when it is read.
LEMMA SealStep ==
  ASSUME IInv, Next
  PROVE  SealInv'
<1>1. /\ SealInv /\ day \in 0..LastDay /\ LastDay \in Nat
  BY ConstantsAssumption DEF IInv, Types
<1>2. ASSUME day <= day', day' \in Int, \A a \in audits' \ audits : a.on = day
      PROVE  \A d \in 0..LastDay : \A rows : Sealing(d, rows) => Sealing(d, rows)'
  BY <1>1, <1>2 DEF Sealing
<1>3. ASSUME heads' = heads, sealer' = sealer, day <= day', day' \in Int,
             \A a \in audits' \ audits : a.on = day
      PROVE  SealInv'
  <2>1. \A d \in 0..LastDay : \A rows : Sealing(d, rows) => Sealing(d, rows)'
    BY <1>2, <1>3
  <2> QED
    BY <1>1, <1>3, <2>1 DEF SealInv
<1>4. ASSUME NEW r \in Requests, Begin(r) PROVE SealInv'
  <2>1. heads' = heads /\ sealer' = sealer /\ day' = day /\ audits' = audits
    BY <1>4 DEF Begin
  <2> QED
    BY <1>1, <1>3, <2>1
<1>5. ASSUME NEW r \in Requests, Step(r) PROVE SealInv'
  <2>1. heads' = heads /\ sealer' = sealer /\ day' = day /\ (audits' = audits \/ AuditCommit(r))
    BY <1>5, StepFrame
  <2>2. \A a \in audits' \ audits : a.on = day
    <3> DEFINE new == [req |-> r, day |-> req[r].emitted, on |-> day]
    <3>1. new.on = day /\ (AuditCommit(r) => audits' = audits \cup {new})
      BY DEF AuditCommit
    <3> HIDE DEF new
    <3> QED
      BY <2>1, <3>1
  <2> QED
    BY <1>1, <1>3, <2>1, <2>2
<1>6. ASSUME NEW p \in Processes, Crash(p) PROVE SealInv'
  BY <1>1, <1>3, <1>6 DEF Crash
<1>7. CASE Midnight
  BY <1>1, <1>3, <1>7 DEF Midnight
<1>8. ASSUME NEW d \in 0..LastDay, SealRead(d) PROVE SealInv'
  <2>1. /\ d < day /\ sealer' = [day |-> d, rows |-> {a \in audits : a.day = d}]
        /\ heads' = heads /\ audits' = audits /\ day' = day
    BY <1>1, <1>8 DEF SealRead, Refuses
  <2>2. sealer'.day = d /\ sealer'.rows = {a \in audits : a.day = d}
    BY <2>1
  <2>3. Sealing(sealer.day, sealer.rows)'
    BY <2>1, <2>2 DEF Sealing
  <2>4. \A e \in 0..LastDay : \A rows : Sealing(e, rows)' <=> Sealing(e, rows)
    BY <2>1 DEF Sealing
  <2> QED
    BY <1>1, <2>1, <2>2, <2>3, <2>4 DEF SealInv
<1>9. CASE SealCommit
  <2>1. /\ sealer # NoSeal /\ heads' = [heads EXCEPT ![sealer.day] = sealer.rows]
        /\ sealer' = NoSeal /\ audits' = audits /\ day' = day
    BY <1>9 DEF SealCommit
  <2>2. \A e \in 0..LastDay : \A rows : Sealing(e, rows)' <=> Sealing(e, rows)
    BY <2>1 DEF Sealing
  <2>3. sealer.day \in 0..LastDay /\ Sealing(sealer.day, sealer.rows) /\ DOMAIN heads = 0..LastDay
    BY <1>1, <2>1 DEF SealInv
  <2>4. \A d \in 0..LastDay : heads'[d] # Unsealed => Sealing(d, heads'[d])
    BY <1>1, <2>1, <2>3 DEF SealInv
  <2> QED
    BY <2>1, <2>2, <2>3, <2>4 DEF SealInv
<1> QED
  BY <1>4, <1>5, <1>6, <1>7, <1>8, <1>9 DEF Next

---------------------------------------------------------------------------
(* The invariant.                                                          *)

LEMMA InitIInv ==
  ASSUME Init
  PROVE  IInv
<1>1. setting \in Starts /\ IsStart(setting) /\ LastDay \in Nat
  BY ConstantsAssumption DEF Init
<1>2. \A r \in Requests : req[r] = Idle /\ jobs[r] = NoJob
  BY DEF Init
<1>3. /\ Idle.pc = "idle" /\ Idle.op = NoOp /\ Idle.job = NoJob /\ Idle.i = 1 /\ Idle.slot = NoSlot
      /\ Idle.base = NoRows /\ Idle.locked = NoRows /\ Idle.todo = <<>> /\ Idle.added = {}
      /\ Idle.observed = {} /\ Idle.emitted = 0
  BY DEF Idle
<1>4. NoJob \in Job /\ NoJob.status = None /\ None # "completed"
  BY DEF NoJob, Job, NoCount, Count, None
<1>5. IsReq(Idle)
  <2>1. NoDevice \in Device /\ IsTable(NoRows) /\ 0 \in 0..LastDay /\ <<>> \in Seq(Slots)
    BY <1>1, NoDeviceFacts, NoRowsTable
  <2>2. "idle" \in Pcs
    BY DEF Pcs
  <2> QED
    BY <1>4, <2>1, <2>2 DEF Idle, IsReq
<1>6. Types
  <2>1. setting.bound \in [Kept -> Nat]
    BY <1>1 DEF IsStart
  <2>2. spent \in [Kept -> Nat] /\ \A what \in Kept : spent[what] \in 0..setting.bound[what]
    BY <2>1 DEF Init, Kept
  <2>3. /\ dev \in [Slots -> Existing \cup {NoDevice}]
        /\ rules \subseteq Rule /\ \A x, y \in rules : x.id = y.id => x = y
    BY <1>1 DEF Init, IsStart
  <2>4. jobs \in [Requests -> Job] /\ DOMAIN req = Requests /\ \A r \in Requests : IsReq(req[r])
    BY <1>2, <1>4, <1>5 DEF Init
  <2>5. observed = {} /\ audits = {} /\ day \in 0..LastDay
    BY <1>1 DEF Init
  <2> QED
    BY <1>1, <2>2, <2>3, <2>4, <2>5 DEF Types
<1>7. RowsInv
  <2>1. \A r \in Requests : /\ req[r].pc = "idle" /\ Locks(r) = {} /\ DOMAIN req[r].base = {}
                            /\ \A s : ~ Creates(r, s)
    BY <1>2, <1>3, NoRowsTable DEF Locks, Creates
  <2>2. \A s, t \in Slots :
          (s # t /\ dev[s] # NoDevice /\ dev[t] # NoDevice) => Key(dev[s]) # Key(dev[t])
    BY <1>1 DEF Init, IsStart
  <2>3. \A r \in Requests : LoadedSound(r) /\ PlanSound(r) /\ WrittenSound(r)
    BY <2>1 DEF LoadedSound, PlanSound, WrittenSound
  <2>4. LocksApart
    BY <2>1 DEF LocksApart
  <2>5. KeysApart
    BY <2>1, <2>2 DEF KeysApart
  <2> QED
    BY <2>3, <2>4, <2>5 DEF RowsInv
<1>8. JobsInv
  <2>1. \A r \in Requests : ~ Audited(r)
    BY DEF Audited, Init
  <2>2. \A r \in Requests : AuditOf(r)
    BY <1>2, <1>3, <1>4, <2>1 DEF AuditOf
  <2>3. \A r \in Requests : Progress(r)
    <3>1. 0 <= day /\ DOMAIN <<>> = {} /\ "idle" \notin Active
      BY DEF Init, Active, Handling
    <3>2. NoOp.kind # "upload"
      BY DEF NoOp, None
    <3> QED
      BY <1>2, <1>3, <3>1, <3>2 DEF Progress, Gone
  <2>4. FilesApart
    BY <1>2, <1>3, <1>4 DEF FilesApart, Claims
  <2> QED
    BY <2>2, <2>3, <2>4 DEF JobsInv
<1>9. CountsInv
  <2>1. observed = {}
    BY DEF Init
  <2> QED
    BY <1>2, <1>3, <1>4, <2>1 DEF CountsInv, CountOf
<1>10. SealInv
  BY <1>1 DEF Init, SealInv
<1> QED
  BY <1>6, <1>7, <1>8, <1>9, <1>10 DEF IInv

LEMMA StutterIInv ==
  ASSUME IInv, UNCHANGED vars
  PROVE  IInv'
<1>1. /\ dev' = dev /\ rules' = rules /\ jobs' = jobs /\ observed' = observed /\ req' = req
      /\ audits' = audits /\ heads' = heads /\ sealer' = sealer /\ day' = day
      /\ setting' = setting /\ spent' = spent
  BY DEF vars
<1>2. Types'
  BY <1>1 DEF IInv, Types, IsReq, IsTable
<1>3. RowsInv'
  BY <1>1, RowsShrink DEF IInv, Undisturbed
<1>4. JobsInv' /\ CountsInv'
  <2>1. /\ day' \in Int /\ day <= day' /\ FilesApart
    BY <1>1 DEF IInv, Types, JobsInv
  <2>2. \A q \in Requests : /\ Progress(q)' /\ AuditOf(q)' /\ CountOf(q)'
                            /\ \A f : Claims(q, f)' <=> Claims(q, f)
    BY <1>1, <2>1, OthersKept DEF Same, Audited
  <2>3. FilesApart'
    BY <2>1, <2>2 DEF FilesApart
  <2> QED
    BY <2>2, <2>3 DEF JobsInv, CountsInv
<1>5. SealInv'
  BY <1>1 DEF IInv, SealInv, Sealing
<1> QED
  BY <1>2, <1>3, <1>4, <1>5 DEF IInv

\* The inductive invariant holds in every state: what sessions hold apart, what they have
\* loaded, how far they have counted and what they have audited fit together.
THEOREM Invariance == Spec => []IInv
<1>1. Init => IInv
  BY InitIInv
<1>2. IInv /\ [Next]_vars => IInv'
  <2> SUFFICES ASSUME IInv, [Next]_vars PROVE IInv'
    OBVIOUS
  <2>1. CASE Next
    BY <2>1, TypesStep, RowsStep, JobsCountsStep, SealStep DEF IInv
  <2>2. CASE UNCHANGED vars
    BY <2>2, StutterIInv
  <2> QED
    BY <2>1, <2>2
<1> QED
  BY <1>1, <1>2, PTL DEF Spec
\* Every value stays of its type, and the keys of devices and of rules stay unique.
THEOREM TypeCorrect == Spec => []TypeOK
<1>1. ASSUME IInv PROVE TypeOK
  <2>1. Types /\ RowsInv
    BY <1>1 DEF IInv
  <2>2. /\ dev \in [Slots -> Device]
        /\ \A s \in Slots : dev[s].life \in {"classified", "judged"} => dev[s].raw # None
    <3>1. NoDevice.life = "absent"
      BY DEF NoDevice
    <3> QED
      BY <2>1, <3>1, NoDeviceFacts DEF Types, Existing
  <2>3. \A s, t \in Slots :
          (s # t /\ dev[s] # NoDevice /\ dev[t] # NoDevice) => Key(dev[s]) # Key(dev[t])
    BY <2>1 DEF RowsInv, KeysApart
  <2>4. \A r \in Requests : jobs[r].status \in {None, "completed", "failed"}
    BY <2>1 DEF Types, Job
  <2>5. \A r \in Requests : req[r].pc \in Active \cup Ended \cup {"idle"}
                            /\ DOMAIN req[r].locked \subseteq Slots
    BY <2>1 DEF Types, IsReq, IsTable, Pcs
  <2>6. \A a \in audits : a.req \in Requests /\ a.day <= a.on
    BY <2>1 DEF Types
  <2>7. DOMAIN spent = Kept /\ \A what \in Kept : spent[what] \in 0..setting.bound[what]
    BY <2>1 DEF Types
  <2> QED
    BY <2>1, <2>2, <2>3, <2>4, <2>5, <2>6, <2>7 DEF TypeOK, Types
<1> QED
  BY <1>1, Invariance, PTL

\* The counters of a committed job account for every row, every observation and every
\* identity of its file once, however uploads, evaluations and reloads interleave.
THEOREM CountersExact == Spec => []CountersAddUp
<1>1. ASSUME IInv PROVE CountersAddUp
  <2> SUFFICES ASSUME NEW r \in Requests, jobs[r].status = "completed"
               PROVE  LET count == jobs[r].count
                          file  == RowsOf(jobs[r].file)
                          valid == {i \in DOMAIN file : file[i].valid}
                      IN /\ count.total = Len(file)
                         /\ count.total = count.accepted + count.rejected + count.review + count.duplicate
                         /\ count.created + count.updated = Cardinality({o \in observed : o[1] = r})
                         /\ Cardinality(valid) = Cardinality({o \in observed : o[1] = r})
                         /\ count.accepted + count.review = Cardinality({Key(file[i]) : i \in valid})
    BY DEF CountersAddUp
  <2> DEFINE file == RowsOf(jobs[r].file)
             mine == {o \in observed : o[1] = r}
             valid == {i \in DOMAIN file : file[i].valid}
  <2>1. jobs[r].file \in Files /\ CountsUpTo(jobs[r].count, mine, file, Len(file))
    BY <1>1 DEF IInv, CountsInv, CountOf
  <2>2. file \in Seq(Row)
    BY <2>1, ConstantsAssumption
  <2>3. valid = ValidUpTo(file, Len(file))
    BY <2>2 DEF ValidUpTo
  <2> HIDE DEF mine, file, valid
  <2> QED
    BY <2>1, <2>3 DEF CountsUpTo, mine, file, valid
<1> QED
  BY <1>1, Invariance, PTL

\* Two uploads of one file never both leave a job, although each looked for one before the
\* other inserted its own, and a job is never without its audit row.
THEOREM OneJob == Spec => []OneAuditedJobPerFile
<1>1. ASSUME IInv PROVE OneAuditedJobPerFile
  <2>1. \A r \in Requests : jobs[r].file \in Files \cup {None}
    BY <1>1 DEF IInv, Types, Job
  <2>2. \A r, q \in Requests :
          (/\ r # q /\ jobs[r].status # None /\ jobs[q].status # None
           /\ ~ jobs[r].override /\ ~ jobs[q].override) => jobs[r].file # jobs[q].file
    BY <1>1, <2>1 DEF IInv, JobsInv, FilesApart, Claims
  <2>3. \A r \in Requests : jobs[r].status # None => \E a \in audits : a.req = r
    BY <1>1 DEF IInv, JobsInv, AuditOf, Audited
  <2>4. \A a \in audits : jobs[a.req].status # None
                          \/ req[a.req].pc \in {"returned", "commit", "crashed"}
    BY <1>1 DEF IInv, JobsInv, Types, AuditOf, Audited
  <2> QED
    BY <2>2, <2>3, <2>4 DEF OneAuditedJobPerFile
<1> QED
  BY <1>1, Invariance, PTL

\* The head of a sealed day covers every row committed on that day: none can be added
\* once the day can be sealed.
THEOREM SealComplete == Spec => []SealedDayComplete
<1>1. IInv => SealedDayComplete
  BY DEF IInv, SealInv, Sealing, SealedDayComplete
<1> QED
  BY <1>1, Invariance, PTL

\* No commit of an upload, an evaluation or a renormalization forgets a fact or a family
\* that was known, changes an identity or sends a device back to "imported".
THEOREM FactsKept == Spec => KnownFactsKept
<1> DEFINE Known == \A s \in Slots : dev[s] # NoDevice =>
                      /\ Key(dev'[s]) = Key(dev[s])
                      /\ dev[s].fact # None => dev'[s].fact # None
                      /\ dev[s].family # None => dev'[s].family # None
                      /\ dev'[s].life = "imported" => dev[s].life = "imported"
<1>1. ASSUME IInv, [Next]_vars PROVE [Known]_dev
  <2>1. CASE dev' = dev
    BY <2>1
  <2>2. ASSUME NEW r \in Requests, Commit(r) PROVE Known
    <3>1. Types /\ RowsInv /\ dev' = View(r)
      BY <1>1, <2>2 DEF IInv, Commit
    <3>2. Cleared(r) /\ \A q \in Requests \ {r} : Undisturbed(q)
      BY <2>2, <3>1, CommitEffect, OverCleared, SameUndisturbed DEF Ended
    <3>3. \A s \in Slots : dev[s] # NoDevice => Keeps(dev[s], dev'[s])
      BY <3>1, <3>2, RowsCommitted
    <3> QED
      BY <3>3, KeyOf DEF Keeps
  <2>3. CASE UNCHANGED vars
    BY <2>1, <2>3 DEF vars
  <2> QED
    BY <1>1, <2>1, <2>2, <2>3, NextFrame
<1>2. IInv /\ [Next]_vars =>
        [\A s \in Slots : dev[s] # NoDevice =>
           /\ Key(dev'[s]) = Key(dev[s])
           /\ dev[s].fact # None => dev'[s].fact # None
           /\ dev[s].family # None => dev'[s].family # None
           /\ dev'[s].life = "imported" => dev[s].life = "imported"]_dev
  BY <1>1
<1> QED
  BY <1>2, Invariance, PTL DEF Spec, KnownFactsKept
===================================================================================
