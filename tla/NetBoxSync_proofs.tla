------------------------- MODULE NetBoxSync_proofs -------------------------
(***************************************************************************)
(* Proofs about NetBoxSync, for every set of rows, NetBox devices and       *)
(* requests and every start that ConstantsAssumption allows.  The rows and  *)
(* keys that a request has flushed keep the others away from them until it  *)
(* ends, so that a NetBox device has one writer while its row is linked to  *)
(* it; and what a request read of a device it writes to is still there     *)
(* until somebody touches the device.                                      *)
(***************************************************************************)
EXTENDS NetBoxSync, FiniteSetTheorems, SequenceTheorems, TLAPS

---------------------------------------------------------------------------
(* The inductive invariant: shapes.                                        *)

Pcs == Active \cup Ended \cup {"idle", "audit"}
Writing == {"write", "patch", "commit"}
Postures == Verdicts \cup {Unknown}
Tags == ManagedTags(Verdicts) \cup {Foreign}

Records == [id : Ids, serial : Serials \cup {None}, place : Places]

\* Some rows of devices, as a session knows, plans or has written them.
IsTable(f) == DOMAIN f \subseteq Rows /\ f \in [DOMAIN f -> DeviceRow]

IsSync(q) ==
  /\ q \in [pc : Pcs, setting : Settings, offset : Nat, recs : Seq(Records), k : Nat \ {0},
            base : {q.base}, plan : {q.plan}, locked : {q.locked}, row : {q.row},
            ipam : {q.ipam}, drafts : {q.drafts}, todo : SUBSET Rows, told : {q.told},
            entries : {q.entries}, body : {q.body}, seen : SUBSET Ids, overlapped : BOOLEAN]
  /\ IsTable(q.base) /\ IsTable(q.plan) /\ IsTable(q.locked)
  /\ DOMAIN q.base = DOMAIN q.plan /\ DOMAIN q.locked \subseteq DOMAIN q.plan
  /\ q.told \in [DOMAIN q.told -> Postures]

Types ==
  /\ nb \in [Ids -> NetBoxDevice]
  /\ dev \in [Rows -> DeviceRow] /\ \A r \in Rows : ~ dev[r].exists => dev[r] = NoRow
  /\ verdict \in [Rows -> Postures]
  /\ DOMAIN sync = Syncs /\ \A s \in Syncs : IsSync(sync[s])
  /\ audits \subseteq Syncs \X {"completed", "failed"}
  /\ edits \subseteq EditKinds
  /\ spent \in [edits : 0..MaxEdits, evaluations : 0..MaxEvaluations, faults : 0..MaxFaults]

---------------------------------------------------------------------------
(* A request by itself.                                                    *)

\* How many records a request has looked up.
Looked(q) == IF q.pc = "flush" THEN q.k ELSE q.k - 1

Copies(p, rec) == p.nbid = rec.id /\ p.serial = rec.serial /\ p.place = rec.place

\* Every record looked up has a row of its own in the plan, and every row
\* planned is that of a record.
Batch(q) ==
  /\ \A r \in DOMAIN q.plan :
       /\ q.plan[r].exists
       /\ q.base[r] = NoRow \/ q.base[r].exists
       /\ \E j \in 1..Looked(q) : Copies(q.plan[r], q.recs[j])
  /\ \A j \in 1..Looked(q) : \E r \in DOMAIN q.plan : Copies(q.plan[r], q.recs[j])
  /\ \A r, x \in DOMAIN q.plan : q.plan[r].nbid = q.plan[x].nbid => r = x
  /\ \A r \in DOMAIN q.locked : q.locked[r].exists

\* The rows planned that are linked to a record, when all are flushed.
LinkedRows(q) ==
  {r \in DOMAIN q.plan : q.locked[r].nbid \in {q.recs[j].id : j \in DOMAIN q.recs}}

Want(q, r) == DesiredFields(q.told[r], q.plan[r].align)

\* Where a request is in its batch, and what write-back has done.
Progress(q) ==
  /\ q.pc \notin Active \ {"pull"} => q.k = 1 /\ DOMAIN q.plan = {}
  /\ q.pc \in {"look", "flush"} => q.k \in DOMAIN q.recs
  /\ q.pc \in {"align"} \cup Writing => q.k = Len(q.recs) + 1
  /\ q.pc # "flush" => DOMAIN q.locked = DOMAIN q.plan
  /\ q.pc = "flush" => /\ q.row \in DOMAIN q.plan
                       /\ DOMAIN q.locked = DOMAIN q.plan \ {q.row}
  /\ q.pc \notin Writing => q.todo = {} /\ DOMAIN q.entries = {} /\ DOMAIN q.drafts = {}
  /\ q.pc \notin Writing => \A r \in DOMAIN q.plan : q.plan[r].align = q.base[r].align
  /\ DOMAIN q.drafts \subseteq DOMAIN q.plan
  /\ \A r \in DOMAIN q.drafts : q.plan[r].align = AlignmentStatus(q.drafts[r])
  /\ q.todo \cap DOMAIN q.entries = {}
  /\ q.pc \in Writing => q.todo \cup DOMAIN q.entries \subseteq LinkedRows(q)
  /\ \A r \in DOMAIN q.entries :
       q.entries[r] \in {"updated", "unchanged"} => r \in DOMAIN q.told
  /\ q.pc = "patch" => /\ q.row \in q.todo /\ q.row \in DOMAIN q.told
                       /\ q.body.cf \in {<<>>, Want(q, q.row)}
                       /\ q.body.tags \subseteq Tags

Own(q) == Batch(q) /\ Progress(q)

---------------------------------------------------------------------------
(* Requests and committed rows.                                            *)

Plans(s) == DOMAIN sync[s].plan
Locks(s) == DOMAIN sync[s].locked

\* No row s sees has a key of one that it has written; nothing s planned on
\* has gone; and unless somebody committed meanwhile, it planned on what is
\* committed and has written what it planned.
RowsSound(s) ==
  /\ \A r \in Locks(s), x \in Rows : r # x => ~ SameKey(View(s)[x], sync[s].locked[r])
  /\ \A r \in Plans(s) : sync[s].base[r].exists => dev[r].exists
  /\ (~ sync[s].overlapped /\ sync[s].pc \in Active) =>
       /\ \A r \in Plans(s) : sync[s].base[r] = dev[r]
       /\ \A r \in Locks(s) : sync[s].locked[r] = sync[s].plan[r]

\* A row is written by one request, and so is a key.
Apart(s, t) ==
  /\ Locks(s) \cap Locks(t) = {}
  /\ \A r \in Locks(s), x \in Locks(t) : ~ SameKey(sync[s].locked[r], sync[t].locked[x])

RowsInv ==
  /\ \A s \in Syncs : Own(sync[s]) /\ RowsSound(s)
  /\ \A s, t \in Syncs : s # t => Apart(s, t)

---------------------------------------------------------------------------
(* Requests and NetBox.                                                    *)

\* A device shows a posture and a status.
Shows(device, told, align) ==
  /\ device.cf = DesiredFields(told, align)
  /\ device.tags \cap ManagedTags(Verdicts) = DesiredTags(told, align)

\* A PATCH under way was decided on what the device still is, and an entry
\* says what the device shows, unless somebody touched the device.
Mirrored(s) ==
  /\ \A r \in DOMAIN sync[s].entries :
       (sync[s].entries[r] \in {"updated", "unchanged"} /\ sync[s].plan[r].nbid \in sync[s].seen) =>
         Shows(nb[sync[s].plan[r].nbid], sync[s].told[r], sync[s].plan[r].align)
  /\ LET i     == sync[s].plan[sync[s].row].nbid
         want  == Want(sync[s], sync[s].row)
         tags  == ReconciledTags(nb[i].tags, DesiredTags(sync[s].told[sync[s].row],
                                                         sync[s].plan[sync[s].row].align), Verdicts)
     IN (sync[s].pc = "patch" /\ i \in sync[s].seen) =>
          /\ Conflicts(nb[i].cf, want) = {}
          /\ sync[s].body.cf = IF nb[i].cf = want THEN <<>> ELSE want
          /\ sync[s].body.tags = IF nb[i].tags = tags THEN {} ELSE tags

IInv == Types /\ RowsInv /\ \A s \in Syncs : Mirrored(s)

---------------------------------------------------------------------------
(* Tables, keys and what an UPDATE leaves.                                 *)

LEMMA NoRowFacts == NoRow \in DeviceRow /\ ~ NoRow.exists
  BY DEF NoRow, DeviceRow

LEMMA NoRowsTable == IsTable(NoRows) /\ DOMAIN NoRows = {}
  BY DEF IsTable, NoRows

\* A request sees what it has written, and what is committed.
LEMMA ViewType ==
  ASSUME Types, NEW s \in Syncs
  PROVE  /\ View(s) \in [Rows -> DeviceRow]
         /\ Locks(s) \subseteq Plans(s) /\ Plans(s) \subseteq Rows
         /\ \A r \in Locks(s) : View(s)[r] = sync[s].locked[r]
         /\ \A r \in Rows \ Locks(s) : View(s)[r] = dev[r]
  BY DEF Types, IsSync, IsTable, View, Locks, Plans

LEMMA SameKeySymmetric ==
  ASSUME NEW a, NEW b, SameKey(a, b)
  PROVE  SameKey(b, a)
  BY DEF SameKey

\* The alignment status is in no key.
SameIdentity(a, b) == /\ a.exists = b.exists /\ a.serial = b.serial
                      /\ a.place = b.place /\ a.nbid = b.nbid

LEMMA KeyOfIdentity ==
  ASSUME NEW a, NEW b, NEW c, NEW d, SameIdentity(a, c), SameIdentity(b, d)
  PROVE  SameKey(a, b) <=> SameKey(c, d)
  BY DEF SameIdentity, SameKey

\* What an UPDATE or INSERT leaves is a row that exists; it is the planned row when
\* the row it was planned on is still there.
LEMMA MergedFacts ==
  ASSUME Types, NEW s \in Syncs, Batch(sync[s]), NEW r \in Plans(s), r \notin Locks(s),
         sync[s].base[r].exists => dev[r].exists
  PROVE  /\ Merged(s, r) \in DeviceRow
         /\ Merged(s, r).exists
         /\ sync[s].base[r] = dev[r] => Merged(s, r) = sync[s].plan[r]
<1> DEFINE p == sync[s].plan[r]
           b == sync[s].base[r]
           m == Merged(s, r)
<1>1. r \in Rows /\ View(s)[r] = dev[r] /\ dev[r] \in DeviceRow
  BY ViewType DEF Types
<1>2. p \in DeviceRow /\ b \in DeviceRow
  BY DEF Types, IsSync, IsTable, Plans
<1>3. p.exists /\ (b = NoRow \/ b.exists)
  BY DEF Batch, Plans
<1>4. m = [c \in DOMAIN p |-> IF p[c] # b[c] THEN p[c] ELSE dev[r][c]]
  BY <1>1 DEF Merged
<1>5. b.exists => dev[r].exists
  OBVIOUS
<1>6. DOMAIN p = {"exists", "serial", "place", "nbid", "align"}
  BY <1>2 DEF DeviceRow
<1> HIDE DEF p, b, m
<1>7. m \in DeviceRow
  BY <1>1, <1>2, <1>4, <1>6 DEF DeviceRow
<1>8. m.exists
  BY <1>1, <1>2, <1>3, <1>4, <1>5, <1>6, NoRowFacts DEF DeviceRow
<1>9. b = dev[r] => m = p
  BY <1>1, <1>2, <1>4, <1>6 DEF DeviceRow
<1> QED
  BY <1>7, <1>8, <1>9 DEF p, b, m

---------------------------------------------------------------------------
(* Requests that begin, end, or go on.                                     *)

\* Requests with the same work and the same session.
SameRows(q, p) == p.base = q.base /\ p.plan = q.plan /\ p.locked = q.locked
SameWork(q, p) == /\ SameRows(q, p) /\ p.pc = q.pc /\ p.recs = q.recs /\ p.k = q.k
                  /\ p.row = q.row /\ p.drafts = q.drafts /\ p.todo = q.todo
                  /\ p.told = q.told /\ p.entries = q.entries /\ p.body = q.body

LEMMA OwnKept ==
  ASSUME NEW q, NEW p, Own(q), SameWork(q, p)
  PROVE  Own(p)
<1>1. Batch(p)
  BY DEF Own, SameWork, SameRows, Batch, Looked
<1>2. LinkedRows(p) = LinkedRows(q)
  BY DEF SameWork, SameRows, LinkedRows
<1>3. \A r : Want(p, r) = Want(q, r)
  BY DEF SameWork, SameRows, Want
<1>4. Progress(p)
  BY <1>2, <1>3 DEF Own, SameWork, SameRows, Progress
<1> QED
  BY <1>1, <1>4 DEF Own

Cleared(q) == DOMAIN q.plan = {} /\ DOMAIN q.locked = {} /\ DOMAIN q.entries = {} /\ q.pc # "patch"

\* A request that has just ended, or waits for its audit commit.
LEMMA FreshFacts ==
  ASSUME NEW pc \in Ended \cup {"idle", "audit"}, NEW setting \in Settings
  PROVE  /\ IsSync(Fresh(pc, setting)) /\ Own(Fresh(pc, setting))
         /\ Cleared(Fresh(pc, setting))
         /\ Fresh(pc, setting).pc = pc /\ Fresh(pc, setting).setting = setting
<1> DEFINE q == Fresh(pc, setting)
<1>1. /\ q.pc = pc /\ q.setting = setting /\ q.offset = 0 /\ q.recs = <<>> /\ q.k = 1
      /\ q.base = NoRows /\ q.plan = NoRows /\ q.locked = NoRows /\ q.todo = {}
      /\ DOMAIN q.drafts = {} /\ DOMAIN q.told = {} /\ DOMAIN q.entries = {} /\ q.seen = {}
      /\ q.overlapped = FALSE
  BY DEF Fresh
<1>2. pc \in Pcs /\ pc \notin Active /\ pc \notin Writing
  BY DEF Pcs, Active, Ended, Writing
<1>3. IsSync(q)
  <2>1. q.told \in [DOMAIN q.told -> Postures]
    BY DEF Fresh
  <2> QED
    BY <1>1, <1>2, <2>1, NoRowsTable DEF IsSync, Fresh
<1>4. Batch(q)
  BY <1>1, <1>2, NoRowsTable DEF Batch, Looked, Active
<1>5. Progress(q)
  BY <1>1, <1>2, NoRowsTable DEF Progress, Active, Writing
<1> QED
  BY <1>1, <1>2, <1>3, <1>4, <1>5, NoRowsTable DEF Own, Cleared, Active

\* Steps that write no row, and steps that end requests, keep RowsInv.
LEMMA RowsKept ==
  ASSUME RowsInv, dev' = dev, \A s \in Syncs : Own(sync'[s]),
         \A s \in Syncs :
           \/ Cleared(sync'[s])
           \/ /\ SameRows(sync[s], sync'[s])
              /\ (~ sync'[s].overlapped /\ sync'[s].pc \in Active) =>
                   (~ sync[s].overlapped /\ sync[s].pc \in Active)
  PROVE  RowsInv'
<1>1. \A s \in Syncs : \A r \in Locks(s)' :
        r \in Locks(s) /\ sync'[s].locked[r] = sync[s].locked[r]
  BY DEF Cleared, SameRows, Locks
<1>2. ASSUME NEW s \in Syncs PROVE RowsSound(s)'
  <2>1. CASE Cleared(sync'[s])
    BY <2>1 DEF Cleared, RowsSound, Locks, Plans
  <2>2. CASE /\ SameRows(sync[s], sync'[s])
             /\ (~ sync'[s].overlapped /\ sync'[s].pc \in Active) =>
                  (~ sync[s].overlapped /\ sync[s].pc \in Active)
    <3>1. View(s)' = View(s) /\ Locks(s)' = Locks(s) /\ Plans(s)' = Plans(s)
      BY <2>2 DEF SameRows, View, Locks, Plans
    <3> QED
      BY <2>2, <3>1 DEF RowsInv, RowsSound, SameRows
  <2> QED
    BY <2>1, <2>2
<1>3. ASSUME NEW s \in Syncs, NEW t \in Syncs, s # t PROVE Apart(s, t)'
  BY <1>1, <1>3 DEF RowsInv, Apart
<1> QED
  BY <1>2, <1>3 DEF RowsInv

\* A request that has planned nothing yet.
LEMMA OwnEmpty ==
  ASSUME NEW q, DOMAIN q.plan = {}, DOMAIN q.locked = {}, DOMAIN q.entries = {},
         DOMAIN q.drafts = {}, q.todo = {}, q.k = 1,
         \/ q.pc = "pull"
         \/ q.pc = "look" /\ 1 \in DOMAIN q.recs
         \/ q.pc = "align" /\ Len(q.recs) = 0
  PROVE  Own(q)
<1>1. q.pc \notin Writing /\ q.pc \notin {"patch", "flush"}
  BY DEF Writing
<1>2. Batch(q)
  BY <1>1 DEF Batch, Looked
<1>3. Progress(q)
  BY <1>1 DEF Progress, Writing
<1> QED
  BY <1>2, <1>3 DEF Own

\* What a request says of NetBox stays true while nobody touches its devices.
Touching(s) == DOMAIN sync[s].entries \cup {r \in {sync[s].row} : sync[s].pc = "patch"}

LEMMA MirroredKept ==
  ASSUME NEW s \in Syncs, Mirrored(s),
         \/ Cleared(sync'[s])
         \/ /\ SameWork(sync[s], sync'[s]) /\ sync'[s].seen \subseteq sync[s].seen
            /\ \A r \in Touching(s) : sync[s].plan[r].nbid \in sync'[s].seen =>
                 nb'[sync[s].plan[r].nbid] = nb[sync[s].plan[r].nbid]
  PROVE  Mirrored(s)'
<1>1. CASE Cleared(sync'[s])
  BY <1>1 DEF Cleared, Mirrored
<1>2. CASE /\ SameWork(sync[s], sync'[s]) /\ sync'[s].seen \subseteq sync[s].seen
           /\ \A r \in Touching(s) : sync[s].plan[r].nbid \in sync'[s].seen =>
                nb'[sync[s].plan[r].nbid] = nb[sync[s].plan[r].nbid]
  <2>1. /\ sync'[s].entries = sync[s].entries /\ sync'[s].plan = sync[s].plan
        /\ sync'[s].told = sync[s].told /\ sync'[s].row = sync[s].row
        /\ sync'[s].body = sync[s].body /\ sync'[s].pc = sync[s].pc
    BY <1>2 DEF SameWork, SameRows
  <2>2. ASSUME NEW r \in DOMAIN sync[s].entries,
               sync[s].entries[r] \in {"updated", "unchanged"},
               sync[s].plan[r].nbid \in sync'[s].seen
        PROVE  Shows(nb'[sync[s].plan[r].nbid], sync[s].told[r], sync[s].plan[r].align)
    BY <1>2, <2>2 DEF Mirrored, Touching
  <2>3. (sync[s].pc = "patch" /\ sync[s].plan[sync[s].row].nbid \in sync'[s].seen) =>
          /\ sync[s].plan[sync[s].row].nbid \in sync[s].seen
          /\ nb'[sync[s].plan[sync[s].row].nbid] = nb[sync[s].plan[sync[s].row].nbid]
    BY <1>2 DEF Touching
  <2>4. Want(sync'[s], sync'[s].row) = Want(sync[s], sync[s].row)
    BY <2>1 DEF Want
  <2>5. \A r \in DOMAIN sync'[s].entries :
          (sync'[s].entries[r] \in {"updated", "unchanged"}
             /\ sync'[s].plan[r].nbid \in sync'[s].seen) =>
            Shows(nb'[sync'[s].plan[r].nbid], sync'[s].told[r], sync'[s].plan[r].align)
    BY <2>1, <2>2
  <2> QED
    BY <2>1, <2>3, <2>4, <2>5 DEF Mirrored, Shows
<1> QED
  BY <1>1, <1>2

\* The rows of a request that has flushed all of them.
LEMMA LinkedFlushed ==
  ASSUME Types, NEW s \in Syncs, Own(sync[s]), sync[s].pc # "flush"
  PROVE  /\ Linked(s) = LinkedRows(sync[s])
         /\ Locks(s) = Plans(s)
<1>1. Locks(s) = Plans(s)
  BY DEF Own, Progress, Locks, Plans
<1>2. \A r \in Plans(s) : View(s)[r] = sync[s].locked[r]
  BY <1>1, ViewType
<1> QED
  BY <1>1, <1>2 DEF Linked, LinkedRows, PulledIds, Plans

\* What is planned to be linked is linked to a NetBox device.
LEMMA PlannedIds ==
  ASSUME NEW q, IsSync(q), Own(q)
  PROVE  \A r \in DOMAIN q.plan : q.plan[r].nbid \in Ids
<1> SUFFICES ASSUME NEW r \in DOMAIN q.plan
             PROVE  q.plan[r].nbid \in Ids
  OBVIOUS
<1>1. PICK j \in 1..Looked(q) : Copies(q.plan[r], q.recs[j])
  BY DEF Own, Batch
<1>2. q.recs \in Seq(Records) /\ q.k \in Nat \ {0} /\ q.pc \in Pcs
  BY DEF IsSync
<1>3. Looked(q) <= Len(q.recs)
  <2>1. \/ q.pc \in {"look", "flush"} /\ q.k \in DOMAIN q.recs
        \/ q.pc \in {"align"} \cup Writing /\ q.k = Len(q.recs) + 1
    BY DEF Own, Progress, Active, Writing
  <2> QED
    BY <1>2, <2>1 DEF Looked, Writing
<1>4. j \in DOMAIN q.recs
  BY <1>2, <1>3 DEF Looked
<1>5. q.recs[j] \in Records
  BY <1>2, <1>4
<1> QED
  BY <1>1, <1>5 DEF Copies, Records

\* The rows and keys held keep a device to one writer.
LEMMA OneWriter ==
  ASSUME Types, RowsInv
  PROVE  OneWriterPerDevice
<1> SUFFICES ASSUME NEW s \in Syncs, NEW t \in Syncs, s # t,
                    {sync[s].pc, sync[t].pc} \subseteq Writing,
                    NEW i \in NbIds(s) \cap NbIds(t), i \notin Relinked(s) \cup Relinked(t)
             PROVE  FALSE
  BY DEF OneWriterPerDevice, Writing
<1>1. ASSUME NEW x \in {s, t}
      PROVE  \E r \in Locks(x) : sync[x].locked[r].nbid = i /\ sync[x].locked[r].exists /\ i \in Ids
  <2>1. PICK r \in Linked(x) : sync[x].plan[r].nbid = i
    BY DEF NbIds
  <2>2. sync[x].pc \in Active /\ sync[x].pc # "flush" /\ x \in Syncs
    BY DEF Writing, Active
  <2>3. r \in Locks(x) /\ r \in Plans(x)
    BY <2>1, <2>2, LinkedFlushed DEF RowsInv, Linked, Plans
  <2>4. View(x)[r] = sync[x].locked[r]
    BY <2>2, <2>3, ViewType
  <2>5. sync[x].overlapped => sync[x].locked[r].nbid = i
    BY <2>1, <2>4 DEF Relinked
  <2>6. ~ sync[x].overlapped => sync[x].locked[r].nbid = i
    BY <2>1, <2>2, <2>3 DEF RowsInv, RowsSound
  <2>7. sync[x].overlapped \in BOOLEAN
    BY <2>2 DEF Types, IsSync
  <2>8. sync[x].locked[r].exists
    BY <2>2, <2>3 DEF RowsInv, Own, Batch, Locks
  <2>9. i \in Ids
    BY <2>1, <2>2, <2>3, PlannedIds DEF Types, RowsInv, Plans
  <2> QED
    BY <2>3, <2>5, <2>6, <2>7, <2>8, <2>9
<1>2. PICK r \in Locks(s) : sync[s].locked[r].nbid = i /\ sync[s].locked[r].exists /\ i \in Ids
  BY <1>1
<1>3. PICK x \in Locks(t) : sync[t].locked[x].nbid = i /\ sync[t].locked[x].exists
  BY <1>1
<1>4. i # 0
  BY <1>2, ConstantsAssumption
<1>5. SameKey(sync[s].locked[r], sync[t].locked[x])
  BY <1>2, <1>3, <1>4 DEF SameKey
<1> QED
  BY <1>5 DEF RowsInv, Apart

---------------------------------------------------------------------------
(* One request takes a step.                                               *)

Spent == [edits : 0..MaxEdits, evaluations : 0..MaxEvaluations, faults : 0..MaxFaults]

LEMMA SpendTypes ==
  ASSUME spent \in Spent,
         Spend("edits", MaxEdits) \/ Spend("evaluations", MaxEvaluations) \/ Spend("faults", MaxFaults)
  PROVE  spent' \in Spent
  BY ConstantsAssumption DEF Spent, Spend, MaySpend

\* Only s goes on.
Bystanders(s) == DOMAIN sync' = Syncs /\ \A t \in Syncs \ {s} : sync'[t] = sync[t]

LEMMA StepAlone ==
  ASSUME IInv, NEW s \in Syncs, Bystanders(s), RowsInv', dev' = dev, nb' = nb, verdict' = verdict,
         edits' = edits, spent' \in Spent, audits' \subseteq Syncs \X {"completed", "failed"},
         IsSync(sync'[s]), Mirrored(s)'
  PROVE  IInv'
<1>1. Types'
  BY DEF IInv, Types, Spent, Bystanders
<1>2. ASSUME NEW t \in Syncs, t # s PROVE Mirrored(t)'
  BY <1>2, MirroredKept DEF IInv, Bystanders, SameWork, SameRows
<1> QED
  BY <1>1, <1>2 DEF IInv

\* ... and writes no row, or ends.
LEMMA StepApart ==
  ASSUME IInv, NEW s \in Syncs, Bystanders(s), dev' = dev, nb' = nb, verdict' = verdict,
         edits' = edits, spent' \in Spent, audits' \subseteq Syncs \X {"completed", "failed"},
         IsSync(sync'[s]), Own(sync'[s]),
         \/ Cleared(sync'[s])
         \/ /\ SameRows(sync[s], sync'[s]) /\ Mirrored(s)'
            /\ (~ sync'[s].overlapped /\ sync'[s].pc \in Active) =>
                 (~ sync[s].overlapped /\ sync[s].pc \in Active)
  PROVE  IInv'
<1>1. \A t \in Syncs \ {s} : Own(sync'[t]) /\ SameRows(sync[t], sync'[t])
                              /\ sync'[t].overlapped = sync[t].overlapped /\ sync'[t].pc = sync[t].pc
  BY DEF IInv, RowsInv, Bystanders, SameRows
<1>2. RowsInv'
  BY <1>1, RowsKept DEF IInv
<1>3. Mirrored(s)'
  BY MirroredKept DEF IInv
<1> QED
  BY <1>2, <1>3, StepAlone

\* The end of a request.
LEMMA EndStep ==
  ASSUME IInv, NEW s \in Syncs, NEW pc \in Ended, End(s, pc), dev' = dev, nb' = nb,
         verdict' = verdict, edits' = edits, spent' \in Spent,
         audits' \subseteq Syncs \X {"completed", "failed"}
  PROVE  IInv'
<1>1. /\ sync'[s] = Fresh(pc, sync[s].setting) /\ Bystanders(s) /\ sync[s].setting \in Settings
  BY DEF IInv, Types, IsSync, End, Bystanders
<1>2. IsSync(sync'[s]) /\ Own(sync'[s]) /\ Cleared(sync'[s])
  BY <1>1, FreshFacts
<1> QED
  BY <1>1, <1>2, StepApart

LEMMA EndSteps ==
  ASSUME IInv, NEW s \in Syncs,
         \/ PullFails(s) \/ Ambiguous(s) \/ FlushRaises(s) \/ AuditCommit(s) \/ Crash(s)
  PROVE  IInv'
<1>1. spent \in Spent /\ audits \subseteq Syncs \X {"completed", "failed"}
  BY DEF IInv, Types, Spent
<1>2. \A status \in {"completed", "failed"} :
        audits \cup {<<s, status>>} \subseteq Syncs \X {"completed", "failed"}
  BY <1>1
<1>3. CASE PullFails(s)
  BY <1>1, <1>2, <1>3, SpendTypes, EndStep DEF PullFails, Ended
<1>4. CASE Ambiguous(s)
  BY <1>1, <1>2, <1>4, EndStep DEF Ambiguous, Ended
<1>5. CASE FlushRaises(s)
  BY <1>1, <1>5, EndStep DEF FlushRaises, Ended
<1>6. CASE AuditCommit(s)
  BY <1>1, <1>2, <1>6, EndStep DEF AuditCommit, Ended
<1>7. CASE Crash(s)
  BY <1>1, <1>7, SpendTypes, EndStep DEF Crash, Ended
<1> QED
  BY <1>3, <1>4, <1>5, <1>6, <1>7

LEMMA TriggerStep ==
  ASSUME IInv, NEW s \in Syncs, Trigger(s)
  PROVE  IInv'
<1> DEFINE q == sync[s]
           p == sync'[s]
<1>1. /\ p = [q EXCEPT !.pc = "pull"] /\ Bystanders(s) /\ q.pc = "idle"
      /\ UNCHANGED <<nb, dev, verdict, audits, edits, spent>>
  BY DEF IInv, Types, Trigger, Bystanders
<1>2. IsSync(q) /\ Own(q)
  BY DEF IInv, Types, RowsInv
<1>3. IsSync(p)
  BY <1>1, <1>2 DEF IsSync, Pcs, Active
<1>4. /\ DOMAIN q.plan = {} /\ DOMAIN q.locked = {} /\ q.k = 1 /\ q.todo = {}
      /\ DOMAIN q.entries = {} /\ DOMAIN q.drafts = {}
  BY <1>1, <1>2 DEF Own, Progress, Active, Writing
<1>5. /\ DOMAIN p.plan = {} /\ DOMAIN p.locked = {} /\ p.k = 1 /\ p.todo = {}
      /\ DOMAIN p.entries = {} /\ DOMAIN p.drafts = {} /\ p.pc = "pull"
  BY <1>1, <1>2, <1>4 DEF IsSync
<1>6. Own(p) /\ Cleared(p)
  BY <1>5, OwnEmpty DEF Cleared
<1>7. spent \in Spent /\ audits \subseteq Syncs \X {"completed", "failed"}
  BY DEF IInv, Types, Spent
<1> QED
  BY <1>1, <1>3, <1>6, <1>7, StepApart

\* A sequence given as a function.
LEMMA IsSeq ==
  ASSUME NEW n \in Int, NEW S, NEW f \in [1..n -> S]
  PROVE  f \in Seq(S)
<1>1. CASE n >= 0
  <2>1. n \in Nat
    BY <1>1
  <2> QED
    BY <2>1
<1>2. CASE n < 0
  <2>1. 1..n = 1..0
    BY <1>2
  <2>2. f \in [1..0 -> S]
    BY <2>1
  <2> QED
    BY <2>2
<1> QED
  BY <1>1, <1>2

LEMMA PullPageStep ==
  ASSUME IInv, NEW s \in Syncs, PullPage(s)
  PROVE  IInv'
<1> DEFINE q == sync[s]
           from == q.offset
           end == Cardinality(Listed)
           last == IF from + PageSize < end THEN from + PageSize ELSE end
           room == MaxDevices - Len(q.recs)
           kept == IF last - from < room THEN last - from ELSE room
<1>1. IsSync(q) /\ Own(q) /\ q.pc = "pull"
  BY DEF IInv, Types, RowsInv, PullPage
<1>2. spent \in Spent /\ audits \subseteq Syncs \X {"completed", "failed"}
  BY DEF IInv, Types, Spent
<1>3. PICK page \in [1..(last - from) -> Listed] :
        IF \E j \in DOMAIN page : nb[page[j]].place = Unnamed
        THEN End(s, "failed")
        ELSE LET recs == q.recs \o [j \in 1..kept |-> Record(page[j])]
                 over == Len(recs) >= MaxDevices \/ last <= from \/ last >= end
             IN sync' = [sync EXCEPT ![s].recs = recs, ![s].offset = last,
                                     ![s].pc = IF ~ over THEN "pull"
                                               ELSE IF recs = <<>> THEN "align" ELSE "look"]
  BY DEF PullPage
<1>4. UNCHANGED <<nb, dev, verdict, audits, edits, spent>>
  BY DEF PullPage
<1>5. CASE \E j \in DOMAIN page : nb[page[j]].place = Unnamed
  BY <1>2, <1>3, <1>4, <1>5, EndStep DEF Ended
<1>6. CASE ~ \E j \in DOMAIN page : nb[page[j]].place = Unnamed
  <2> DEFINE more == [j \in 1..kept |-> Record(page[j])]
             recs == q.recs \o more
             over == Len(recs) >= MaxDevices \/ last <= from \/ last >= end
             pc == IF ~ over THEN "pull" ELSE IF recs = <<>> THEN "align" ELSE "look"
             p == sync'[s]
  <2>1. sync' = [sync EXCEPT ![s].recs = recs, ![s].offset = last, ![s].pc = pc]
    BY <1>3, <1>6
  <2>2. p = [q EXCEPT !.recs = recs, !.offset = last, !.pc = pc] /\ Bystanders(s)
    BY <2>1 DEF IInv, Types, Bystanders
  <2>3. q.recs \in Seq(Records) /\ Len(q.recs) \in Nat /\ from \in Nat
    BY <1>1 DEF IsSync
  <2>4. last \in Nat /\ end \in Nat
    <3>1. IsFiniteSet(Listed)
      BY ConstantsAssumption, FS_Subset DEF Listed
    <3>2. end \in Nat
      BY <3>1, FS_CardinalityType
    <3> QED
      BY <2>3, <3>2, ConstantsAssumption
  <2>5. kept \in Int /\ kept <= last - from
    BY <2>3, <2>4, ConstantsAssumption
  <2>6. \A j \in 1..kept : Record(page[j]) \in Records
    <3> TAKE j \in 1..kept
    <3>1. j \in 1..(last - from) /\ page[j] \in Listed
      BY <2>3, <2>4, <2>5
    <3>2. page[j] \in Ids /\ nb[page[j]] \in NetBoxDevice /\ nb[page[j]].place # Unnamed
      BY <1>6, <3>1 DEF Listed, IInv, Types
    <3> QED
      BY <3>2 DEF Record, Records, NetBoxDevice
  <2>7. more \in Seq(Records)
    BY <2>5, <2>6, IsSeq
  <2>8. recs \in Seq(Records)
    BY <2>3, <2>7, ConcatProperties
  <2>9. /\ DOMAIN q.plan = {} /\ DOMAIN q.locked = {} /\ q.k = 1 /\ q.todo = {}
        /\ DOMAIN q.entries = {} /\ DOMAIN q.drafts = {}
    BY <1>1 DEF Own, Progress, Active, Writing
  <2> HIDE DEF recs, over, q
  <2>10. /\ p.recs = recs /\ p.pc = pc /\ DOMAIN p.plan = {} /\ DOMAIN p.locked = {} /\ p.k = 1
         /\ p.todo = {} /\ DOMAIN p.entries = {} /\ DOMAIN p.drafts = {}
    BY <1>1, <2>2, <2>9 DEF IsSync
  <2>11. IsSync(p)
    BY <1>1, <2>2, <2>4, <2>8, ZenonT(60) DEF IsSync, Pcs, Active
  <2>12. pc = "align" => Len(recs) = 0
    BY <2>8
  <2>13. pc = "look" => 1 \in DOMAIN recs
    <3>1. recs # <<>> => Len(recs) # 0 /\ DOMAIN recs = 1..Len(recs) /\ Len(recs) \in Nat
      BY <2>8, EmptySeq
    <3> QED
      BY <3>1
  <2>14. pc \in {"pull", "align", "look"}
    OBVIOUS
  <2>15. Own(p) /\ Cleared(p)
    <3>1. \/ p.pc = "pull"
          \/ p.pc = "look" /\ 1 \in DOMAIN p.recs
          \/ p.pc = "align" /\ Len(p.recs) = 0
      BY <2>10, <2>12, <2>13, <2>14
    <3>2. p.pc # "patch"
      BY <3>1
    <3> QED
      BY <2>10, <3>1, <3>2, OwnEmpty DEF Cleared
  <2> QED
    BY <1>2, <1>4, <2>2, <2>11, <2>15, StepApart
<1> QED
  BY <1>5, <1>6

---------------------------------------------------------------------------
(* Reconciliation.                                                         *)

LEMMA LookStep ==
  ASSUME IInv, NEW s \in Syncs, Look(s)
  PROVE  IInv'
<1> DEFINE q == sync[s]
           p == sync'[s]
           rec == q.recs[q.k]
           found == FindRows(s, rec)
<1>1. IsSync(q) /\ Own(q) /\ RowsSound(s) /\ q.pc = "look"
  BY DEF IInv, Types, RowsInv, Look
<1>2. PICK r \in IF found # {} THEN found
                 ELSE {x \in FreeRows(s) : \A y \in FreeRows(s) : x <= y} :
        LET old == IF found # {} THEN View(s)[r] ELSE NoRow
            new == [old EXCEPT !.exists = TRUE, !.serial = rec.serial,
                               !.place = rec.place, !.nbid = rec.id]
        IN sync' = [sync EXCEPT ![s].pc = "flush", ![s].row = r, ![s].base = Put(@, r, old),
                                ![s].plan = Put(@, r, new)]
  BY DEF Look
<1> DEFINE old == IF found # {} THEN View(s)[r] ELSE NoRow
           new == [old EXCEPT !.exists = TRUE, !.serial = rec.serial,
                              !.place = rec.place, !.nbid = rec.id]
<1>3. /\ sync' = [sync EXCEPT ![s].pc = "flush", ![s].row = r, ![s].base = Put(@, r, old),
                              ![s].plan = Put(@, r, new)]
      /\ UNCHANGED <<nb, dev, verdict, audits, edits, spent>>
      /\ \A j \in 1..(q.k - 1) : q.recs[j].id # rec.id
      /\ found \cap DOMAIN q.plan = {}
  BY <1>2 DEF Look
<1>4. p = [q EXCEPT !.pc = "flush", !.row = r, !.base = Put(q.base, r, old),
                    !.plan = Put(q.plan, r, new)] /\ Bystanders(s)
  BY <1>3 DEF IInv, Types, Bystanders
<1>5. Locks(s) = Plans(s) /\ q.k \in DOMAIN q.recs /\ rec \in Records
  BY <1>1 DEF Own, Progress, Locks, Plans, IsSync
<1>6. /\ r \in Rows /\ r \notin DOMAIN q.plan
      /\ old \in DeviceRow
      /\ old = NoRow \/ old.exists
      /\ old = dev[r]
  <2>1. CASE found # {}
    <3>1. r \in found /\ r \in Rows /\ View(s)[r].exists /\ r \notin DOMAIN q.plan
      BY <1>2, <1>3, <2>1 DEF FindRows
    <3>2. r \notin Locks(s)
      BY <1>5, <3>1 DEF Plans
    <3>3. View(s)[r] = dev[r] /\ View(s)[r] \in DeviceRow
      BY <3>1, <3>2, ViewType DEF IInv
    <3> QED
      BY <2>1, <3>1, <3>3
  <2>2. CASE found = {}
    <3>1. r \in FreeRows(s)
      BY <1>2, <2>2
    <3>2. r \in Rows /\ ~ dev[r].exists /\ r \notin DOMAIN q.plan
      BY <3>1 DEF FreeRows
    <3>3. dev[r] = NoRow
      BY <3>2 DEF IInv, Types
    <3> QED
      BY <2>2, <3>2, <3>3, NoRowFacts
  <2> QED
    BY <2>1, <2>2
<1> HIDE DEF rec, found, q, old
<1>7. /\ new \in DeviceRow /\ new.exists /\ Copies(new, rec) /\ new.align = old.align
  BY <1>5, <1>6 DEF DeviceRow, Records, Copies
<1> HIDE DEF new
<1>8. /\ p.pc = "flush" /\ p.row = r /\ p.k = q.k /\ p.recs = q.recs
      /\ p.base = Put(q.base, r, old) /\ p.plan = Put(q.plan, r, new) /\ p.locked = q.locked
      /\ p.todo = q.todo /\ p.entries = q.entries /\ p.drafts = q.drafts /\ p.told = q.told
      /\ p.overlapped = q.overlapped /\ p.body = q.body
  BY <1>1, <1>4 DEF IsSync
<1>9. /\ IsTable(p.base) /\ IsTable(p.plan)
      /\ DOMAIN p.base = DOMAIN q.base \cup {r} /\ DOMAIN p.plan = DOMAIN q.plan \cup {r}
      /\ p.base[r] = old /\ p.plan[r] = new
      /\ \A x \in DOMAIN q.plan : p.plan[x] = q.plan[x] /\ p.base[x] = q.base[x]
  <2>1. IsTable(q.base) /\ IsTable(q.plan) /\ DOMAIN q.base = DOMAIN q.plan
    BY <1>1 DEF IsSync
  <2>2. /\ IsTable(p.base) /\ DOMAIN p.base = DOMAIN q.base \cup {r} /\ p.base[r] = old
        /\ \A x \in DOMAIN q.base \ {r} : p.base[x] = q.base[x]
    BY <1>6, <1>8, <2>1 DEF IsTable, Put
  <2>3. /\ IsTable(p.plan) /\ DOMAIN p.plan = DOMAIN q.plan \cup {r} /\ p.plan[r] = new
        /\ \A x \in DOMAIN q.plan \ {r} : p.plan[x] = q.plan[x]
    BY <1>6, <1>7, <1>8, <2>1 DEF IsTable, Put
  <2> QED
    BY <1>6, <2>1, <2>2, <2>3
<1>10. IsSync(p)
  BY <1>1, <1>4, <1>8, <1>9 DEF IsSync, Pcs, Active
<1>11. Looked(q) = q.k - 1 /\ Looked(p) = q.k /\ q.k \in Nat \ {0}
  BY <1>1, <1>8 DEF Looked, IsSync
<1>12. \A j \in 1..Looked(q) : j \in 1..Looked(p) /\ q.recs[j].id # rec.id
  BY <1>3, <1>11
<1>13. \A j \in 1..Looked(p) : j \in 1..Looked(q) \/ j = q.k
  BY <1>11
<1>14. Batch(p)
  <2>0. Batch(q)
    BY <1>1 DEF Own
  <2>1. ASSUME NEW x \in DOMAIN p.plan
        PROVE  /\ p.plan[x].exists /\ (p.base[x] = NoRow \/ p.base[x].exists)
               /\ \E j \in 1..Looked(p) : Copies(p.plan[x], p.recs[j])
    <3>1. CASE x = r
      <4>1. Copies(p.plan[x], p.recs[q.k]) /\ q.k \in 1..Looked(p)
        BY <1>7, <1>8, <1>9, <1>11, <3>1 DEF rec
      <4> QED
        BY <1>6, <1>7, <1>9, <3>1, <4>1
    <3>2. CASE x # r
      BY <1>8, <1>9, <1>12, <2>0, <3>2 DEF Batch
    <3> QED
      BY <3>1, <3>2
  <2>2. \A j \in 1..Looked(p) : \E x \in DOMAIN p.plan : Copies(p.plan[x], p.recs[j])
    BY <1>7, <1>8, <1>9, <1>13, <2>0 DEF Batch, rec
  <2>3. ASSUME NEW x \in DOMAIN q.plan PROVE p.plan[x].nbid # p.plan[r].nbid
    <3>1. PICK j \in 1..Looked(q) : Copies(q.plan[x], q.recs[j])
      BY <2>0 DEF Batch
    <3> QED
      BY <1>7, <1>9, <1>12, <3>1 DEF Copies
  <2>4. \A x, y \in DOMAIN p.plan : p.plan[x].nbid = p.plan[y].nbid => x = y
    BY <1>9, <2>0, <2>3 DEF Batch
  <2>5. \A x \in DOMAIN p.locked : p.locked[x].exists
    BY <1>8, <2>0 DEF Batch
  <2> QED
    BY <2>1, <2>2, <2>4, <2>5 DEF Batch
<1>15. Progress(p)
  <2>1. DOMAIN q.entries = {} /\ q.todo = {} /\ DOMAIN q.drafts = {} /\ DOMAIN q.locked = DOMAIN q.plan
    BY <1>1 DEF Own, Progress, Writing
  <2>2. \A x \in DOMAIN q.plan : q.plan[x].align = q.base[x].align
    BY <1>1 DEF Own, Progress, Writing
  <2>3. \A x \in DOMAIN p.plan : p.plan[x].align = p.base[x].align
    BY <1>7, <1>9, <2>2
  <2> QED
    BY <1>5, <1>6, <1>8, <1>9, <2>1, <2>3 DEF Progress, Active, Writing, q
<1>16. RowsInv'
  <2>1. View(s)' = View(s) /\ Locks(s)' = Locks(s) /\ Plans(s)' = Plans(s) \cup {r}
    <3>1. Locks(s)' = Locks(s) /\ sync'[s].locked = sync[s].locked
      BY <1>8 DEF Locks, q
    <3>2. View(s)' = View(s)
      BY <1>3, <3>1 DEF View, Locks
    <3>3. Plans(s)' = Plans(s) \cup {r}
      BY <1>9 DEF Plans, q
    <3> QED
      BY <3>1, <3>2, <3>3
  <2>2. RowsSound(s)'
    <3>1. \A x \in Locks(s)', y \in Rows : x # y => ~ SameKey(View(s)'[y], p.locked[x])
      BY <1>1, <1>8, <2>1 DEF RowsSound, q
    <3>2. \A x \in Plans(s)' : p.base[x].exists => dev'[x].exists
      BY <1>1, <1>3, <1>6, <1>9, <2>1 DEF RowsSound, Plans, q
    <3>3. ~ p.overlapped => /\ \A x \in Plans(s)' : p.base[x] = dev'[x]
                            /\ \A x \in Locks(s)' : p.locked[x] = p.plan[x]
      <4>1. Locks(s) = DOMAIN q.plan
        BY <1>5 DEF Plans, q
      <4>2. ~ q.overlapped => /\ \A x \in Plans(s) : q.base[x] = dev[x]
                              /\ \A x \in Locks(s) : q.locked[x] = q.plan[x]
        BY <1>1 DEF RowsSound, Active, q
      <4>3. Plans(s) = DOMAIN q.plan
        BY DEF Plans, q
      <4>4. p.overlapped = q.overlapped /\ p.locked = q.locked /\ dev' = dev
        BY <1>3, <1>8
      <4>5. ASSUME ~ q.overlapped, NEW x \in Plans(s)' PROVE p.base[x] = dev'[x]
        BY <1>6, <1>9, <2>1, <4>2, <4>3, <4>4, <4>5
      <4>6. ASSUME ~ q.overlapped, NEW x \in Locks(s)' PROVE p.locked[x] = p.plan[x]
        BY <1>9, <2>1, <4>1, <4>2, <4>4, <4>6
      <4> QED
        BY <4>4, <4>5, <4>6
    <3> QED
      BY <3>1, <3>2, <3>3 DEF RowsSound
  <2>3. \A t \in Syncs \ {s} : Own(sync'[t]) /\ RowsSound(t)'
    <3> TAKE t \in Syncs \ {s}
    <3>1. sync'[t] = sync[t] /\ Own(sync[t]) /\ RowsSound(t)
      BY <1>4 DEF IInv, RowsInv, Bystanders
    <3> QED
      BY <1>3, <3>1 DEF RowsSound, Locks, Plans, View
  <2>4. \A t \in Syncs : Locks(t)' = Locks(t) /\ sync'[t].locked = sync[t].locked
    BY <1>4, <1>8 DEF Bystanders, Locks, q
  <2>5. \A t, x \in Syncs : t # x => Apart(t, x)'
    BY <2>4 DEF IInv, RowsInv, Apart
  <2> QED
    BY <1>14, <1>15, <2>2, <2>3, <2>5 DEF RowsInv, Own
<1>17. Mirrored(s)'
  <2>1. DOMAIN p.entries = {} /\ p.pc # "patch"
    BY <1>8, <1>15 DEF Progress, Writing
  <2> QED
    BY <2>1 DEF Mirrored
<1>18. spent' \in Spent /\ audits' \subseteq Syncs \X {"completed", "failed"}
  BY <1>3 DEF IInv, Types, Spent
<1> QED
  BY <1>3, <1>4, <1>10, <1>16, <1>17, <1>18, StepAlone

LEMMA FlushStep ==
  ASSUME IInv, NEW s \in Syncs, Flush(s)
  PROVE  IInv'
<1> DEFINE q == sync[s]
           p == sync'[s]
           r == q.row
           m == Merged(s, r)
           pc == IF q.k = Len(q.recs) THEN "align" ELSE "look"
<1>1. IsSync(q) /\ Own(q) /\ RowsSound(s) /\ q.pc = "flush"
  BY DEF IInv, Types, RowsInv, Flush
<1>2. /\ p = [q EXCEPT !.pc = pc, !.k = q.k + 1, !.row = 0, !.locked = Put(q.locked, r, m)]
      /\ Bystanders(s) /\ UNCHANGED <<nb, dev, verdict, audits, edits, spent>>
      /\ Blockers(s) = {} /\ ~ Duplicates(s)
  BY DEF IInv, Types, Bystanders, Flush
<1>3. r \in Plans(s) /\ r \notin Locks(s) /\ Locks(s) = Plans(s) \ {r} /\ r \in Rows
  BY <1>1 DEF Own, Progress, Plans, Locks, IsSync, IsTable
<1>4. m \in DeviceRow /\ m.exists /\ (q.base[r] = dev[r] => m = q.plan[r])
  BY <1>1, <1>3, MergedFacts DEF IInv, Own, RowsSound
<1>5. /\ IsTable(Put(q.locked, r, m)) /\ DOMAIN Put(q.locked, r, m) = DOMAIN q.plan
      /\ Put(q.locked, r, m)[r] = m
      /\ \A x \in DOMAIN q.locked : x # r /\ Put(q.locked, r, m)[x] = q.locked[x]
  <2>1. DOMAIN q.locked = Locks(s) /\ DOMAIN q.plan = Plans(s) /\ IsTable(q.locked)
    BY <1>1 DEF IsSync, Locks, Plans
  <2> HIDE DEF q, r, m
  <2>2. /\ IsTable(Put(q.locked, r, m)) /\ DOMAIN Put(q.locked, r, m) = DOMAIN q.locked \cup {r}
        /\ Put(q.locked, r, m)[r] = m
        /\ \A x \in DOMAIN q.locked \ {r} : Put(q.locked, r, m)[x] = q.locked[x]
    BY <1>3, <1>4, <2>1 DEF IsTable, Put
  <2> QED
    BY <1>3, <2>1, <2>2
<1>6. \A x \in Rows \ {r} : ~ SameKey(View(s)[x], m)
  BY <1>2 DEF Duplicates
<1>7. ASSUME NEW t \in Syncs \ {s}, NEW x \in Locks(t)
      PROVE  x # r /\ ~ SameKey(sync[t].locked[x], m)
  BY <1>1, <1>2, <1>7 DEF Blockers, Locks
<1> HIDE DEF m, r, q
<1>8. /\ p.pc = pc /\ p.k = q.k + 1 /\ p.recs = q.recs /\ p.base = q.base /\ p.plan = q.plan
      /\ p.locked = Put(q.locked, r, m) /\ p.todo = q.todo /\ p.entries = q.entries
      /\ p.drafts = q.drafts /\ p.told = q.told /\ p.overlapped = q.overlapped
  BY <1>1, <1>2 DEF IsSync
<1>9. q.k \in Nat \ {0} /\ q.k \in DOMAIN q.recs /\ q.recs \in Seq(Records)
  BY <1>1 DEF Own, Progress, IsSync
<1>10. IsSync(p)
  <2>1. pc \in Pcs /\ q.k + 1 \in Nat \ {0}
    BY <1>9 DEF Pcs, Active
  <2> QED
    BY <1>1, <1>2, <1>5, <1>8, <2>1, ZenonT(60) DEF IsSync
<1>11. Looked(p) = Looked(q)
  BY <1>1, <1>8, <1>9 DEF Looked
<1>12. Batch(p)
  <2>1. Batch(q)
    BY <1>1 DEF Own
  <2>2. \A x \in DOMAIN p.locked : x = r \/ x \in DOMAIN q.locked
    BY <1>3, <1>5, <1>8 DEF Locks, Plans, q
  <2>3. \A x \in DOMAIN p.locked : p.locked[x].exists
    <3>1. \A x \in DOMAIN q.locked : q.locked[x].exists
      BY <2>1 DEF Batch
    <3> QED
      BY <1>4, <1>5, <1>8, <2>2, <3>1
  <2> QED
    BY <1>8, <1>11, <2>1, <2>3 DEF Batch
<1>13. Progress(p)
  <2>1. DOMAIN q.entries = {} /\ q.todo = {} /\ DOMAIN q.drafts = {}
    BY <1>1 DEF Own, Progress, Writing
  <2>2. pc = "look" => q.k + 1 \in DOMAIN q.recs
    BY <1>9
  <2>3. pc = "align" => q.k + 1 = Len(q.recs) + 1
    BY <1>9
  <2>4. pc \notin Writing /\ pc \notin {"flush", "patch"} /\ pc \in Active \ {"pull"}
    BY DEF Writing, Active
  <2>5. \A x \in DOMAIN q.plan : q.plan[x].align = q.base[x].align
    BY <1>1 DEF Own, Progress, Writing
  <2> QED
    BY <1>5, <1>8, <2>1, <2>2, <2>3, <2>4, <2>5 DEF Progress, Writing
<1>14. Locks(s)' = Locks(s) \cup {r} /\ Plans(s)' = Plans(s)
  BY <1>3, <1>5, <1>8 DEF Locks, Plans, q
<1>15. \A x \in Rows : View(s)'[x] = IF x = r THEN m ELSE View(s)[x]
  BY <1>2, <1>3, <1>5, <1>8 DEF View, Locks, Plans, q
<1>16. RowsInv'
  <2>1. RowsSound(s)'
    <3>1. ASSUME NEW x \in Locks(s)', NEW y \in Rows, x # y
          PROVE  ~ SameKey(View(s)'[y], p.locked[x])
      <4>1. CASE x = r
        BY <1>5, <1>6, <1>8, <1>15, <3>1, <4>1
      <4>2. CASE x # r
        <5>1. x \in Locks(s) /\ p.locked[x] = q.locked[x] /\ x \in Rows
          BY <1>1, <1>5, <1>8, <1>14, <4>2 DEF Locks, IsSync, IsTable, q
        <5>2. CASE y = r
          <6>1. View(s)[x] = q.locked[x]
            BY <5>1, ViewType DEF IInv, q
          <6>2. ~ SameKey(q.locked[x], m)
            BY <1>6, <4>2, <5>1, <6>1
          <6> QED
            BY <1>15, <5>1, <5>2, <6>2, SameKeySymmetric
        <5>3. CASE y # r
          BY <1>1, <1>15, <3>1, <5>1, <5>3 DEF RowsSound, q
        <5> QED
          BY <5>2, <5>3
      <4> QED
        BY <4>1, <4>2
    <3>2. \A x \in Plans(s)' : p.base[x].exists => dev'[x].exists
      BY <1>1, <1>2, <1>8, <1>14 DEF RowsSound, q
    <3>3. ~ p.overlapped => /\ \A x \in Plans(s)' : p.base[x] = dev'[x]
                            /\ \A x \in Locks(s)' : p.locked[x] = p.plan[x]
      <4>1. ~ q.overlapped => /\ \A x \in Plans(s) : q.base[x] = dev[x]
                              /\ \A x \in Locks(s) : q.locked[x] = q.plan[x]
        BY <1>1 DEF RowsSound, Active, q
      <4> QED
        BY <1>2, <1>3, <1>4, <1>5, <1>8, <1>14, <4>1 DEF Locks, q
    <3> QED
      BY <3>1, <3>2, <3>3 DEF RowsSound
  <2>2. \A t \in Syncs \ {s} : Own(sync'[t]) /\ RowsSound(t)'
    BY <1>2 DEF IInv, RowsInv, RowsSound, Bystanders, Locks, Plans, View
  <2>3. \A t \in Syncs \ {s} : Locks(t)' = Locks(t) /\ sync'[t].locked = sync[t].locked
    BY <1>2 DEF Bystanders, Locks
  <2>4. ASSUME NEW t \in Syncs \ {s} PROVE Apart(s, t)' /\ Apart(t, s)'
    <3>1. Apart(s, t)
      BY <2>4 DEF IInv, RowsInv
    <3>2. ASSUME NEW x \in Locks(s)', NEW y \in Locks(t)
          PROVE  x # y /\ ~ SameKey(sync[t].locked[y], p.locked[x])
      <4>1. CASE x = r
        BY <1>5, <1>7, <1>8, <4>1
      <4>2. CASE x # r
        <5>1. x \in Locks(s) /\ p.locked[x] = q.locked[x]
          BY <1>5, <1>8, <1>14, <4>2 DEF Locks, q
        <5>2. ~ SameKey(q.locked[x], sync[t].locked[y]) /\ x # y
          BY <3>1, <5>1 DEF Apart, q
        <5> QED
          BY <5>1, <5>2, SameKeySymmetric
      <4> QED
        BY <4>1, <4>2
    <3> QED
      BY <2>3, <3>2, SameKeySymmetric DEF Apart
  <2>5. \A t, x \in Syncs \ {s} : t # x => Apart(t, x)'
    BY <2>3 DEF IInv, RowsInv, Apart
  <2> QED
    BY <1>12, <1>13, <2>1, <2>2, <2>4, <2>5 DEF RowsInv, Own
<1>17. Mirrored(s)'
  <2>1. DOMAIN p.entries = {} /\ p.pc # "patch"
    BY <1>8, <1>13 DEF Progress, Writing
  <2> QED
    BY <2>1 DEF Mirrored
<1>18. spent' \in Spent /\ audits' \subseteq Syncs \X {"completed", "failed"}
  BY <1>2 DEF IInv, Types, Spent
<1> QED
  BY <1>2, <1>10, <1>16, <1>17, <1>18, StepAlone

---------------------------------------------------------------------------
(* Alignment.                                                              *)

\* A step that changes the alignment of rows flushed, and goes on to write-back.
LEMMA RealignedStep ==
  ASSUME IInv, NEW s \in Syncs, Bystanders(s), dev' = dev, nb' = nb, verdict' = verdict,
         edits' = edits, spent' \in Spent, audits' = audits,
         sync[s].pc = "align", IsSync(sync'[s]),
         sync'[s].pc \in {"write", "commit"}, sync'[s].k = sync[s].k, sync'[s].recs = sync[s].recs,
         sync'[s].base = sync[s].base, sync'[s].overlapped = sync[s].overlapped,
         sync'[s].entries = sync[s].entries, sync'[s].todo \subseteq Linked(s),
         DOMAIN sync'[s].plan = Plans(s), DOMAIN sync'[s].locked = Locks(s),
         \A r \in Plans(s) : SameIdentity(sync[s].plan[r], sync'[s].plan[r]),
         \A r \in Locks(s) : SameIdentity(sync[s].locked[r], sync'[s].locked[r]),
         DOMAIN sync'[s].drafts \subseteq Plans(s),
         \A r \in DOMAIN sync'[s].drafts :
           sync'[s].plan[r].align = AlignmentStatus(sync'[s].drafts[r]),
         ~ sync[s].overlapped => \A r \in Locks(s) : sync'[s].locked[r] = sync'[s].plan[r]
  PROVE  IInv'
<1> DEFINE q == sync[s]
           p == sync'[s]
<1>1. IsSync(q) /\ Own(q) /\ RowsSound(s) /\ Locks(s) = Plans(s) /\ Linked(s) = LinkedRows(q)
  BY LinkedFlushed DEF IInv, Types, RowsInv
<1>2. q.pc \notin Writing /\ p.pc \in Writing /\ q.pc # "flush" /\ p.pc # "flush"
  BY DEF Writing
<1>3. Plans(s)' = Plans(s) /\ Locks(s)' = Locks(s) /\ Looked(p) = Looked(q)
  BY <1>2 DEF Plans, Locks, Looked
<1>4. LinkedRows(p) = LinkedRows(q)
  <2>1. DOMAIN p.plan = DOMAIN q.plan /\ p.recs = q.recs
    BY <1>3 DEF Plans
  <2>2. \A r \in DOMAIN q.plan : p.locked[r].nbid = q.locked[r].nbid
    <3> TAKE r \in DOMAIN q.plan
    <3>1. r \in Locks(s)
      BY <1>1 DEF Plans
    <3>2. SameIdentity(q.locked[r], p.locked[r])
      BY <3>1
    <3> QED
      BY <3>2 DEF SameIdentity
  <2> QED
    BY <2>1, <2>2 DEF LinkedRows
<1>5. Batch(p)
  <2>1. Batch(q)
    BY <1>1 DEF Own
  <2>2. ASSUME NEW r \in DOMAIN p.plan
        PROVE  /\ p.plan[r].exists /\ (p.base[r] = NoRow \/ p.base[r].exists)
               /\ \E j \in 1..Looked(p) : Copies(p.plan[r], p.recs[j])
    BY <1>3, <2>1 DEF Batch, Copies, SameIdentity, Plans
  <2>3. \A j \in 1..Looked(p) : \E r \in DOMAIN p.plan : Copies(p.plan[r], p.recs[j])
    BY <1>3, <2>1 DEF Batch, Copies, SameIdentity, Plans
  <2>4. \A r, x \in DOMAIN p.plan : p.plan[r].nbid = p.plan[x].nbid => r = x
    BY <2>1 DEF Batch, SameIdentity, Plans
  <2>5. \A r \in DOMAIN p.locked : p.locked[r].exists
    BY <2>1 DEF Batch, SameIdentity, Locks
  <2> QED
    BY <2>2, <2>3, <2>4, <2>5 DEF Batch
<1>6. DOMAIN p.entries = {}
  BY <1>1, <1>2 DEF Own, Progress
<1>7. Progress(p)
  <2>1. p.k = Len(p.recs) + 1
    BY <1>1 DEF Own, Progress
  <2>2. p.pc \notin {"look", "flush", "align", "patch"} /\ p.pc \in Active \ {"pull"}
    BY DEF Active
  <2>3. DOMAIN p.locked = DOMAIN p.plan /\ DOMAIN p.drafts \subseteq DOMAIN p.plan
    BY <1>1
  <2>4. p.todo \subseteq LinkedRows(p)
    BY <1>1, <1>4
  <2> QED
    BY <1>2, <1>6, <2>1, <2>2, <2>3, <2>4 DEF Progress
<1>8. RowsInv'
  <2>1. \A x \in Rows : SameIdentity(View(s)[x], View(s)'[x])
    BY <1>3 DEF View, Locks, SameIdentity
  <2>2. RowsSound(s)'
    <3>1. ASSUME NEW r \in Locks(s)', NEW x \in Rows, r # x
          PROVE  ~ SameKey(View(s)'[x], p.locked[r])
      <4>1. ~ SameKey(View(s)[x], q.locked[r])
        BY <1>1, <1>3, <3>1 DEF RowsSound
      <4>2. SameIdentity(q.locked[r], p.locked[r])
        BY <1>3
      <4> QED
        BY <2>1, <4>1, <4>2, KeyOfIdentity
    <3>2. \A r \in Plans(s)' : p.base[r].exists => dev'[r].exists
      BY <1>1, <1>3 DEF RowsSound
    <3>3. ~ p.overlapped => /\ \A r \in Plans(s)' : p.base[r] = dev'[r]
                            /\ \A r \in Locks(s)' : p.locked[r] = p.plan[r]
      BY <1>1, <1>3 DEF RowsSound, Active
    <3> QED
      BY <3>1, <3>2, <3>3 DEF RowsSound
  <2>3. \A t \in Syncs \ {s} : Own(sync'[t]) /\ RowsSound(t)'
    BY DEF IInv, RowsInv, RowsSound, Bystanders, Locks, Plans, View
  <2>4. \A t \in Syncs \ {s} : Locks(t)' = Locks(t) /\ sync'[t].locked = sync[t].locked
    BY DEF Bystanders, Locks
  <2>5. ASSUME NEW t \in Syncs \ {s} PROVE Apart(s, t)' /\ Apart(t, s)'
    <3>1. Apart(s, t)
      BY DEF IInv, RowsInv
    <3>2. ASSUME NEW r \in Locks(s), NEW x \in Locks(t)
          PROVE  ~ SameKey(p.locked[r], sync[t].locked[x])
      <4>1. ~ SameKey(q.locked[r], sync[t].locked[x])
        BY <3>1 DEF Apart
      <4>2. SameIdentity(q.locked[r], p.locked[r])
        BY <3>2
      <4>3. SameIdentity(sync[t].locked[x], sync[t].locked[x])
        BY DEF SameIdentity
      <4> QED
        BY <4>1, <4>2, <4>3, KeyOfIdentity
    <3>3. Locks(s) \cap Locks(t) = {}
      BY <3>1 DEF Apart
    <3> QED
      BY <1>3, <2>4, <3>2, <3>3, SameKeySymmetric DEF Apart
  <2>6. \A t, x \in Syncs \ {s} : t # x => Apart(t, x)'
    BY <2>4 DEF IInv, RowsInv, Apart
  <2> QED
    BY <1>5, <1>7, <2>2, <2>3, <2>5, <2>6 DEF RowsInv, Own
<1>9. Mirrored(s)'
  BY <1>6 DEF Mirrored
<1>10. audits' \subseteq Syncs \X {"completed", "failed"}
  BY DEF IInv, Types
<1> QED
  BY <1>8, <1>9, <1>10, StepAlone

\* What Aligned and Restated leave.
LEMMA AlignedFacts ==
  ASSUME IInv, NEW s \in Syncs, NEW ipam
  PROVE  LET q == sync[s]
             p == Aligned(s, ipam)
         IN /\ IsSync(p) /\ p.pc \in {"write", "commit"} /\ p.k = q.k /\ p.recs = q.recs
            /\ p.base = q.base /\ p.plan = q.plan /\ p.locked = q.locked
            /\ p.overlapped = q.overlapped /\ p.entries = q.entries /\ p.drafts = q.drafts
            /\ p.todo \subseteq Linked(s)
<1> DEFINE q == sync[s]
           todo == IF q.setting.writeback THEN Linked(s) ELSE {}
           pc == IF todo = {} THEN "commit" ELSE "write"
           p == Aligned(s, ipam)
<1>1. p = [q EXCEPT !.pc = pc, !.todo = todo, !.ipam = ipam]
  BY DEF Aligned
<1>2. IsSync(q)
  BY DEF IInv, Types
<1>3. Linked(s) \subseteq Rows
  BY <1>2 DEF Linked, IsSync, IsTable
<1>4. todo \subseteq Linked(s) /\ todo \in SUBSET Rows /\ pc \in {"write", "commit"} /\ pc \in Pcs
  BY <1>3 DEF Pcs, Active
<1> HIDE DEF todo, pc
<1>5. IsSync(p)
  BY <1>1, <1>2, <1>4, ZenonT(60) DEF IsSync
<1> QED
  BY <1>1, <1>2, <1>4, <1>5 DEF IsSync

LEMMA StatusType ==
  ASSUME NEW drafts
  PROVE  AlignmentStatus(drafts) \in {Unknown, "aligned", "mismatch"}
  BY DEF AlignmentStatus, Unknown

LEMMA RestatedFacts ==
  ASSUME IInv, NEW s \in Syncs, sync[s].pc = "align", NEW drafts, DOMAIN drafts \subseteq Plans(s)
  PROVE  LET q == sync[s]
             p == Restated(s, drafts)
         IN /\ IsSync(p) /\ p.pc \in {"write", "commit"} /\ p.k = q.k /\ p.recs = q.recs
            /\ p.base = q.base /\ p.overlapped = q.overlapped /\ p.entries = q.entries
            /\ p.todo \subseteq Linked(s) /\ p.drafts = drafts
            /\ DOMAIN p.plan = Plans(s) /\ DOMAIN p.locked = Locks(s)
            /\ \A r \in Plans(s) : SameIdentity(q.plan[r], p.plan[r])
            /\ \A r \in Locks(s) : SameIdentity(q.locked[r], p.locked[r])
            /\ \A r \in DOMAIN drafts : p.plan[r].align = AlignmentStatus(drafts[r])
            /\ ~ q.overlapped => \A r \in Locks(s) : p.locked[r] = p.plan[r]
<1> DEFINE q == sync[s]
           a == Aligned(s, "unfinished")
           plan == [r \in DOMAIN q.plan |->
                      IF r \in DOMAIN drafts
                      THEN [q.plan[r] EXCEPT !.align = AlignmentStatus(drafts[r])] ELSE q.plan[r]]
           locked == [r \in DOMAIN q.locked |->
                        IF r \in DOMAIN drafts /\ AlignmentStatus(drafts[r]) # q.base[r].align
                        THEN [q.locked[r] EXCEPT !.align = AlignmentStatus(drafts[r])]
                        ELSE q.locked[r]]
           p == Restated(s, drafts)
<1>1. p = [a EXCEPT !.plan = plan, !.locked = locked, !.drafts = drafts]
  BY DEF Restated
<1>2. IsSync(q) /\ Own(q) /\ RowsSound(s) /\ Locks(s) = Plans(s)
  BY LinkedFlushed DEF IInv, Types, RowsInv
<1>3. /\ IsSync(a) /\ a.pc \in {"write", "commit"} /\ a.k = q.k /\ a.recs = q.recs
      /\ a.base = q.base /\ a.plan = q.plan /\ a.locked = q.locked /\ a.overlapped = q.overlapped
      /\ a.entries = q.entries /\ a.todo \subseteq Linked(s)
  BY AlignedFacts
<1>4. \A r \in Plans(s) : q.plan[r] \in DeviceRow
  BY <1>2 DEF IsSync, IsTable, Plans
<1>5. \A r \in Locks(s) : q.locked[r] \in DeviceRow
  BY <1>2 DEF IsSync, IsTable, Locks
<1>6. \A r \in Plans(s) : /\ plan[r] \in DeviceRow /\ SameIdentity(q.plan[r], plan[r])
                          /\ r \in DOMAIN drafts => plan[r].align = AlignmentStatus(drafts[r])
  BY <1>4, StatusType DEF Plans, DeviceRow, SameIdentity
<1>7. \A r \in Locks(s) : locked[r] \in DeviceRow /\ SameIdentity(q.locked[r], locked[r])
  BY <1>5, StatusType DEF Locks, DeviceRow, SameIdentity
<1>8. ASSUME ~ q.overlapped, NEW r \in Locks(s) PROVE locked[r] = plan[r]
  <2>1. q.locked[r] = q.plan[r]
    BY <1>2, <1>8 DEF RowsSound, Active
  <2>2. q.plan[r].align = q.base[r].align /\ q.plan[r] \in DeviceRow
    BY <1>2, <1>4 DEF Own, Progress, Writing, Plans
  <2>3. AlignmentStatus(drafts[r]) = q.plan[r].align =>
          [q.plan[r] EXCEPT !.align = AlignmentStatus(drafts[r])] = q.plan[r]
    BY <2>2 DEF DeviceRow
  <2> QED
    BY <1>2, <2>1, <2>2, <2>3 DEF Locks, Plans
<1>9. IsTable(plan) /\ IsTable(locked) /\ DOMAIN plan = Plans(s) /\ DOMAIN locked = Locks(s)
  BY <1>2, <1>6, <1>7 DEF IsSync, IsTable, Plans, Locks
<1> HIDE DEF plan, locked, a
<1>10. /\ p.plan = plan /\ p.locked = locked /\ p.drafts = drafts /\ p.pc = a.pc /\ p.k = a.k
       /\ p.recs = a.recs /\ p.base = a.base /\ p.overlapped = a.overlapped
       /\ p.entries = a.entries /\ p.todo = a.todo /\ p.told = a.told
  BY <1>1, <1>3 DEF IsSync
<1>11. IsSync(p)
  <2>1. DOMAIN p.base = DOMAIN p.plan /\ DOMAIN p.locked \subseteq DOMAIN p.plan
    BY <1>2, <1>3, <1>9, <1>10 DEF IsSync, Plans
  <2> QED
    BY <1>1, <1>3, <1>9, <1>10, <2>1 DEF IsSync
<1> QED
  BY <1>3, <1>6, <1>7, <1>8, <1>9, <1>10, <1>11

LEMMA AlignStep ==
  ASSUME IInv, NEW s \in Syncs, Align(s)
  PROVE  IInv'
<1> DEFINE q == sync[s]
           p == sync'[s]
<1>1. q.pc = "align" /\ UNCHANGED <<nb, dev, verdict, audits, edits, spent>> /\ Bystanders(s)
  BY DEF IInv, Types, Align, Bystanders
<1>2. IsSync(q) /\ Own(q) /\ RowsSound(s) /\ Locks(s) = Plans(s)
  BY <1>1, LinkedFlushed DEF IInv, Types, RowsInv
<1>3. spent' \in Spent
  BY <1>1 DEF IInv, Types, Spent
<1>4. DOMAIN q.drafts = {}
  BY <1>1, <1>2 DEF Own, Progress, Writing
<1>5. ASSUME NEW ipam, p = Aligned(s, ipam) PROVE IInv'
  <2>1. \A r \in Plans(s) : SameIdentity(q.plan[r], q.plan[r])
    BY DEF SameIdentity
  <2>2. \A r \in Locks(s) : SameIdentity(q.locked[r], q.locked[r])
    BY DEF SameIdentity
  <2>3. ~ q.overlapped => \A r \in Locks(s) : q.locked[r] = q.plan[r]
    BY <1>1, <1>2 DEF RowsSound, Active
  <2>4. /\ IsSync(p) /\ p.pc \in {"write", "commit"} /\ p.k = q.k /\ p.recs = q.recs
        /\ p.base = q.base /\ p.plan = q.plan /\ p.locked = q.locked
        /\ p.overlapped = q.overlapped /\ p.entries = q.entries /\ p.drafts = q.drafts
        /\ p.todo \subseteq Linked(s)
    <3>1. LET x == Aligned(s, ipam)
          IN /\ IsSync(x) /\ x.pc \in {"write", "commit"} /\ x.k = q.k /\ x.recs = q.recs
             /\ x.base = q.base /\ x.plan = q.plan /\ x.locked = q.locked
             /\ x.overlapped = q.overlapped /\ x.entries = q.entries /\ x.drafts = q.drafts
             /\ x.todo \subseteq Linked(s)
      BY AlignedFacts
    <3> QED
      BY <1>5, <3>1
  <2> QED
    BY <1>1, <1>3, <1>4, <2>1, <2>2, <2>3, <2>4, RealignedStep DEF Plans, Locks
<1>6. ASSUME NEW m, p = AlignWith(s, m) PROVE IInv'
  <2>1. CASE Linked(s) = {} \/ ~ ManifestLoads(m, Kinds)
    BY <1>5, <1>6, <2>1 DEF AlignWith
  <2>2. CASE ~ (Linked(s) = {} \/ ~ ManifestLoads(m, Kinds))
    <3> DEFINE drafts == Drafts(s, m)
               a == Restated(s, drafts)
               ipam == RunStatus(UNION {drafts[r] : r \in Linked(s)}, m)
    <3>1. p = [a EXCEPT !.ipam = ipam]
      BY <1>6, <2>2 DEF AlignWith
    <3>2. DOMAIN drafts \subseteq Plans(s)
      BY DEF Drafts, Linked, Plans
    <3> HIDE DEF drafts, ipam
    <3>3. /\ IsSync(a) /\ a.pc \in {"write", "commit"} /\ a.k = q.k /\ a.recs = q.recs
          /\ a.base = q.base /\ a.overlapped = q.overlapped /\ a.entries = q.entries
          /\ a.todo \subseteq Linked(s) /\ a.drafts = drafts
          /\ DOMAIN a.plan = Plans(s) /\ DOMAIN a.locked = Locks(s)
          /\ \A r \in Plans(s) : SameIdentity(q.plan[r], a.plan[r])
          /\ \A r \in Locks(s) : SameIdentity(q.locked[r], a.locked[r])
          /\ \A r \in DOMAIN drafts : a.plan[r].align = AlignmentStatus(drafts[r])
          /\ ~ q.overlapped => \A r \in Locks(s) : a.locked[r] = a.plan[r]
      BY <1>1, <3>2, RestatedFacts
    <3> HIDE DEF a
    <3>4. /\ p.pc = a.pc /\ p.k = a.k /\ p.recs = a.recs /\ p.base = a.base /\ p.plan = a.plan
          /\ p.locked = a.locked /\ p.overlapped = a.overlapped /\ p.entries = a.entries
          /\ p.todo = a.todo /\ p.drafts = a.drafts /\ p.told = a.told
      BY <3>1, <3>3 DEF IsSync
    <3>5. IsSync(p)
      BY <3>1, <3>3, <3>4 DEF IsSync
    <3> QED
      BY <1>1, <1>3, <3>2, <3>3, <3>4, <3>5, RealignedStep
  <2> QED
    BY <2>1, <2>2
<1>7. \/ \E m \in Manifests : p = AlignWith(s, m)
      \/ p = Aligned(s, "skipped")
  BY DEF Align, IInv, Types
<1> QED
  BY <1>5, <1>6, <1>7

LEMMA AlignFailsStep ==
  ASSUME IInv, NEW s \in Syncs, AlignFails(s)
  PROVE  IInv'
<1> DEFINE q == sync[s]
           p == sync'[s]
<1>1. q.pc = "align" /\ UNCHANGED <<nb, dev, verdict, audits, edits>> /\ Bystanders(s)
  BY DEF IInv, Types, AlignFails, Bystanders
<1>2. spent' \in Spent
  <2>1. spent \in Spent
    BY DEF IInv, Types, Spent
  <2>2. spent' = spent \/ Spend("faults", MaxFaults)
    BY DEF AlignFails
  <2> QED
    BY <2>1, <2>2, SpendTypes
<1>3. PICK set : /\ DOMAIN set \subseteq Linked(s)
                 /\ p = [Restated(s, set) EXCEPT !.drafts = [r \in {} |-> {}]]
  <2>1. PICK m \in Manifests, evaluated \in SUBSET Linked(s) :
          p = [Restated(s, [r \in evaluated |-> Drafts(s, m)[r]]) EXCEPT !.drafts = [r \in {} |-> {}]]
    BY DEF AlignFails, IInv, Types
  <2> QED
    BY <2>1
<1> DEFINE a == Restated(s, set)
<1>4. DOMAIN set \subseteq Plans(s)
  BY <1>3 DEF Linked, Plans
<1>5. /\ IsSync(a) /\ a.pc \in {"write", "commit"} /\ a.k = q.k /\ a.recs = q.recs
      /\ a.base = q.base /\ a.overlapped = q.overlapped /\ a.entries = q.entries
      /\ a.todo \subseteq Linked(s)
      /\ DOMAIN a.plan = Plans(s) /\ DOMAIN a.locked = Locks(s)
      /\ \A r \in Plans(s) : SameIdentity(q.plan[r], a.plan[r])
      /\ \A r \in Locks(s) : SameIdentity(q.locked[r], a.locked[r])
      /\ ~ q.overlapped => \A r \in Locks(s) : a.locked[r] = a.plan[r]
  BY <1>1, <1>4, RestatedFacts
<1>6. p = [a EXCEPT !.drafts = [r \in {} |-> {}]]
  BY <1>3
<1> HIDE DEF a
<1>7. /\ p.pc = a.pc /\ p.k = a.k /\ p.recs = a.recs /\ p.base = a.base /\ p.plan = a.plan
      /\ p.locked = a.locked /\ p.overlapped = a.overlapped /\ p.entries = a.entries
      /\ p.todo = a.todo /\ DOMAIN p.drafts = {} /\ p.told = a.told
  BY <1>5, <1>6 DEF IsSync
<1>8. IsSync(p)
  BY <1>5, <1>6, <1>7 DEF IsSync
<1> QED
  BY <1>1, <1>2, <1>5, <1>7, <1>8, RealignedStep

---------------------------------------------------------------------------
(* Write-back.                                                             *)

LEMMA ReconciledFacts ==
  ASSUME NEW tags, NEW told \in Postures, NEW align
  PROVE  LET wanted == DesiredTags(told, align)
             all == ReconciledTags(tags, wanted, Verdicts)
         IN /\ all \cap ManagedTags(Verdicts) = wanted
            /\ all # {}
            /\ wanted \subseteq ManagedTags(Verdicts)
            /\ tags \in SUBSET Tags => all \in SUBSET Tags
<1> DEFINE wanted == DesiredTags(told, align)
           all == ReconciledTags(tags, wanted, Verdicts)
<1>1. wanted \subseteq ManagedTags(Verdicts)
  BY DEF DesiredTags, ManagedTags, Postures
<1>2. "managed" \in wanted
  BY DEF DesiredTags
<1>3. all = (tags \ ManagedTags(Verdicts)) \cup wanted
  BY DEF ReconciledTags
<1> HIDE DEF wanted, all
<1> QED
  BY <1>1, <1>2, <1>3 DEF wanted, all, Tags

LEMMA DesiredFacts ==
  ASSUME NEW told \in Postures, NEW align \in {Unknown, "aligned", "mismatch"}
  PROVE  /\ DesiredFields(told, align) \in
              [Fields -> Verdicts \cup {Empty, Unknown, Edited, "aligned", "mismatch"}]
         /\ DesiredFields(told, align) # <<>>
<1> DEFINE want == DesiredFields(told, align)
<1>1. want = [posture |-> told, alignment |-> align]
  BY DEF DesiredFields
<1>2. want \in [Fields -> Verdicts \cup {Empty, Unknown, Edited, "aligned", "mismatch"}]
  BY <1>1 DEF Fields, Postures
<1>3. "posture" \in DOMAIN want
  BY <1>1
<1>4. DOMAIN <<>> = {}
  OBVIOUS
<1> QED
  BY <1>2, <1>3, <1>4

\* The publication of a device leaves the batch as it is.
LEMMA PublicationOwn ==
  ASSUME NEW q, NEW p, Own(q), SameRows(q, p), p.recs = q.recs, p.k = q.k, p.drafts = q.drafts,
         q.pc \in {"write", "patch"}, p.pc \in Writing,
         p.todo \subseteq q.todo, DOMAIN p.entries \subseteq DOMAIN q.entries \cup q.todo,
         p.todo \cap DOMAIN p.entries = {},
         \A r \in DOMAIN p.entries :
           p.entries[r] \in {"updated", "unchanged"} => r \in DOMAIN p.told,
         p.pc = "patch" => /\ p.row \in p.todo /\ p.row \in DOMAIN p.told
                           /\ p.body.cf \in {<<>>, Want(p, p.row)} /\ p.body.tags \subseteq Tags
  PROVE  Own(p)
<1>1. Looked(p) = Looked(q)
  BY DEF Looked, Writing
<1>2. Batch(p)
  BY <1>1 DEF Own, Batch, SameRows
<1>3. LinkedRows(p) = LinkedRows(q)
  BY DEF LinkedRows, SameRows
<1>4. p.pc \in Active \ {"pull"} /\ p.pc \notin {"look", "flush", "align"}
  BY DEF Writing, Active
<1>5. /\ q.pc \in Writing /\ q.todo \cup DOMAIN q.entries \subseteq LinkedRows(q)
      /\ q.k = Len(q.recs) + 1 /\ DOMAIN q.locked = DOMAIN q.plan
      /\ DOMAIN q.drafts \subseteq DOMAIN q.plan
      /\ \A r \in DOMAIN q.drafts : q.plan[r].align = AlignmentStatus(q.drafts[r])
  BY DEF Own, Progress, Writing
<1>6. Progress(p)
  BY <1>3, <1>4, <1>5 DEF Progress, SameRows
<1> QED
  BY <1>2, <1>6 DEF Own

LEMMA EntryFacts ==
  ASSUME NEW s \in Syncs, IsSync(sync[s]), NEW r \in sync[s].todo, NEW status
  PROVE  LET q == sync[s]
             p == Entry(s, r, status)
         IN /\ IsSync(p) /\ SameRows(q, p) /\ p.recs = q.recs /\ p.k = q.k /\ p.drafts = q.drafts
            /\ p.pc \in {"write", "commit"} /\ p.todo = q.todo \ {r} /\ p.told = q.told
            /\ p.seen = q.seen /\ p.overlapped = q.overlapped
            /\ DOMAIN p.entries = DOMAIN q.entries \cup {r} /\ p.entries[r] = status
            /\ \A x \in DOMAIN q.entries \ {r} : p.entries[x] = q.entries[x]
<1> DEFINE q == sync[s]
           pc == IF q.todo = {r} THEN "commit" ELSE "write"
           entries == Put(q.entries, r, status)
           body == [cf |-> <<>>, tags |-> {}]
           p == Entry(s, r, status)
<1>1. p = [q EXCEPT !.pc = pc, !.todo = q.todo \ {r}, !.entries = entries, !.row = 0, !.body = body]
  BY DEF Entry
<1>2. pc \in {"write", "commit"} /\ pc \in Pcs
  BY DEF Pcs, Active
<1>3. /\ DOMAIN entries = DOMAIN q.entries \cup {r} /\ entries[r] = status
      /\ \A x \in DOMAIN q.entries \ {r} : entries[x] = q.entries[x]
  BY DEF Put
<1> HIDE DEF pc, entries, body
<1>4. /\ SameRows(q, p) /\ p.recs = q.recs /\ p.k = q.k /\ p.drafts = q.drafts /\ p.pc = pc
      /\ p.todo = q.todo \ {r} /\ p.told = q.told /\ p.seen = q.seen
      /\ p.overlapped = q.overlapped /\ p.entries = entries
  BY <1>1 DEF IsSync, SameRows
<1>5. IsSync(p)
  <2>1. q.todo \ {r} \in SUBSET Rows
    BY DEF IsSync
  <2>2. IsTable(p.base) /\ IsTable(p.plan) /\ IsTable(p.locked) /\ DOMAIN p.base = DOMAIN p.plan
        /\ DOMAIN p.locked \subseteq DOMAIN p.plan /\ p.told \in [DOMAIN p.told -> Postures]
    BY <1>4 DEF IsSync, SameRows
  <2> QED
    BY <1>1, <1>2, <2>1, <2>2, ZenonT(60) DEF IsSync
<1> QED
  BY <1>2, <1>3, <1>4, <1>5

LEMMA GetStep ==
  ASSUME IInv, NEW s \in Syncs, Get(s)
  PROVE  IInv'
<1> DEFINE q == sync[s]
           p == sync'[s]
<1>1. /\ IsSync(q) /\ Own(q) /\ q.pc = "write"
      /\ UNCHANGED <<nb, dev, verdict, audits, edits, spent>> /\ Bystanders(s)
  BY DEF IInv, Types, RowsInv, Get, Bystanders
<1>2. PICK r \in q.todo :
        LET i    == q.plan[r].nbid
            want == DesiredFields(verdict[r], q.plan[r].align)
            tags == ReconciledTags(nb[i].tags, DesiredTags(verdict[r], q.plan[r].align), Verdicts)
            todo == EntryDecision(nb[i].cf, nb[i].tags, want, tags)
            read == [IF todo = "patch"
                     THEN [q EXCEPT !.pc = "patch", !.row = r,
                                    !.body = [cf |-> IF nb[i].cf = want THEN <<>> ELSE want,
                                              tags |-> IF nb[i].tags = tags THEN {} ELSE tags]]
                     ELSE Entry(s, r, todo)
                     EXCEPT !.told = Put(@, r, verdict[r]), !.seen = @ \cup {i}]
        IN p = IF nb[i].present THEN read ELSE Entry(s, r, "failed")
  BY DEF Get, IInv, Types
<1> DEFINE i == q.plan[r].nbid
           want == DesiredFields(verdict[r], q.plan[r].align)
           wanted == DesiredTags(verdict[r], q.plan[r].align)
           tags == ReconciledTags(nb[i].tags, wanted, Verdicts)
           todo == EntryDecision(nb[i].cf, nb[i].tags, want, tags)
           told == Put(q.told, r, verdict[r])
           body == [cf |-> IF nb[i].cf = want THEN <<>> ELSE want,
                    tags |-> IF nb[i].tags = tags THEN {} ELSE tags]
           e == Entry(s, r, todo)
           x == [q EXCEPT !.pc = "patch", !.row = r, !.body = body]
<1>3. /\ r \in Rows /\ r \in Plans(s) /\ i \in Ids /\ verdict[r] \in Postures
      /\ q.plan[r].align \in {Unknown, "aligned", "mismatch"} /\ nb[i] \in NetBoxDevice
  <2>1. r \in Rows /\ r \in Plans(s)
    BY <1>1 DEF Own, Progress, Writing, LinkedRows, Plans, IsSync
  <2>2. q.plan[r] \in DeviceRow /\ i \in Ids
    BY <1>1, <2>1, PlannedIds DEF IsSync, IsTable, Plans
  <2> QED
    BY <2>1, <2>2 DEF IInv, Types, DeviceRow
<1>4. /\ DOMAIN told = DOMAIN q.told \cup {r} /\ told[r] = verdict[r]
      /\ \A y \in DOMAIN q.told \ {r} : told[y] = q.told[y]
      /\ told \in [DOMAIN told -> Postures]
  <2>1. q.told \in [DOMAIN q.told -> Postures]
    BY <1>1 DEF IsSync
  <2> QED
    BY <1>3, <2>1 DEF Put
<1>5. \A y \in DOMAIN q.entries : y # r /\ y \in Plans(s) /\ q.plan[y].nbid # i
  <2>1. q.todo \cap DOMAIN q.entries = {} /\ DOMAIN q.entries \subseteq LinkedRows(q)
    BY <1>1 DEF Own, Progress, Writing
  <2>2. \A y \in Plans(s) : q.plan[y].nbid = i => y = r
    BY <1>1, <1>3 DEF Own, Batch, Plans
  <2> QED
    BY <2>1, <2>2 DEF LinkedRows, Plans
<1>6. \A y \in DOMAIN q.entries : q.entries[y] \in {"updated", "unchanged"} => y \in DOMAIN q.told
  BY <1>1 DEF Own, Progress
<1>7. \A y \in DOMAIN q.entries :
        (q.entries[y] \in {"updated", "unchanged"} /\ q.plan[y].nbid \in q.seen) =>
          Shows(nb[q.plan[y].nbid], q.told[y], q.plan[y].align)
  BY DEF IInv, Mirrored
<1>8. q.todo \cap DOMAIN q.entries = {}
  BY <1>1 DEF Own, Progress
<1>9. spent' \in Spent /\ audits' \subseteq Syncs \X {"completed", "failed"}
  BY <1>1 DEF IInv, Types, Spent
<1>10. tags \cap ManagedTags(Verdicts) = wanted /\ tags \in SUBSET Tags
  BY <1>3, ReconciledFacts, SMTT(30) DEF NetBoxDevice, Tags
<1>11. IF nb[i].present
       THEN IF todo = "patch" THEN p = [x EXCEPT !.told = told, !.seen = q.seen \cup {i}]
                              ELSE p = [e EXCEPT !.told = Put(e.told, r, verdict[r]), !.seen = e.seen \cup {i}]
       ELSE p = Entry(s, r, "failed")
  <2>1. IsSync(x) /\ x.told = q.told /\ x.seen = q.seen
    <3>1. "patch" \in Pcs
      BY DEF Pcs, Active
    <3> HIDE DEF body
    <3> QED
      BY <1>1, <3>1 DEF IsSync
  <2> QED
    BY <1>2, <2>1
<1>12. /\ IsSync(e) /\ SameRows(q, e) /\ e.recs = q.recs /\ e.k = q.k /\ e.drafts = q.drafts
       /\ e.pc \in {"write", "commit"} /\ e.todo = q.todo \ {r} /\ e.told = q.told
       /\ e.seen = q.seen /\ e.overlapped = q.overlapped
       /\ DOMAIN e.entries = DOMAIN q.entries \cup {r} /\ e.entries[r] = todo
       /\ \A y \in DOMAIN q.entries \ {r} : e.entries[y] = q.entries[y]
  <2> HIDE DEF todo
  <2>1. LET v == Entry(s, r, todo)
        IN /\ IsSync(v) /\ SameRows(q, v) /\ v.recs = q.recs /\ v.k = q.k /\ v.drafts = q.drafts
           /\ v.pc \in {"write", "commit"} /\ v.todo = q.todo \ {r} /\ v.told = q.told
           /\ v.seen = q.seen /\ v.overlapped = q.overlapped
           /\ DOMAIN v.entries = DOMAIN q.entries \cup {r} /\ v.entries[r] = todo
           /\ \A y \in DOMAIN q.entries \ {r} : v.entries[y] = q.entries[y]
    BY <1>1, EntryFacts
  <2> QED
    BY <2>1
<1>13. CASE ~ nb[i].present
  <2> DEFINE f == Entry(s, r, "failed")
  <2>1. /\ IsSync(f) /\ SameRows(q, f) /\ f.recs = q.recs /\ f.k = q.k /\ f.drafts = q.drafts
        /\ f.pc \in {"write", "commit"} /\ f.todo = q.todo \ {r} /\ f.told = q.told
        /\ f.seen = q.seen /\ f.overlapped = q.overlapped
        /\ DOMAIN f.entries = DOMAIN q.entries \cup {r} /\ f.entries[r] = "failed"
        /\ \A y \in DOMAIN q.entries \ {r} : f.entries[y] = q.entries[y]
    BY <1>1, EntryFacts
  <2>2. p = f
    BY <1>11, <1>13
  <2> HIDE DEF f
  <2>3. \A y \in DOMAIN p.entries :
          p.entries[y] \in {"updated", "unchanged"} => y \in DOMAIN p.told
    BY <1>6, <2>1, <2>2
  <2>4. Own(p)
    <3>1. p.todo \cap DOMAIN p.entries = {} /\ p.pc \in Writing /\ p.pc # "patch"
      BY <1>8, <2>1, <2>2 DEF Writing
    <3> QED
      BY <1>1, <2>1, <2>2, <2>3, <3>1, PublicationOwn
  <2>5. Mirrored(s)'
    BY <1>1, <1>5, <1>7, <2>1, <2>2 DEF Mirrored, SameRows
  <2> QED
    BY <1>1, <1>9, <2>1, <2>2, <2>4, <2>5, StepApart DEF Active
<1>14. CASE nb[i].present /\ todo = "patch"
  <2>1. p = [x EXCEPT !.told = told, !.seen = q.seen \cup {i}]
    BY <1>11, <1>14
  <2>2. "patch" \in Pcs /\ q.seen \cup {i} \in SUBSET Ids
    BY <1>1, <1>3 DEF Pcs, Active, IsSync
  <2>3. body.cf \in {<<>>, want} /\ body.tags \subseteq Tags
    BY <1>10
  <2>4. /\ body.cf = IF nb[i].cf = want THEN <<>> ELSE want
        /\ body.tags = IF nb[i].tags = tags THEN {} ELSE tags
    OBVIOUS
  <2>5. Conflicts(nb[i].cf, want) = {}
    BY <1>14 DEF EntryDecision
  <2> HIDE DEF body, told
  <2>6. /\ SameRows(q, p) /\ p.recs = q.recs /\ p.k = q.k /\ p.drafts = q.drafts /\ p.pc = "patch"
        /\ p.row = r /\ p.todo = q.todo /\ p.entries = q.entries /\ p.told = told
        /\ p.seen = q.seen \cup {i} /\ p.overlapped = q.overlapped /\ p.body = body
    BY <1>1, <2>1 DEF IsSync, SameRows
  <2>7. IsSync(p)
    BY <1>1, <1>4, <2>1, <2>2, <2>6, ZenonT(60) DEF IsSync
  <2>8. Want(p, r) = want /\ p.plan = q.plan
    BY <1>4, <2>6 DEF Want, SameRows
  <2>9. Own(p)
    <3>1. p.pc \in Writing /\ p.todo \cap DOMAIN p.entries = {}
      BY <1>8, <2>6 DEF Writing
    <3>2. \A y \in DOMAIN p.entries :
            p.entries[y] \in {"updated", "unchanged"} => y \in DOMAIN p.told
      BY <1>4, <1>6, <2>6
    <3>3. /\ p.row \in p.todo /\ p.row \in DOMAIN p.told
          /\ p.body.cf \in {<<>>, Want(p, p.row)} /\ p.body.tags \subseteq Tags
      BY <1>4, <2>3, <2>6, <2>8
    <3>4. p.todo \subseteq q.todo /\ DOMAIN p.entries \subseteq DOMAIN q.entries \cup q.todo
      BY <2>6
    <3> QED
      BY <1>1, <2>6, <3>1, <3>2, <3>3, <3>4, PublicationOwn
  <2>10. Mirrored(s)'
    <3>1. ASSUME NEW y \in DOMAIN p.entries,
                 p.entries[y] \in {"updated", "unchanged"}, p.plan[y].nbid \in p.seen
          PROVE  Shows(nb'[p.plan[y].nbid], p.told[y], p.plan[y].align)
      <4>1. y # r /\ q.plan[y].nbid # i /\ y \in DOMAIN q.told
        BY <1>5, <1>6, <2>6, <3>1
      <4>2. q.plan[y].nbid \in q.seen
        BY <2>6, <2>8, <3>1, <4>1
      <4> QED
        BY <1>1, <1>4, <1>7, <2>6, <2>8, <3>1, <4>1, <4>2
    <3>2. /\ p.plan[p.row].nbid = i /\ Want(p, p.row) = want /\ nb' = nb
          /\ DesiredTags(p.told[p.row], p.plan[p.row].align) = wanted
      BY <1>1, <1>4, <2>6, <2>8
    <3> QED
      BY <2>4, <2>5, <2>6, <3>1, <3>2 DEF Mirrored
  <2> QED
    BY <1>1, <1>9, <2>6, <2>7, <2>9, <2>10, StepApart DEF Active
<1>15. CASE nb[i].present /\ todo # "patch"
  <2>1. p = [e EXCEPT !.told = told, !.seen = q.seen \cup {i}]
    BY <1>11, <1>12, <1>15
  <2>2. q.seen \cup {i} \in SUBSET Ids
    BY <1>1, <1>3 DEF IsSync
  <2>3. todo = "unchanged" => nb[i].cf = want /\ nb[i].tags = tags
    BY DEF EntryDecision
  <2>4. todo \notin {"updated"}
    BY DEF EntryDecision
  <2> HIDE DEF told, todo, e
  <2>5. /\ SameRows(q, p) /\ p.recs = q.recs /\ p.k = q.k /\ p.drafts = q.drafts
        /\ p.pc = e.pc /\ p.todo = e.todo /\ p.entries = e.entries /\ p.told = told
        /\ p.seen = q.seen \cup {i} /\ p.overlapped = q.overlapped
    BY <1>12, <2>1 DEF IsSync, SameRows
  <2>6. IsSync(p)
    BY <1>4, <1>12, <2>1, <2>2, <2>5 DEF IsSync
  <2>7. Own(p)
    <3>1. p.pc \in Writing /\ p.pc # "patch" /\ p.todo \cap DOMAIN p.entries = {}
      BY <1>8, <1>12, <2>5 DEF Writing
    <3>2. \A y \in DOMAIN p.entries :
            p.entries[y] \in {"updated", "unchanged"} => y \in DOMAIN p.told
      BY <1>4, <1>6, <1>12, <2>5
    <3>3. p.todo \subseteq q.todo /\ DOMAIN p.entries \subseteq DOMAIN q.entries \cup q.todo
      BY <1>12, <2>5
    <3> QED
      BY <1>1, <2>5, <3>1, <3>2, <3>3, PublicationOwn
  <2>8. Mirrored(s)'
    <3>1. ASSUME NEW y \in DOMAIN p.entries,
                 p.entries[y] \in {"updated", "unchanged"}, p.plan[y].nbid \in p.seen
          PROVE  Shows(nb'[p.plan[y].nbid], p.told[y], p.plan[y].align)
      <4>1. CASE y = r
        <5>1. todo = "unchanged"
          BY <1>12, <2>4, <2>5, <3>1, <4>1
        <5>2. p.told[y] = verdict[r] /\ p.plan[y] = q.plan[r] /\ nb' = nb
          BY <1>1, <1>4, <2>5, <4>1 DEF SameRows
        <5> QED
          BY <1>10, <2>3, <5>1, <5>2 DEF Shows
      <4>2. CASE y # r
        <5>1. y \in DOMAIN q.entries /\ p.entries[y] = q.entries[y]
          BY <1>12, <2>5, <4>2
        <5>2. q.plan[y].nbid # i /\ y \in DOMAIN q.told
          BY <1>5, <1>6, <3>1, <5>1
        <5>3. q.plan[y].nbid \in q.seen /\ p.plan = q.plan
          BY <2>5, <3>1, <5>2 DEF SameRows
        <5> QED
          BY <1>1, <1>4, <1>7, <2>5, <3>1, <4>2, <5>1, <5>2, <5>3
      <4> QED
        BY <4>1, <4>2
    <3>2. p.pc # "patch"
      BY <1>12, <2>5
    <3> QED
      BY <3>1, <3>2 DEF Mirrored
  <2> QED
    BY <1>1, <1>9, <2>5, <2>6, <2>7, <2>8, StepApart DEF Active
<1> QED
  BY <1>13, <1>14, <1>15
\* What a request has published or is about to is a device it writes back.
LEMMA TouchedDevices ==
  ASSUME IInv, NEW s \in Syncs, NEW r \in Touching(s)
  PROVE  /\ sync[s].pc \in Writing
         /\ r \in Plans(s) /\ r \in Rows
         /\ sync[s].plan[r].nbid \in NbIds(s)
<1>1. IsSync(sync[s]) /\ Own(sync[s])
  BY DEF IInv, Types, RowsInv
<1>2. sync[s].pc \in Writing /\ r \in LinkedRows(sync[s])
  BY <1>1 DEF Touching, Own, Progress, Writing
<1>3. sync[s].pc # "flush"
  BY <1>2 DEF Writing
<1>4. r \in Linked(s)
  BY <1>1, <1>2, <1>3, LinkedFlushed DEF IInv
<1> QED
  BY <1>1, <1>2, <1>4 DEF NbIds, Linked, Plans, IsSync, IsTable

\* A request without a device, or its others.
LEMMA UnseenFacts ==
  ASSUME NEW q, IsSync(q), NEW i
  PROVE  LET p == [q EXCEPT !.seen = @ \ {i}]
         IN IsSync(p) /\ SameWork(q, p) /\ p.seen = q.seen \ {i} /\ p.overlapped = q.overlapped
<1> DEFINE p == [q EXCEPT !.seen = @ \ {i}]
<1>1. q.seen \ {i} \in SUBSET Ids
  BY DEF IsSync
<1>2. SameWork(q, p) /\ p.seen = q.seen \ {i} /\ p.overlapped = q.overlapped
  BY DEF IsSync, SameWork, SameRows
<1>3. IsSync(p)
  <2>1. IsTable(p.base) /\ IsTable(p.plan) /\ IsTable(p.locked) /\ DOMAIN p.base = DOMAIN p.plan
        /\ DOMAIN p.locked \subseteq DOMAIN p.plan /\ p.told \in [DOMAIN p.told -> Postures]
    BY <1>2 DEF IsSync, SameWork, SameRows
  <2> QED
    BY <1>1, <2>1 DEF IsSync
<1> QED
  BY <1>2, <1>3

\* What a PATCH leaves in NetBox.
LEMMA PatchedFacts ==
  ASSUME IInv, NEW s \in Syncs, sync[s].pc = "patch"
  PROVE  LET q    == sync[s]
             i    == q.plan[q.row].nbid
             want == Want(q, q.row)
         IN /\ Patched(s) \in [Ids -> NetBoxDevice] /\ i \in Ids
            /\ \A j \in Ids \ {i} : Patched(s)[j] = nb[j]
            /\ i \in q.seen => /\ Shows(Patched(s)[i], q.told[q.row], q.plan[q.row].align)
                              /\ Patched(s)[i].cf = want
                              /\ nb[i].tags \ ManagedTags(Verdicts) \subseteq Patched(s)[i].tags
<1> DEFINE q == sync[s]
           r == q.row
           i == q.plan[r].nbid
           want == Want(q, r)
           wanted == DesiredTags(q.told[r], q.plan[r].align)
           all == ReconciledTags(nb[i].tags, wanted, Verdicts)
           cf == IF q.body.cf = <<>> THEN nb[i].cf ELSE q.body.cf
           tags == IF q.body.tags = {} THEN nb[i].tags ELSE q.body.tags
<1>1. IsSync(q) /\ Own(q) /\ nb \in [Ids -> NetBoxDevice] /\ Mirrored(s)
  BY DEF IInv, Types, RowsInv
<1>2. /\ r \in q.todo /\ r \in DOMAIN q.told /\ q.body.cf \in {<<>>, want} /\ q.body.tags \subseteq Tags
      /\ r \in DOMAIN q.plan
  BY <1>1 DEF Own, Progress, Writing, LinkedRows
<1>3. q.told[r] \in Postures /\ q.plan[r].align \in {Unknown, "aligned", "mismatch"} /\ i \in Ids
  BY <1>1, <1>2, PlannedIds DEF IsSync, IsTable, DeviceRow
<1>4. /\ want \in [Fields -> Verdicts \cup {Empty, Unknown, Edited, "aligned", "mismatch"}]
      /\ want # <<>>
  BY <1>3, DesiredFacts DEF Want
<1>5. nb[i] \in NetBoxDevice
  BY <1>1, <1>3
<1>6. Patched(s) = [nb EXCEPT ![i] = [nb[i] EXCEPT !.cf = cf, !.tags = tags]]
  BY <1>1, <1>3, <1>5 DEF Patched, NetBoxDevice
<1>7. /\ cf \in [Fields -> Verdicts \cup {Empty, Unknown, Edited, "aligned", "mismatch"}]
      /\ tags \in SUBSET Tags
  BY <1>2, <1>4, <1>5 DEF NetBoxDevice, Tags
<1>8. all \cap ManagedTags(Verdicts) = wanted /\ all # {}
  BY <1>3, ReconciledFacts
<1>9. i \in q.seen => cf = want /\ tags = all
  <2>1. i \in q.seen => /\ q.body.cf = IF nb[i].cf = want THEN <<>> ELSE want
                        /\ q.body.tags = IF nb[i].tags = all THEN {} ELSE all
    BY <1>1 DEF Mirrored
  <2> QED
    BY <1>4, <1>8, <2>1
<1> HIDE DEF cf, tags, all, wanted, want
<1>10. [nb[i] EXCEPT !.cf = cf, !.tags = tags] \in NetBoxDevice
  BY <1>5, <1>7 DEF NetBoxDevice, Tags
<1>11. Patched(s)[i].cf = cf /\ Patched(s)[i].tags = tags
  <2>1. Patched(s)[i] = [nb[i] EXCEPT !.cf = cf, !.tags = tags]
    BY <1>1, <1>3, <1>6
  <2>2. /\ [nb[i] EXCEPT !.cf = cf, !.tags = tags].cf = cf
        /\ [nb[i] EXCEPT !.cf = cf, !.tags = tags].tags = tags
    BY <1>5 DEF NetBoxDevice
  <2> QED
    BY <2>1, <2>2
<1>12. i \in q.seen => Shows(Patched(s)[i], q.told[r], q.plan[r].align)
  BY <1>8, <1>9, <1>11 DEF Shows, Want, want, wanted
<1>13. i \in q.seen => /\ Patched(s)[i].cf = want
                       /\ nb[i].tags \ ManagedTags(Verdicts) \subseteq Patched(s)[i].tags
  BY <1>9, <1>11 DEF all, ReconciledTags
<1> QED
  BY <1>1, <1>3, <1>6, <1>10, <1>12, <1>13 DEF want

LEMMA PublishedStep ==
  ASSUME IInv, NEW s \in Syncs, NEW status \in {"updated", "failed"}, sync[s].pc = "patch",
         nb' \in {nb, Patched(s)}, status = "updated" => nb' = Patched(s),
         sync' = Published(s, status), dev' = dev, verdict' = verdict, audits' = audits,
         edits' = edits, spent' \in Spent
  PROVE  IInv'
<1> DEFINE q == sync[s]
           p == sync'[s]
           r == q.row
           i == q.plan[r].nbid
<1>1. Types /\ RowsInv /\ IsSync(q) /\ Own(q) /\ Mirrored(s)
  BY DEF IInv, Types, RowsInv
<1>2. r \in q.todo /\ r \in DOMAIN q.told /\ q.todo \cap DOMAIN q.entries = {}
  BY <1>1 DEF Own, Progress
<1>3. r \in Plans(s) /\ i \in NbIds(s) /\ i \in Ids /\ r \in Touching(s)
  <2>1. r \in Touching(s)
    BY DEF Touching
  <2>2. i \in Ids
    BY <1>1, <2>1, TouchedDevices, PlannedIds DEF Plans
  <2> QED
    BY <2>1, <2>2, TouchedDevices
<1>4. /\ nb' \in [Ids -> NetBoxDevice]
      /\ \A j \in Ids \ {i} : nb'[j] = nb[j]
      /\ (status = "updated" /\ i \in q.seen) => Shows(nb'[i], q.told[r], q.plan[r].align)
  <2>1. CASE nb' = Patched(s)
    BY <2>1, PatchedFacts
  <2>2. CASE nb' = nb /\ status # "updated"
    BY <1>1, <2>2 DEF Types
  <2> QED
    BY <2>1, <2>2
<1>5. DOMAIN sync' = Syncs /\ p = Entry(s, r, status)
  BY DEF Published
<1>6. /\ IsSync(p) /\ SameRows(q, p) /\ p.recs = q.recs /\ p.k = q.k /\ p.drafts = q.drafts
      /\ p.pc \in {"write", "commit"} /\ p.todo = q.todo \ {r} /\ p.told = q.told
      /\ p.seen = q.seen /\ p.overlapped = q.overlapped
      /\ DOMAIN p.entries = DOMAIN q.entries \cup {r} /\ p.entries[r] = status
      /\ \A y \in DOMAIN q.entries \ {r} : p.entries[y] = q.entries[y]
  <2>1. LET v == Entry(s, r, status)
        IN /\ IsSync(v) /\ SameRows(q, v) /\ v.recs = q.recs /\ v.k = q.k /\ v.drafts = q.drafts
           /\ v.pc \in {"write", "commit"} /\ v.todo = q.todo \ {r} /\ v.told = q.told
           /\ v.seen = q.seen /\ v.overlapped = q.overlapped
           /\ DOMAIN v.entries = DOMAIN q.entries \cup {r} /\ v.entries[r] = status
           /\ \A y \in DOMAIN q.entries \ {r} : v.entries[y] = q.entries[y]
    BY <1>1, <1>2, EntryFacts
  <2> QED
    BY <1>5, <2>1
<1>7. Own(p)
  <2>1. p.pc \in Writing /\ p.pc # "patch" /\ p.todo \cap DOMAIN p.entries = {}
    BY <1>2, <1>6 DEF Writing
  <2>2. \A y \in DOMAIN p.entries :
          p.entries[y] \in {"updated", "unchanged"} => y \in DOMAIN p.told
    BY <1>1, <1>2, <1>6 DEF Own, Progress
  <2>3. p.todo \subseteq q.todo /\ DOMAIN p.entries \subseteq DOMAIN q.entries \cup q.todo
    BY <1>2, <1>6
  <2> QED
    BY <1>1, <1>6, <2>1, <2>2, <2>3, PublicationOwn
<1>8. Mirrored(s)'
  <2>1. ASSUME NEW y \in DOMAIN p.entries,
               p.entries[y] \in {"updated", "unchanged"}, p.plan[y].nbid \in p.seen
        PROVE  Shows(nb'[p.plan[y].nbid], p.told[y], p.plan[y].align)
    <3>1. CASE y = r
      BY <1>4, <1>6, <2>1, <3>1 DEF SameRows
    <3>2. CASE y # r
      <4>1. y \in DOMAIN q.entries /\ p.entries[y] = q.entries[y] /\ y \in Touching(s)
        BY <1>6, <2>1, <3>2 DEF Touching
      <4>2. y \in Plans(s) /\ q.plan[y].nbid # i /\ q.plan[y].nbid \in Ids
        BY <1>1, <1>3, <3>2, <4>1, TouchedDevices, PlannedIds DEF Own, Batch, Plans
      <4>3. Shows(nb[q.plan[y].nbid], q.told[y], q.plan[y].align)
        BY <1>1, <1>6, <2>1, <4>1 DEF Mirrored, SameRows
      <4>4. nb'[q.plan[y].nbid] = nb[q.plan[y].nbid]
        BY <1>4, <4>2
      <4>5. p.plan[y] = q.plan[y] /\ p.told[y] = q.told[y]
        BY <1>6 DEF SameRows
      <4> QED
        BY <4>3, <4>4, <4>5
    <3> QED
      BY <3>1, <3>2
  <2>2. p.pc # "patch"
    BY <1>6
  <2> QED
    BY <2>1, <2>2 DEF Mirrored
<1>9. ASSUME NEW t \in Syncs \ {s}
      PROVE  /\ IsSync(sync'[t]) /\ SameWork(sync[t], sync'[t]) /\ sync'[t].seen \subseteq sync[t].seen
             /\ sync'[t].overlapped = sync[t].overlapped
             /\ i \in Relinked(s) \cup Relinked(t) => i \notin sync'[t].seen
  <2>1. IsSync(sync[t]) /\ SameWork(sync[t], sync[t])
    BY <1>1 DEF Types, SameWork, SameRows
  <2>2. sync'[t] = IF i \in Relinked(s) \cup Relinked(t)
                   THEN [sync[t] EXCEPT !.seen = @ \ {i}] ELSE sync[t]
    BY DEF Published
  <2>3. LET u == [sync[t] EXCEPT !.seen = @ \ {i}]
        IN /\ IsSync(u) /\ SameWork(sync[t], u) /\ u.seen = sync[t].seen \ {i}
           /\ u.overlapped = sync[t].overlapped
    BY <2>1, UnseenFacts
  <2>4. CASE i \in Relinked(s) \cup Relinked(t)
    BY <2>2, <2>3, <2>4
  <2>5. CASE i \notin Relinked(s) \cup Relinked(t)
    BY <2>1, <2>2, <2>5
  <2> QED
    BY <2>4, <2>5
<1>10. ASSUME NEW t \in Syncs \ {s} PROVE Own(sync'[t]) /\ Mirrored(t)'
  <2>1. Own(sync'[t])
    BY <1>1, <1>9, OwnKept DEF RowsInv
  <2>2. ASSUME NEW y \in Touching(t), sync[t].plan[y].nbid \in sync'[t].seen
        PROVE  nb'[sync[t].plan[y].nbid] = nb[sync[t].plan[y].nbid]
    <3>1. sync[t].pc \in Writing /\ sync[t].plan[y].nbid \in NbIds(t) /\ sync[t].plan[y].nbid \in Ids
      BY <1>1, <2>2, TouchedDevices, PlannedIds DEF Types, RowsInv, Plans
    <3>2. sync[t].plan[y].nbid # i
      BY <1>1, <1>3, <1>9, <2>2, <3>1, OneWriter DEF OneWriterPerDevice, Writing
    <3> QED
      BY <1>4, <3>1, <3>2
  <2>3. Mirrored(t)'
    BY <1>9, <2>2, MirroredKept DEF IInv
  <2> QED
    BY <2>1, <2>3
<1>11. RowsInv'
  <2>1. q.pc \in Active
    BY DEF Active
  <2>2. \A t \in Syncs \ {s} : SameRows(sync[t], sync'[t]) /\ sync'[t].pc = sync[t].pc
    BY <1>9 DEF SameWork
  <2> QED
    BY <1>1, <1>6, <1>7, <1>9, <1>10, <2>1, <2>2, RowsKept
<1>12. Types'
  <2>1. \A t \in Syncs : IsSync(sync'[t])
    BY <1>6, <1>9
  <2> QED
    BY <1>1, <1>4, <1>5, <2>1 DEF Types, Spent
<1> QED
  BY <1>8, <1>10, <1>11, <1>12 DEF IInv

LEMMA PatchSteps ==
  ASSUME IInv, NEW s \in Syncs, Patch(s) \/ PatchFails(s)
  PROVE  IInv'
<1>1. spent \in Spent
  BY DEF IInv, Types, Spent
<1>2. CASE Patch(s)
  <2> DEFINE ok == nb[sync[s].plan[sync[s].row].nbid].present
  <2>1. CASE ok
    BY <1>1, <1>2, <2>1, PublishedStep DEF Patch
  <2>2. CASE ~ ok
    BY <1>1, <1>2, <2>2, PublishedStep DEF Patch
  <2> QED
    BY <2>1, <2>2
<1>3. CASE PatchFails(s)
  BY <1>1, <1>3, SpendTypes, PublishedStep DEF PatchFails
<1> QED
  BY <1>2, <1>3

---------------------------------------------------------------------------
(* Commits, the environment, and the invariant.                            *)

LEMMA CommitStep ==
  ASSUME IInv, NEW s \in Syncs, Commit(s)
  PROVE  IInv'
<1> DEFINE q == sync[s]
           p == sync'[s]
<1>1. Types /\ RowsInv /\ IsSync(q) /\ Own(q) /\ q.setting \in Settings
  BY DEF IInv, Types, RowsInv, IsSync
<1>2. /\ dev' = View(s) /\ DOMAIN sync' = Syncs /\ p = Fresh("audit", q.setting)
      /\ UNCHANGED <<nb, verdict, audits, edits, spent>>
  BY <1>1 DEF Commit, Overlap, Types
<1>3. /\ IsSync(p) /\ Own(p) /\ Cleared(p) /\ p.pc = "audit"
  BY <1>1, <1>2, FreshFacts
<1>4. ASSUME NEW t \in Syncs \ {s}
      PROVE  /\ IsSync(sync'[t]) /\ SameWork(sync[t], sync'[t])
             /\ sync'[t].seen = sync[t].seen
             /\ sync'[t].pc \in Active => sync'[t].overlapped
  <2>1. IsSync(sync[t])
    BY <1>1 DEF Types
  <2>2. CASE sync[t].pc \in Active
    <3> DEFINE u == [sync[t] EXCEPT !.overlapped = TRUE]
    <3>1. sync'[t] = u
      BY <2>2 DEF Commit, Overlap
    <3>2. SameWork(sync[t], u) /\ u.seen = sync[t].seen /\ u.overlapped = TRUE
      BY <2>1 DEF IsSync, SameWork, SameRows
    <3>3. /\ IsTable(u.base) /\ IsTable(u.plan) /\ IsTable(u.locked) /\ DOMAIN u.base = DOMAIN u.plan
          /\ DOMAIN u.locked \subseteq DOMAIN u.plan /\ u.told \in [DOMAIN u.told -> Postures]
      BY <2>1, <3>2 DEF IsSync, SameWork, SameRows
    <3>4. IsSync(u)
      BY <2>1, <3>3 DEF IsSync
    <3> QED
      BY <3>1, <3>2, <3>4
  <2>3. CASE sync[t].pc \notin Active
    <3>1. sync'[t] = sync[t]
      BY <2>3 DEF Commit, Overlap
    <3> QED
      BY <2>1, <2>3, <3>1 DEF SameWork, SameRows
  <2> QED
    BY <2>2, <2>3
<1>5. /\ View(s) \in [Rows -> DeviceRow]
      /\ \A r \in Rows : dev[r].exists => View(s)[r].exists
      /\ \A r \in Rows : ~ View(s)[r].exists => View(s)[r] = NoRow
  <2>1. \A r \in Locks(s) : View(s)[r] = q.locked[r] /\ q.locked[r].exists
    BY <1>1, ViewType DEF Own, Batch, Locks
  <2>2. \A r \in Rows \ Locks(s) : View(s)[r] = dev[r]
    BY <1>1, ViewType
  <2> QED
    BY <1>1, <2>1, <2>2, ViewType DEF Types
<1>6. Types'
  <2>1. \A t \in Syncs : IsSync(sync'[t])
    BY <1>3, <1>4
  <2> QED
    BY <1>1, <1>2, <1>5, <2>1 DEF Types
<1>7. \A t \in Syncs \ {s} : /\ Locks(t)' = Locks(t) /\ Plans(t)' = Plans(t)
                              /\ sync'[t].locked = sync[t].locked /\ sync'[t].base = sync[t].base
  BY <1>4 DEF SameWork, SameRows, Locks, Plans
<1>8. Locks(s)' = {} /\ Plans(s)' = {}
  BY <1>3 DEF Cleared, Locks, Plans
<1>9. ASSUME NEW t \in Syncs \ {s} PROVE RowsSound(t)'
  <2>1. RowsSound(t) /\ Apart(s, t)
    BY <1>1 DEF RowsInv
  <2>2. ASSUME NEW r \in Locks(t), NEW x \in Rows, r # x
        PROVE  ~ SameKey(View(t)'[x], sync[t].locked[r])
    <3>1. View(t)'[x] = IF x \in Locks(t) THEN sync[t].locked[x] ELSE View(s)[x]
      BY <1>2, <1>7 DEF View, Locks
    <3>2. CASE x \in Locks(t) \/ x \notin Locks(s)
      <4>1. View(t)'[x] = View(t)[x]
        BY <1>1, <3>1, <3>2, ViewType
      <4> QED
        BY <2>1, <2>2, <4>1 DEF RowsSound
    <3>3. CASE x \notin Locks(t) /\ x \in Locks(s)
      <4>1. View(t)'[x] = sync[s].locked[x]
        BY <1>1, <3>1, <3>3, ViewType
      <4> QED
        BY <2>1, <3>3, <4>1 DEF Apart
    <3> QED
      BY <3>2, <3>3
  <2>3. \A r \in Plans(t) : sync[t].base[r].exists => View(s)[r].exists
    BY <1>1, <1>5, <2>1, ViewType DEF RowsSound
  <2> QED
    BY <1>2, <1>4, <1>7, <2>2, <2>3 DEF RowsSound
<1>10. RowsSound(s)'
  BY <1>3, <1>8 DEF RowsSound, Active
<1>11. \A t \in Syncs : Own(sync'[t])
  BY <1>1, <1>3, <1>4, OwnKept DEF RowsInv
<1>12. \A t, x \in Syncs : t # x => Apart(t, x)'
  BY <1>1, <1>7, <1>8 DEF RowsInv, Apart
<1>13. ASSUME NEW t \in Syncs PROVE Mirrored(t)'
  BY <1>2, <1>3, <1>4, MirroredKept DEF IInv
<1> QED
  BY <1>6, <1>9, <1>10, <1>11, <1>12, <1>13 DEF IInv, RowsInv

\* A step of nobody's request.
LEMMA EnvironmentStep ==
  ASSUME IInv, NEW i, sync' = Unseen(i) \/ sync' = sync,
         nb' \in [Ids -> NetBoxDevice],
         \A j \in Ids : nb'[j] = nb[j] \/ (j = i /\ sync' = Unseen(i)),
         verdict' \in [Rows -> Postures],
         dev' = dev, audits' = audits, edits' = edits, spent' \in Spent
  PROVE  IInv'
<1>1. Types /\ RowsInv /\ DOMAIN sync' = Syncs
  BY DEF IInv, Types, Unseen
<1>2. ASSUME NEW t \in Syncs
      PROVE  /\ IsSync(sync'[t]) /\ SameWork(sync[t], sync'[t]) /\ sync'[t].seen \subseteq sync[t].seen
             /\ sync'[t].overlapped = sync[t].overlapped
             /\ sync' = Unseen(i) => i \notin sync'[t].seen
  <2>1. IsSync(sync[t]) /\ SameWork(sync[t], sync[t])
    BY <1>1 DEF Types, SameWork, SameRows
  <2>2. CASE sync' = Unseen(i)
    <3>1. sync'[t] = [sync[t] EXCEPT !.seen = @ \ {i}]
      BY <2>2 DEF Unseen
    <3>2. LET u == [sync[t] EXCEPT !.seen = @ \ {i}]
          IN /\ IsSync(u) /\ SameWork(sync[t], u) /\ u.seen = sync[t].seen \ {i}
             /\ u.overlapped = sync[t].overlapped
      BY <2>1, UnseenFacts
    <3> QED
      BY <3>1, <3>2
  <2>3. CASE sync' = sync /\ sync' # Unseen(i)
    BY <2>1, <2>3
  <2> QED
    BY <2>2, <2>3
<1>3. ASSUME NEW t \in Syncs PROVE Mirrored(t)'
  <2>1. ASSUME NEW y \in Touching(t), sync[t].plan[y].nbid \in sync'[t].seen
        PROVE  nb'[sync[t].plan[y].nbid] = nb[sync[t].plan[y].nbid]
    <3>1. sync[t].plan[y].nbid \in Ids
      BY <1>1, <2>1, TouchedDevices, PlannedIds DEF Types, RowsInv, Plans
    <3> QED
      BY <1>2, <2>1, <3>1
  <2> QED
    BY <1>2, <2>1, MirroredKept DEF IInv
<1>4. RowsInv'
  <2>1. \A t \in Syncs : Own(sync'[t])
    BY <1>1, <1>2, OwnKept DEF RowsInv
  <2>2. \A t \in Syncs : SameRows(sync[t], sync'[t]) /\ sync'[t].pc = sync[t].pc
    BY <1>2 DEF SameWork
  <2> QED
    BY <1>1, <1>2, <2>1, <2>2, RowsKept
<1>5. Types'
  BY <1>1, <1>2 DEF Types, Spent
<1> QED
  BY <1>3, <1>4, <1>5 DEF IInv

LEMMA OperatorStep ==
  ASSUME IInv, Operator
  PROVE  IInv'
<1>1. nb \in [Ids -> NetBoxDevice] /\ verdict \in [Rows -> Postures] /\ spent \in Spent /\ edits \subseteq EditKinds
  BY DEF IInv, Types, Spent
<1>2. PICK i \in Ids, kind \in edits :
        /\ \E x \in EditsOf(i, kind) \ {nb[i]} : nb' = [nb EXCEPT ![i] = x]
        /\ sync' = Unseen(i)
  BY DEF Operator
<1>3. PICK x \in EditsOf(i, kind) : nb' = [nb EXCEPT ![i] = x]
  BY <1>2
<1>4. x \in NetBoxDevice
  <2>1. nb[i] \in NetBoxDevice
    BY <1>1
  <2>2. CASE kind = "mirror"
    <3>1. \/ \E f \in Fields, v \in {Edited, Empty} : x = [nb[i] EXCEPT !.cf[f] = v]
          \/ x = [nb[i] EXCEPT !.tags = @ \cup {Foreign}]
          \/ x = [nb[i] EXCEPT !.tags = {}]
      BY <1>3, <2>2 DEF EditsOf
    <3> QED
      BY <2>1, <3>1 DEF NetBoxDevice
  <2>3. CASE kind = "serial"
    BY <1>3, <2>1, <2>3 DEF EditsOf, NetBoxDevice
  <2>4. CASE kind = "place"
    BY <1>3, <2>1, <2>4 DEF EditsOf, NetBoxDevice
  <2>5. CASE kind = "network"
    BY <1>3, <2>1, <2>5 DEF EditsOf, NetBoxDevice
  <2>6. CASE kind = "presence"
    <3>1. x = [nb[i] EXCEPT !.present = ~ nb[i].present]
      BY <1>3, <2>6 DEF EditsOf
    <3>2. nb[i].present \in BOOLEAN
      BY <2>1 DEF NetBoxDevice
    <3>3. PICK b \in BOOLEAN : x = [nb[i] EXCEPT !.present = b]
      BY <3>1, <3>2
    <3> QED
      BY <2>1, <3>3 DEF NetBoxDevice
  <2> QED
    BY <1>1, <2>2, <2>3, <2>4, <2>5, <2>6 DEF EditKinds
<1>5. nb' \in [Ids -> NetBoxDevice] /\ \A j \in Ids : nb'[j] = nb[j] \/ j = i
  BY <1>1, <1>3, <1>4
<1>6. UNCHANGED <<dev, verdict, audits, edits>> /\ spent' \in Spent
  BY <1>1, SpendTypes DEF Operator
<1> QED
  BY <1>1, <1>2, <1>5, <1>6, EnvironmentStep

LEMMA EvaluateStep ==
  ASSUME IInv, Evaluate
  PROVE  IInv'
<1>1. nb \in [Ids -> NetBoxDevice] /\ verdict \in [Rows -> Postures] /\ spent \in Spent
  BY DEF IInv, Types, Spent
<1>2. verdict' \in [Rows -> Postures]
  BY <1>1 DEF Evaluate, Postures
<1>3. UNCHANGED <<nb, dev, sync, audits, edits>> /\ spent' \in Spent
  BY <1>1, SpendTypes DEF Evaluate
<1> QED
  BY <1>1, <1>2, <1>3, EnvironmentStep

LEMMA InitIInv == Init => IInv
<1> SUFFICES ASSUME Init PROVE IInv
  OBVIOUS
<1>1. PICK start \in Starts : nb = start.nb /\ dev = start.dev /\ edits = start.edits
  BY DEF Init
<1>2. IsStart(start)
  BY ConstantsAssumption
<1>3. PICK setting \in Settings : sync = [s \in Syncs |-> Fresh("idle", setting)]
  BY DEF Init
<1>4. \A s \in Syncs : /\ IsSync(sync[s]) /\ Own(sync[s]) /\ Cleared(sync[s]) /\ sync[s].pc = "idle"
  BY <1>3, FreshFacts
<1>5. Types
  <2>1. verdict \in [Rows -> Postures] /\ audits \subseteq Syncs \X {"completed", "failed"}
    BY DEF Init, Postures
  <2>2. spent \in Spent
    BY ConstantsAssumption DEF Init, Spent
  <2> QED
    BY <1>1, <1>2, <1>3, <1>4, <2>1, <2>2 DEF Types, IsStart, Spent
<1>6. \A s \in Syncs : RowsSound(s)
  BY <1>4 DEF RowsSound, Cleared, Locks, Plans
<1>7. \A s, t \in Syncs : Apart(s, t)
  BY <1>4 DEF Apart, Cleared, Locks
<1>8. \A s \in Syncs : Mirrored(s)
  BY <1>4 DEF Mirrored, Cleared
<1> QED
  BY <1>4, <1>5, <1>6, <1>7, <1>8 DEF IInv, RowsInv

LEMMA NextIInv == IInv /\ [Next]_vars => IInv'
<1> SUFFICES ASSUME IInv, [Next]_vars PROVE IInv'
  OBVIOUS
<1>1. ASSUME NEW s \in Syncs, Trigger(s) PROVE IInv'
  BY <1>1, TriggerStep
<1>2. ASSUME NEW s \in Syncs,
             PullFails(s) \/ Ambiguous(s) \/ FlushRaises(s) \/ AuditCommit(s) \/ Crash(s)
      PROVE  IInv'
  BY <1>2, EndSteps
<1>3. ASSUME NEW s \in Syncs, PullPage(s) PROVE IInv'
  BY <1>3, PullPageStep
<1>4. ASSUME NEW s \in Syncs, Look(s) PROVE IInv'
  BY <1>4, LookStep
<1>5. ASSUME NEW s \in Syncs, Flush(s) PROVE IInv'
  BY <1>5, FlushStep
<1>6. ASSUME NEW s \in Syncs, Align(s) PROVE IInv'
  BY <1>6, AlignStep
<1>7. ASSUME NEW s \in Syncs, AlignFails(s) PROVE IInv'
  BY <1>7, AlignFailsStep
<1>8. ASSUME NEW s \in Syncs, Get(s) PROVE IInv'
  BY <1>8, GetStep
<1>9. ASSUME NEW s \in Syncs, Patch(s) \/ PatchFails(s) PROVE IInv'
  BY <1>9, PatchSteps
<1>10. ASSUME NEW s \in Syncs, Commit(s) PROVE IInv'
  BY <1>10, CommitStep
<1>11. CASE Operator
  BY <1>11, OperatorStep
<1>12. CASE Evaluate
  BY <1>12, EvaluateStep
<1>13. CASE UNCHANGED vars
  <2>1. nb' \in [Ids -> NetBoxDevice] /\ verdict' \in [Rows -> Postures] /\ spent' \in Spent
    BY <1>13 DEF vars, IInv, Types, Spent
  <2> QED
    BY <1>13, <2>1, EnvironmentStep DEF vars
<1> QED
  BY <1>1, <1>2, <1>3, <1>4, <1>5, <1>6, <1>7, <1>8, <1>9, <1>10, <1>11, <1>12, <1>13 DEF Next, SyncStep

\* What every behaviour keeps: requests hold the rows and keys they have written, and
\* what they wrote to NetBox is there until somebody touches the device.
THEOREM Invariance == Spec => []IInv
BY InitIInv, NextIInv, PTL DEF Spec
\* NetBox, the rows and what every session holds of them keep their types: an UPDATE of the
\* changed columns, a PATCH and an alignment leave rows and devices of the estate.
THEOREM TypeCorrect == Spec => []TypeOK
<1>1. IInv => TypeOK
  <2> SUFFICES ASSUME IInv PROVE TypeOK
    OBVIOUS
  <2>1. \A s \in Syncs : sync[s].pc \in Pcs
    BY DEF IInv, Types, IsSync
  <2>2. \A s \in Syncs : /\ DOMAIN sync[s].plan = DOMAIN sync[s].base
                         /\ DOMAIN sync[s].locked \subseteq DOMAIN sync[s].plan
    BY DEF IInv, Types, IsSync
  <2> QED
    BY <2>1, <2>2 DEF TypeOK, IInv, Types, Pcs, Postures
<1> QED
  BY <1>1, Invariance, PTL

\* Two requests in write-back never publish to one NetBox device, unless a third linked the
\* row of one of them to another device meanwhile: the rows and the unique keys that
\* reconciliation flushed are locked until the transaction ends.
THEOREM WriterAlone == Spec => []OneWriterPerDevice
<1>1. IInv => OneWriterPerDevice
  BY OneWriter DEF IInv
<1> QED
  BY <1>1, Invariance, PTL

\* A device that the report calls updated or unchanged shows the posture the request read
\* and the alignment it decided, until an operator, or a request that lost its link to the
\* device, touches it.
THEOREM MirrorHolds == Spec => []MirroredEntriesHold
<1>1. IInv => MirroredEntriesHold
  BY DEF IInv, Mirrored, Shows, MirroredEntriesHold
<1> QED
  BY <1>1, Invariance, PTL

---------------------------------------------------------------------------
(* What steps may do.                                                      *)

\* Only operators and PATCH requests change NetBox.
LEMMA NetBoxWriters ==
  ASSUME IInv, [Next]_vars, nb' # nb, spent'.edits = spent.edits
  PROVE  \E s \in Syncs : sync[s].pc = "patch" /\ nb' = Patched(s)
<1>1. ASSUME NEW s \in Syncs, Trigger(s) \/ PullFails(s) \/ Crash(s) PROVE nb' = nb
  BY <1>1 DEF Trigger, PullFails, Crash
<1>2. ASSUME NEW s \in Syncs, PullPage(s) \/ Ambiguous(s) \/ Look(s) \/ Flush(s) \/ FlushRaises(s)
      PROVE  nb' = nb
  BY <1>2 DEF PullPage, Ambiguous, Look, Flush, FlushRaises
<1>3. ASSUME NEW s \in Syncs, Align(s) \/ AlignFails(s) \/ Get(s) \/ Commit(s) \/ AuditCommit(s)
      PROVE  nb' = nb
  BY <1>3 DEF Align, AlignFails, Get, Commit, AuditCommit
<1>4. ASSUME NEW s \in Syncs, Patch(s) \/ PatchFails(s)
      PROVE  sync[s].pc = "patch" /\ nb' \in {nb, Patched(s)}
  BY <1>4 DEF Patch, PatchFails
<1>5. ~ Operator
  <2>1. spent \in Spent
    BY DEF IInv, Types, Spent
  <2>2. Operator => spent'.edits = spent.edits + 1
    BY <2>1 DEF Operator, Spend, Spent
  <2> QED
    BY <2>1, <2>2, ConstantsAssumption DEF Spent
<1>6. Evaluate \/ UNCHANGED vars => nb' = nb
  BY DEF Evaluate, vars
<1> QED
  BY <1>1, <1>2, <1>3, <1>4, <1>5, <1>6 DEF Next, SyncStep

\* No value an operator gave a mirrored field, and no tag of theirs, is lost to a PATCH
\* whose request had read it: the publisher sends nothing over a conflicting value, and
\* merges the managed tags into those of the device.
THEOREM EditsSurvive == Spec => OperatorEditsSurvive
<1>1. ASSUME IInv, [Next]_vars,
             NEW i \in Ids, spent'.edits = spent.edits,
             \/ \E f \in Fields : nb[i].cf[f] = Edited /\ nb'[i].cf[f] # Edited
             \/ Foreign \in nb[i].tags \ nb'[i].tags
      PROVE  \E s \in Syncs : sync[s].pc = "patch" /\ i \notin sync[s].seen
  <2>1. PICK s \in Syncs : sync[s].pc = "patch" /\ nb' = Patched(s)
    BY <1>1, NetBoxWriters
  <2> DEFINE q == sync[s]
             j == q.plan[q.row].nbid
             want == Want(q, q.row)
  <2>2. /\ \A x \in Ids \ {j} : nb'[x] = nb[x]
        /\ j \in q.seen => /\ nb'[j].cf = want
                           /\ nb[j].tags \ ManagedTags(Verdicts) \subseteq nb'[j].tags
    <3>1. LET y == sync[s].plan[sync[s].row].nbid
          IN /\ \A x \in Ids \ {y} : Patched(s)[x] = nb[x]
             /\ y \in sync[s].seen =>
                  /\ Patched(s)[y].cf = Want(sync[s], sync[s].row)
                  /\ nb[y].tags \ ManagedTags(Verdicts) \subseteq Patched(s)[y].tags
      BY <1>1, <2>1, PatchedFacts
    <3> QED
      BY <2>1, <3>1
  <2>3. i = j
    BY <1>1, <2>2
  <2>4. ASSUME i \in q.seen PROVE FALSE
    <3>1. Conflicts(nb[i].cf, want) = {}
      BY <1>1, <2>1, <2>3, <2>4 DEF IInv, Mirrored
    <3>2. \A f \in Fields : nb[i].cf[f] = Edited => want[f] = Edited
      BY <3>1 DEF Conflicts, Edited, Empty
    <3>3. Foreign \notin ManagedTags(Verdicts)
      BY ConstantsAssumption DEF ManagedTags, Foreign
    <3> QED
      BY <1>1, <2>2, <2>3, <2>4, <3>2, <3>3
  <2> QED
    BY <2>1, <2>4
<1>2. IInv /\ [Next]_vars =>
        [\A i \in Ids :
          (/\ spent'.edits = spent.edits
           /\ \/ \E f \in Fields : nb[i].cf[f] = Edited /\ nb'[i].cf[f] # Edited
              \/ Foreign \in nb[i].tags \ nb'[i].tags) =>
            \E s \in Syncs : sync[s].pc = "patch" /\ i \notin sync[s].seen]_vars
  BY <1>1
<1> QED
  BY <1>2, Invariance, PTL DEF Spec, OperatorEditsSurvive

\* The audit commit follows the commit of the rows, and nothing else.
LEMMA OnlyCommits ==
  ASSUME IInv, [Next]_vars, NEW s \in Syncs, sync[s].pc = "commit", sync'[s].pc = "audit"
  PROVE  Commit(s)
<1> SUFFICES ASSUME ~ Commit(s) PROVE sync'[s].pc # "audit"
  OBVIOUS
<1>1. DOMAIN sync = Syncs /\ \A t \in Syncs : IsSync(sync[t])
  BY DEF IInv, Types
<1>2. ASSUME NEW t \in Syncs, NEW q, sync' = [sync EXCEPT ![t] = q],
             t = s => q.pc # "audit"
      PROVE  sync'[s].pc # "audit"
  BY <1>1, <1>2
<1>3. ASSUME NEW t \in Syncs, NEW pc \in Ended, End(t, pc) PROVE sync'[s].pc # "audit"
  BY <1>3, <1>2 DEF End, Fresh, Ended
<1>4. ASSUME NEW t \in Syncs,
             PullFails(t) \/ Ambiguous(t) \/ FlushRaises(t) \/ AuditCommit(t) \/ Crash(t)
      PROVE  sync'[s].pc # "audit"
  BY <1>3, <1>4 DEF PullFails, Ambiguous, FlushRaises, AuditCommit, Crash, Ended
<1>5. ASSUME NEW t \in Syncs, sync[t].pc # "commit",
             \A x \in Syncs \ {t} : sync'[x].pc = sync[x].pc
      PROVE  sync'[s].pc # "audit"
  <2>1. s # t
    BY <1>5
  <2> QED
    BY <1>5, <2>1
<1>6. ASSUME NEW t \in Syncs, Trigger(t) \/ PullPage(t) \/ Look(t) \/ Flush(t)
      PROVE  sync'[s].pc # "audit"
  <2>1. sync[t].pc # "commit"
    BY <1>6 DEF Trigger, PullPage, Look, Flush
  <2>2. CASE Trigger(t)
    BY <1>1, <1>5, <2>1, <2>2 DEF Trigger
  <2>3. CASE PullPage(t)
    <3> DEFINE from == sync[t].offset
               end == Cardinality(Listed)
               last == IF from + PageSize < end THEN from + PageSize ELSE end
               room == MaxDevices - Len(sync[t].recs)
               kept == IF last - from < room THEN last - from ELSE room
    <3>1. PICK page \in [1..(last - from) -> Listed] :
            IF \E j \in DOMAIN page : nb[page[j]].place = Unnamed
            THEN End(t, "failed")
            ELSE LET recs == sync[t].recs \o [j \in 1..kept |-> Record(page[j])]
                     over == Len(recs) >= MaxDevices \/ last <= from \/ last >= end
                 IN sync' = [sync EXCEPT ![t].recs = recs, ![t].offset = last,
                                         ![t].pc = IF ~ over THEN "pull"
                                                   ELSE IF recs = <<>> THEN "align" ELSE "look"]
      BY <2>3 DEF PullPage
    <3> HIDE DEF from, end, last, room, kept
    <3>2. Bystanders(t)
      BY <1>1, <3>1 DEF Bystanders, End
    <3> QED
      BY <1>5, <2>1, <3>2 DEF Bystanders
  <2>4. CASE Look(t)
    <3> DEFINE rec == sync[t].recs[sync[t].k]
               found == FindRows(t, rec)
    <3>1. PICK r \in IF found # {} THEN found
                     ELSE {x \in FreeRows(t) : \A y \in FreeRows(t) : x <= y} :
            LET old == IF found # {} THEN View(t)[r] ELSE NoRow
                new == [old EXCEPT !.exists = TRUE, !.serial = rec.serial,
                                   !.place = rec.place, !.nbid = rec.id]
            IN sync' = [sync EXCEPT ![t].pc = "flush", ![t].row = r, ![t].base = Put(@, r, old),
                                    ![t].plan = Put(@, r, new)]
      BY <2>4 DEF Look
    <3> HIDE DEF rec, found
    <3>2. Bystanders(t)
      BY <1>1, <3>1 DEF Bystanders
    <3> QED
      BY <1>5, <2>1, <3>2 DEF Bystanders
  <2>5. CASE Flush(t)
    BY <1>1, <1>5, <2>1, <2>5 DEF Flush
  <2> QED
    BY <1>6, <2>2, <2>3, <2>4, <2>5
<1>7. ASSUME NEW t \in Syncs, Align(t) \/ AlignFails(t) \/ Get(t)
      PROVE  sync'[s].pc # "audit"
  <2>1. sync[t].pc # "commit"
    BY <1>7 DEF Align, AlignFails, Get
  <2>2. CASE Align(t)
    <3>1. Bystanders(t)
      BY <1>1, <2>2 DEF Align, Bystanders
    <3> QED
      BY <1>5, <2>1, <3>1 DEF Bystanders
  <2>3. CASE AlignFails(t)
    <3>1. Bystanders(t)
      BY <1>1, <2>3 DEF AlignFails, Bystanders
    <3> QED
      BY <1>5, <2>1, <3>1 DEF Bystanders
  <2>4. CASE Get(t)
    <3>1. Bystanders(t)
      BY <1>1, <2>4 DEF Get, Bystanders
    <3> QED
      BY <1>5, <2>1, <3>1 DEF Bystanders
  <2> QED
    BY <1>7, <2>2, <2>3, <2>4
<1>8. ASSUME NEW t \in Syncs, Patch(t) \/ PatchFails(t)
      PROVE  sync'[s].pc # "audit"
  <2>1. PICK status : sync' = Published(t, status)
    BY <1>8 DEF Patch, PatchFails
  <2>2. ASSUME NEW x \in Syncs \ {t} PROVE sync'[x].pc = sync[x].pc
    BY <1>1, <2>1 DEF Published, IsSync
  <2> QED
    BY <1>5, <1>8, <2>2 DEF Patch, PatchFails
<1>9. ASSUME NEW t \in Syncs, Commit(t) PROVE sync'[s].pc # "audit"
  <2>1. t # s
    BY <1>9
  <2>2. sync'[s].pc = sync[s].pc
    BY <1>1, <1>9, <2>1 DEF Commit, Overlap, IsSync
  <2> QED
    BY <2>2
<1>10. CASE Operator
  <2>1. PICK i : sync' = Unseen(i)
    BY <1>10 DEF Operator
  <2> QED
    BY <1>1, <2>1 DEF Unseen, IsSync
<1>11. CASE Evaluate \/ UNCHANGED vars
  BY <1>11 DEF Evaluate, vars
<1> QED
  BY <1>4, <1>6, <1>7, <1>8, <1>9, <1>10, <1>11 DEF Next, SyncStep

\* What a request commits of its rows, when no other committed while it ran.
LEMMA QuietCommit ==
  ASSUME IInv, [Next]_vars, NEW s \in Syncs, sync[s].pc = "commit", sync'[s].pc = "audit",
         ~ sync[s].overlapped
  PROVE  /\ dev' = View(s) /\ Locks(s) = Plans(s) /\ Plans(s) \subseteq Rows
         /\ \A r \in Plans(s) : dev'[r] = sync[s].locked[r] /\ dev'[r] = sync[s].plan[r]
<1>1. Types /\ RowsSound(s) /\ Own(sync[s])
  BY DEF IInv, RowsInv
<1>2. dev' = View(s)
  BY OnlyCommits DEF Commit
<1>3. sync[s].pc \in Active /\ sync[s].pc # "flush"
  BY DEF Active
<1>4. Locks(s) = Plans(s)
  BY <1>1, <1>3, LinkedFlushed
<1> QED
  BY <1>1, <1>2, <1>3, <1>4, ViewType DEF RowsSound

\* A request that no other overtook leaves exactly one row for every NetBox device it
\* pulled, with the serial and place pulled: whatever row was matched, created or
\* relinked, the unique keys keep any other from the device.
THEOREM SyncLinks == Spec => QuietSyncLinksRecords
<1>1. ASSUME IInv, [Next]_vars, NEW s \in Syncs,
             sync[s].pc = "commit", sync'[s].pc = "audit", ~ sync[s].overlapped,
             NEW j \in DOMAIN sync[s].recs
      PROVE  LET rec == sync[s].recs[j]
                 of  == {r \in Rows : dev'[r].nbid = rec.id}
             IN /\ Cardinality(of) = 1
                /\ \A r \in of : dev'[r].serial = rec.serial /\ dev'[r].place = rec.place
  <2> DEFINE q == sync[s]
             rec == q.recs[j]
             of == {r \in Rows : dev'[r].nbid = rec.id}
  <2>1. Types /\ RowsSound(s) /\ IsSync(q) /\ Own(q)
    BY <1>1 DEF IInv, Types, RowsInv
  <2>2. /\ dev' = View(s) /\ Locks(s) = Plans(s) /\ Plans(s) \subseteq Rows
        /\ \A r \in Plans(s) : dev'[r] = q.locked[r] /\ dev'[r] = q.plan[r]
    BY <1>1, QuietCommit
  <2>3. j \in 1..Looked(q)
    <3>1. q.recs \in Seq(Records) /\ q.k = Len(q.recs) + 1
      BY <1>1, <2>1 DEF IsSync, Own, Progress, Writing
    <3> QED
      BY <1>1, <3>1 DEF Looked
  <2>4. PICK r \in Plans(s) : Copies(q.plan[r], rec)
    BY <2>1, <2>3 DEF Own, Batch, Plans
  <2>5. r \in of /\ dev'[r].serial = rec.serial /\ dev'[r].place = rec.place
    BY <2>2, <2>4 DEF Copies
  <2>6. rec.id # 0
    <3>1. rec \in Records
      <4>1. q.recs \in Seq(Records)
        BY <2>1 DEF IsSync
      <4> QED
        BY <1>1, <4>1
    <3> QED
      BY <3>1, ConstantsAssumption DEF Records
  <2>7. ASSUME NEW x \in of, x # r PROVE FALSE
    <3>1. View(s)[x].nbid = rec.id /\ q.locked[r].nbid = rec.id /\ q.locked[r].exists
      BY <2>1, <2>2, <2>5, <2>7 DEF Own, Batch, Locks
    <3>2. View(s)[x].exists
      <4>1. CASE x \in Locks(s)
        BY <2>1, <2>7, <4>1, ViewType DEF Own, Batch, Locks
      <4>2. CASE x \notin Locks(s)
        BY <2>1, <2>6, <2>7, <3>1, <4>2, ViewType DEF Types, NoRow
      <4> QED
        BY <4>1, <4>2
    <3>3. SameKey(View(s)[x], q.locked[r])
      BY <2>6, <3>1, <3>2 DEF SameKey
    <3> QED
      BY <2>1, <2>2, <2>7, <3>3 DEF RowsSound
  <2>8. of = {r}
    BY <2>5, <2>7
  <2> QED
    BY <2>5, <2>8, FS_Singleton
<1>2. IInv /\ [Next]_vars =>
        [\A s \in Syncs :
           (sync[s].pc = "commit" /\ sync'[s].pc = "audit" /\ ~ sync[s].overlapped) =>
             \A j \in DOMAIN sync[s].recs :
               LET rec == sync[s].recs[j]
                   of  == {r \in Rows : dev'[r].nbid = rec.id}
               IN /\ Cardinality(of) = 1
                  /\ \A r \in of : dev'[r].serial = rec.serial /\ dev'[r].place = rec.place]_vars
  BY <1>1
<1> QED
  BY <1>2, Invariance, PTL DEF Spec, QuietSyncLinksRecords

\* The alignment status a request commits is a mismatch exactly when the findings stored
\* for the device hold an open one, when no other request committed meanwhile.
THEOREM RunBacks == Spec => QuietRunBacksStatus
<1>1. ASSUME IInv, [Next]_vars, NEW s \in Syncs,
             sync[s].pc = "commit", sync'[s].pc = "audit", ~ sync[s].overlapped,
             NEW r \in DOMAIN sync[s].drafts
      PROVE  (dev'[r].align = "mismatch") <=> \E f \in sync[s].drafts[r] : f.open
  <2>1. r \in Plans(s) /\ sync[s].plan[r].align = AlignmentStatus(sync[s].drafts[r])
    BY <1>1 DEF IInv, RowsInv, Own, Progress, Plans
  <2>2. dev'[r] = sync[s].plan[r]
    BY <1>1, <2>1, QuietCommit
  <2> QED
    BY <2>1, <2>2 DEF AlignmentStatus, Unknown
<1>2. IInv /\ [Next]_vars =>
        [\A s \in Syncs :
           (/\ sync[s].pc = "commit" /\ sync'[s].pc = "audit" /\ ~ sync[s].overlapped
            /\ sync[s].ipam \in {"completed", "partial"}) =>
             \A r \in DOMAIN sync[s].drafts :
               (dev'[r].align = "mismatch") <=> \E f \in sync[s].drafts[r] : f.open]_vars
  BY <1>1
<1> QED
  BY <1>2, Invariance, PTL DEF Spec, QuietRunBacksStatus
=============================================================================
