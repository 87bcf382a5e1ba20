------------------------ MODULE FirmwareCatalog_proofs ------------------------
(***************************************************************************)
(* Proofs about FirmwareCatalog, for every set of requests, entries and     *)
(* files and every start that ConstantsAssumption allows.  The rows and keys *)
(* a flush holds keep two live rows of one natural key apart, whoever        *)
(* commits first; and while nobody disturbs a session, the rows it has       *)
(* planned, over those that are committed, are what its commit leaves.      *)
(***************************************************************************)
EXTENDS FirmwareCatalog, TLAPS

---------------------------------------------------------------------------
(* The inductive invariant: shapes and progress.                           *)

Editing == {"open", "truncate", "write"}
Reloading == {"read", "flush", "commit"}
Uploading == {"store", "storing", "flag", "audit first", "commit last"}
Pcs == Editing \cup Reloading \cup Uploading \cup Ended \cup {"idle", "rules", "audit", "audit lost"}

\* Some rows, as a session knows, plans or has written them.
IsTable(f) == DOMAIN f \subseteq Slots /\ f \in [DOMAIN f -> Row]

IsReq(q) ==
  /\ q \in [pc : Pcs, op : Op \cup {NoOp}, doc : Content, k : 1..Len(Kinds), slot : {q.slot},
            base : {q.base}, plan : {q.plan}, locked : {q.locked},
            deltas : SUBSET (Slots \X {"loaded", "removed"}), failed : BOOLEAN, quiet : BOOLEAN]
  /\ IsTable(q.base) /\ IsTable(q.plan) /\ IsTable(q.locked)
  /\ DOMAIN q.base = DOMAIN q.plan /\ DOMAIN q.locked \subseteq DOMAIN q.plan

Types ==
  /\ setting \in Starts
  /\ spent \in [Kept -> Nat] /\ \A what \in Kept : spent[what] \in 0..setting.bound[what]
  /\ IsTree(disk) /\ IsTree(head)
  /\ rows \in [Slots -> Row]
  /\ store \subseteq Vals
  /\ DOMAIN req = Requests /\ \A r \in Requests : IsReq(req[r])
  /\ rules \in Requests \cup {Nobody}
  /\ audits \subseteq Requests \X {"reloaded", "reload_failed", "blob_stored"}
  /\ committed \subseteq Requests

\* What a request may be asked for, and what is left of its session before it
\* begins and after it ends.
Progress(r) ==
  /\ req[r].pc = "idle" => req[r].op = NoOp
  /\ req[r].pc # "idle" => req[r].op \in setting.ops
  /\ req[r].pc \in Editing => req[r].op.kind = "edit"
  /\ req[r].pc \in Reloading \cup {"rules", "audit"} => req[r].op.kind # "upload"
  /\ req[r].pc \in Uploading =>
       /\ req[r].op.kind = "upload"
       /\ req[r].slot \in Slots /\ DOMAIN req[r].plan = {req[r].slot}
       /\ req[r].base[req[r].slot].live
       /\ req[r].plan[req[r].slot] = [req[r].base[req[r].slot] EXCEPT !.blob = TRUE]
  /\ req[r].pc \in {"flag", "audit first", "commit last"} => req[r].base[req[r].slot].val \in store
  /\ req[r].pc \in {"truncate", "write"} =>
       /\ req[r].doc.state # "absent"
       /\ \A e \in req[r].doc.entries : KindOf(e.key) = KindOf(req[r].op.key)
  /\ req[r].pc = "commit" => req[r].k = Len(Kinds)
  /\ req[r].pc \notin InTransaction => /\ req[r].base = NoRows /\ req[r].plan = NoRows
                                       /\ req[r].locked = NoRows /\ req[r].deltas = {}
                                       /\ req[r].k = 1

---------------------------------------------------------------------------
(* Rows.                                                                   *)

Locks(r) == DOMAIN req[r].locked
Plans(r) == DOMAIN req[r].plan

\* The kinds whose look-ups a reload has made.
Past(r) == {Kinds[i] : i \in 1..(IF req[r].pc = "read" THEN req[r].k - 1 ELSE req[r].k)}

\* What r plans are rows of entries, one for a key; what was there when it
\* looked still is; no live package gets another checksum.
PlanSound(r) ==
  /\ \A s \in Plans(r) :
       /\ req[r].plan[s].val # None
       /\ IsRowOf(s, req[r].plan[s]) /\ IsRowOf(s, req[r].base[s])
       /\ req[r].base[s].val # None => rows[s].val # None
       /\ (KindOf(s[1]) = "package" /\ req[r].base[s].live) => req[r].plan[s].val = req[r].base[s].val
       /\ req[r].pc \in Reloading => KindOf(s[1]) \in Past(r)
  /\ \A s, t \in Plans(r) : s[1] = t[1] => s = t
  /\ req[r].pc \in {"read", "commit", "audit first", "commit last"} => Dirty(r) = {}

OneLive(table) ==
  \A s, t \in Slots : (s # t /\ table[s].live /\ table[t].live) => s[1] # t[1]

\* What r has written are rows of entries, one live for a key; an upload has
\* set a flag.
WrittenSound(r) ==
  /\ \A s \in Locks(r) :
       /\ req[r].locked[s].val # None /\ IsRowOf(s, req[r].locked[s])
       /\ req[r].pc \in Uploading => /\ req[r].locked[s].val = rows[s].val
                                     /\ req[r].locked[s].live = rows[s].live
  /\ OneLive(View(r))

\* A row is written by one session, and so are the live rows of a key.
LocksApart ==
  \A r, q \in Requests : \A s \in Locks(r), t \in Locks(q) :
    r # q => s # t /\ (s[1] = t[1] => ~ (req[r].locked[s].live /\ req[q].locked[t].live))

RowsInv ==
  /\ \A s \in Slots : IsRowOf(s, rows[s])
  /\ OneLive(rows)
  /\ \A r \in Requests : PlanSound(r) /\ WrittenSound(r)
  /\ LocksApart

---------------------------------------------------------------------------
(* Commits and audits.                                                     *)

\* Only uploads have committed.
NoReload == \A q \in committed : req[q].op.kind = "upload"

\* Until a reload commits, the tables hold the rows they started with, and
\* who plans a row for a key takes the one that it has.
Unloaded ==
  NoReload =>
    /\ \A s \in Slots : /\ rows[s].val = setting.rows[s].val
                        /\ rows[s].live = setting.rows[s].live
    /\ \A r \in Requests : \A s \in Plans(r), t \in Slots :
         (s[1] = t[1] /\ setting.rows[t].val # None) => setting.rows[s].val # None

AuditOf(r) ==
  /\ r \in committed => req[r].pc \in (Ended \ {"undone"}) \cup {"audit"}
  /\ req[r].pc = "audit" => (req[r].failed <=> r \notin committed)
  /\ <<r, "reloaded">> \in audits => req[r].pc \in Ended /\ (r \in committed \/ req[r].pc = "undone")
  /\ <<r, "reload_failed">> \in audits => r \notin committed /\ req[r].pc \in Ended
  /\ <<r, "blob_stored">> \in audits =>
       \/ r \in committed /\ req[r].pc \in Ended
       \/ req[r].pc \in {"commit last", "crashed"}
  /\ (req[r].pc = "failed" /\ req[r].op.kind = "boot") =>
       \E q \in committed : q # r /\ req[q].op.kind # "upload"

AuditInv == Unloaded /\ \A r \in Requests : AuditOf(r)

---------------------------------------------------------------------------
(* Sessions that nothing has disturbed.                                    *)

\* The rows as r means to leave them.
Outcome(r) == [s \in Slots |-> IF s \in Plans(r) THEN req[r].plan[s] ELSE rows[s]]

\* Some rows serve the entries of a kind, but for live rows whose key is
\* also planned elsewhere: those make the flush fail.
Serves(r, kind) ==
  /\ \A f \in FilesOf(kind) : \A e \in disk[f].entries :
       \E s \in Slots : /\ s[1] = e.key /\ Outcome(r)[s].live
                        /\ Outcome(r)[s].val = e.val /\ Outcome(r)[s].file = f
  /\ \A s \in Slots : (KindOf(s[1]) = kind /\ Outcome(r)[s].live) =>
       \/ /\ disk[Outcome(r)[s].file] # Absent
          /\ kind = "edge" => s[1] \in {e.key : e \in disk[Outcome(r)[s].file].entries}
       \/ \E t \in Plans(r) : t # s /\ t[1] = s[1] /\ req[r].plan[t].live

QuietSound(r) ==
  /\ (req[r].quiet /\ req[r].pc \in InTransaction) =>
       /\ \A s \in Plans(r) : req[r].base[s] = rows[s]
       /\ \A s \in Locks(r) : req[r].locked[s] = req[r].plan[s]
  /\ req[r].pc \in Reloading =>
       /\ {d[1] : d \in req[r].deltas} = {s \in Plans(r) : req[r].plan[s] # req[r].base[s]}
       /\ req[r].quiet => \A kind \in Past(r) : Serves(r, kind)

IInv ==
  /\ Types /\ RowsInv /\ AuditInv
  /\ \A r \in Requests : Progress(r) /\ QuietSound(r)
---------------------------------------------------------------------------
(* Tables, views and what an UPDATE leaves.                                *)

LEMMA KindsFacts ==
  /\ Len(Kinds) = 4 /\ DOMAIN Kinds = 1..4
  /\ \A i, j \in 1..4 : Kinds[i] = Kinds[j] => i = j
  /\ \A kind : (\E i \in 1..4 : Kinds[i] = kind) <=> kind \in {Kinds[i] : i \in 1..4}
<1>1. Kinds = <<"target", "package", "edge", "prerequisite">>
  BY DEF Kinds
<1>2. Len(Kinds) = 4 /\ DOMAIN Kinds = 1..4
  BY <1>1
<1>3. /\ Kinds[1] = "target" /\ Kinds[2] = "package"
      /\ Kinds[3] = "edge" /\ Kinds[4] = "prerequisite"
  BY <1>1
<1>4. \A i \in 1..4 : i = 1 \/ i = 2 \/ i = 3 \/ i = 4
  OBVIOUS
<1> QED
  BY <1>2, <1>3, <1>4

LEMMA NoRowFacts == NoRow \in Row /\ NoRow.val = None /\ ~ NoRow.live /\ NoRow.file = None
  BY DEF NoRow, Row

\* What Overlay returns.
LEMMA OverlayTable ==
  ASSUME NEW f, NEW g, IsTable(f), IsTable(g)
  PROVE  /\ IsTable(Overlay(f, g))
         /\ DOMAIN Overlay(f, g) = DOMAIN f \cup DOMAIN g
         /\ \A s \in DOMAIN f : Overlay(f, g)[s] = f[s]
         /\ \A s \in DOMAIN g \ DOMAIN f : Overlay(f, g)[s] = g[s]
  BY DEF IsTable, Overlay

LEMMA NoRowsTable == IsTable(NoRows) /\ DOMAIN NoRows = {}
  BY DEF IsTable, NoRows

\* A session sees what it has written, and what is committed.
LEMMA ViewType ==
  ASSUME Types, NEW r \in Requests
  PROVE  /\ View(r) \in [Slots -> Row]
         /\ Locks(r) \subseteq Plans(r) /\ Plans(r) \subseteq Slots
         /\ \A s \in Locks(r) : View(r)[s] = req[r].locked[s]
         /\ \A s \in Slots \ Locks(r) : View(r)[s] = rows[s]
  BY DEF Types, IsReq, IsTable, View, Locks, Plans

\* What an UPDATE of the changed columns leaves in a row.
LEMMA MergedFacts ==
  ASSUME Types, NEW r \in Requests, NEW s \in Plans(r)
  PROVE  LET p == req[r].plan[s]
             b == req[r].base[s]
             v == View(r)[s]
             m == Merged(r, s)
         IN /\ p \in Row /\ b \in Row /\ v \in Row /\ m \in Row
            /\ m.val = IF p.val # b.val THEN p.val ELSE v.val
            /\ m.live = IF p.live # b.live THEN p.live ELSE v.live
            /\ m.file = IF p.file # b.file THEN p.file ELSE v.file
            /\ b = v => m = p
<1> DEFINE p == req[r].plan[s]
           b == req[r].base[s]
           v == View(r)[s]
           m == Merged(r, s)
<1>1. s \in Slots /\ s \in DOMAIN req[r].base /\ s \in DOMAIN req[r].plan
  BY DEF Types, IsReq, IsTable, Plans
<1>2. p \in Row /\ b \in Row
  BY <1>1 DEF Types, IsReq, IsTable
<1>3. v \in Row
  BY <1>1, ViewType
<1>4. m = [c \in DOMAIN NoRow |-> IF p[c] # b[c] THEN p[c] ELSE v[c]]
  BY DEF Merged
<1>5. DOMAIN NoRow = {"val", "live", "file", "blob"}
  BY DEF NoRow
<1> HIDE DEF p, b, v, m
<1>6. m \in Row
  BY <1>2, <1>3, <1>4, <1>5 DEF Row
<1>7. b = v => m = p
  BY <1>2, <1>3, <1>4, <1>5 DEF Row
<1>8. /\ m.val = IF p.val # b.val THEN p.val ELSE v.val
      /\ m.live = IF p.live # b.live THEN p.live ELSE v.live
      /\ m.file = IF p.file # b.file THEN p.file ELSE v.file
  BY <1>4, <1>5
<1> QED
  BY <1>2, <1>3, <1>6, <1>7, <1>8 DEF p, b, v, m

\* A row that r is about to write is one of an entry; an upload leaves alone what the
\* entry says.
LEMMA MergedSound ==
  ASSUME Types, RowsInv, NEW r \in Requests, NEW s \in Dirty(r)
  PROVE  /\ s \in Plans(r) /\ s \in Slots /\ s \notin Locks(r)
         /\ Merged(r, s) \in Row
         /\ Merged(r, s).val # None /\ IsRowOf(s, Merged(r, s))
         /\ req[r].base[s] = rows[s] => Merged(r, s) = req[r].plan[s]
         /\ (Progress(r) /\ req[r].pc \in Uploading) =>
              Merged(r, s).val = rows[s].val /\ Merged(r, s).live = rows[s].live
<1> DEFINE p == req[r].plan[s]
           b == req[r].base[s]
           m == Merged(r, s)
<1>1. s \in Plans(r) /\ s \notin Locks(r) /\ s \in Slots
  BY ViewType DEF Dirty, Plans, Locks
<1>2. View(r)[s] = rows[s]
  BY <1>1, ViewType
<1>3. /\ p \in Row /\ b \in Row /\ rows[s] \in Row /\ m \in Row
      /\ m.val = IF p.val # b.val THEN p.val ELSE rows[s].val
      /\ m.live = IF p.live # b.live THEN p.live ELSE rows[s].live
      /\ m.file = IF p.file # b.file THEN p.file ELSE rows[s].file
      /\ b = rows[s] => m = p
  BY <1>1, <1>2, MergedFacts
<1>4. /\ p.val # None /\ IsRowOf(s, p) /\ IsRowOf(s, b) /\ IsRowOf(s, rows[s])
      /\ b.val # None => rows[s].val # None
  BY <1>1 DEF RowsInv, PlanSound
<1>5. (Progress(r) /\ req[r].pc \in Uploading) => p = [b EXCEPT !.blob = TRUE]
  BY <1>1, ZenonT(60) DEF Progress, Plans
<1> HIDE DEF p, b, m
<1>6. m.val # None
  BY <1>3, <1>4
<1>7. IsRowOf(s, m)
  <2>1. p.file \in Files /\ KindOfFile(p.file) = KindOf(s[1])
    BY <1>4 DEF IsRowOf
  <2>2. CASE p.file # b.file
    BY <1>3, <1>6, <2>1, <2>2 DEF IsRowOf
  <2>3. CASE p.file = b.file
    <3>1. b.file # None
      BY <2>1, <2>3, ConstantsAssumption
    <3>2. rows[s].val # None
      BY <1>4, <3>1, NoRowFacts DEF IsRowOf
    <3> QED
      BY <1>3, <1>4, <1>6, <2>3, <3>2 DEF IsRowOf
  <2> QED
    BY <2>2, <2>3
<1>8. (Progress(r) /\ req[r].pc \in Uploading) => m.val = rows[s].val /\ m.live = rows[s].live
  BY <1>3, <1>5 DEF Row
<1> QED
  BY <1>1, <1>3, <1>6, <1>7, <1>8 DEF p, b, m
---------------------------------------------------------------------------
(* Steps and the rows of the sessions.                                     *)

Settled == {"read", "commit", "audit first", "commit last"}

SameRows(q) == /\ req'[q].base = req[q].base /\ req'[q].plan = req[q].plan
               /\ req'[q].locked = req[q].locked

\* What a step leaves of a session's rows: everything, or nothing.
Undisturbed(q) ==
  /\ SameRows(q)
  /\ req'[q].pc \in Reloading => req[q].pc \in Reloading /\ Past(q) \subseteq Past(q)'
  /\ req'[q].pc \in Uploading => req[q].pc \in Uploading
  /\ req'[q].pc \in Settled => req[q].pc \in Settled \/ Dirty(q) = {}
Cleared(q) == req'[q].base = NoRows /\ req'[q].plan = NoRows /\ req'[q].locked = NoRows

\* A plan stays sound while known rows stay known.
LEMMA PlanKept ==
  ASSUME NEW q \in Requests, PlanSound(q), Undisturbed(q),
         \A s \in Plans(q) : rows[s].val # None => rows'[s].val # None
  PROVE  PlanSound(q)'
<1>1. /\ Plans(q)' = Plans(q) /\ Dirty(q)' = Dirty(q)
      /\ req'[q].plan = req[q].plan /\ req'[q].base = req[q].base
  BY DEF Undisturbed, SameRows, Plans, Dirty
<1>2. ASSUME NEW s \in Plans(q)
      PROVE  /\ req[q].plan[s].val # None
             /\ IsRowOf(s, req[q].plan[s]) /\ IsRowOf(s, req[q].base[s])
             /\ req[q].base[s].val # None => rows'[s].val # None
             /\ (KindOf(s[1]) = "package" /\ req[q].base[s].live)
                  => req[q].plan[s].val = req[q].base[s].val
             /\ req'[q].pc \in Reloading => KindOf(s[1]) \in Past(q)'
  BY DEF PlanSound, Undisturbed
<1>3. \A s, t \in Plans(q) : s[1] = t[1] => s = t
  BY DEF PlanSound
<1>4. req'[q].pc \in Settled => Dirty(q) = {}
  BY DEF PlanSound, Undisturbed, Settled
<1> QED
  BY <1>1, <1>2, <1>3, <1>4 DEF PlanSound, Settled

\* Steps that write no row, and steps that end sessions, keep RowsInv.
LEMMA RowsKeep ==
  ASSUME RowsInv, rows' = rows, \A q \in Requests : Undisturbed(q) \/ Cleared(q)
  PROVE  RowsInv'
<1>1. \A q \in Requests : \A s \in Locks(q)' : s \in Locks(q) /\ req'[q].locked[s] = req[q].locked[s]
  BY NoRowsTable DEF Undisturbed, SameRows, Cleared, Locks
<1>2. ASSUME NEW q \in Requests PROVE PlanSound(q)' /\ WrittenSound(q)'
  <2>0. PlanSound(q) /\ WrittenSound(q)
    BY DEF RowsInv
  <2>1. CASE Undisturbed(q)
    <3>1. View(q)' = View(q) /\ Locks(q)' = Locks(q)
      BY <2>1 DEF Undisturbed, SameRows, View, Locks
    <3>2. OneLive(View(q))'
      BY <2>0, <3>1 DEF WrittenSound, OneLive
    <3>3. WrittenSound(q)'
      BY <1>1, <2>0, <2>1, <3>1, <3>2 DEF WrittenSound, Undisturbed
    <3> QED
      BY <2>0, <2>1, <3>3, PlanKept
  <2>2. CASE Cleared(q)
    <3>1. Plans(q)' = {} /\ Locks(q)' = {} /\ Dirty(q)' = {}
      BY <2>2, NoRowsTable DEF Cleared, Plans, Locks, Dirty
    <3>2. View(q)' = [s \in Slots |-> rows[s]]
      BY <3>1 DEF View, Locks
    <3>3. OneLive(View(q))'
      BY <3>2 DEF RowsInv, OneLive
    <3> QED
      BY <3>1, <3>3 DEF PlanSound, WrittenSound
  <2> QED
    BY <2>1, <2>2
<1>3. LocksApart'
  BY <1>1 DEF RowsInv, LocksApart
<1>4. (\A s \in Slots : IsRowOf(s, rows[s]))' /\ OneLive(rows)'
  BY DEF RowsInv, OneLive
<1> QED
  BY <1>2, <1>3, <1>4 DEF RowsInv

\* So does a step that makes a sound plan.
LEMMA RowsPlan ==
  ASSUME RowsInv, rows' = rows, NEW r \in Requests,
         \A q \in Requests \ {r} : Undisturbed(q),
         req'[r].locked = req[r].locked, PlanSound(r)',
         req'[r].pc \in Uploading => Locks(r) = {}
  PROVE  RowsInv'
<1>1. \A q \in Requests : Locks(q)' = Locks(q) /\ req'[q].locked = req[q].locked /\ View(q)' = View(q)
  BY DEF Undisturbed, SameRows, Locks, View
<1>2. ASSUME NEW q \in Requests PROVE PlanSound(q)' /\ WrittenSound(q)'
  <2>0. PlanSound(q) /\ WrittenSound(q)
    BY DEF RowsInv
  <2>1. OneLive(View(q))'
    BY <1>1, <2>0 DEF WrittenSound, OneLive
  <2>2. WrittenSound(q)'
    BY <1>1, <2>0, <2>1 DEF WrittenSound, Undisturbed
  <2>3. q # r => PlanSound(q)'
    BY <2>0, PlanKept
  <2> QED
    BY <2>2, <2>3
<1>3. LocksApart'
  BY <1>1 DEF RowsInv, LocksApart
<1>4. (\A s \in Slots : IsRowOf(s, rows[s]))' /\ OneLive(rows)'
  BY DEF RowsInv, OneLive
<1> QED
  BY <1>2, <1>3, <1>4 DEF RowsInv
\* A flush keeps RowsInv: nobody else holds the rows it writes or a live row of their
\* keys, and it makes no second row of a key live.
LEMMA RowsWrite ==
  ASSUME Types, RowsInv, NEW r \in Requests, Progress(r), rows' = rows,
         req[r].pc \in {"flush", "flag"}, Blockers(r) = {},
         req[r].pc = "flush" => ~ Duplicates(r),
         \A q \in Requests \ {r} : Undisturbed(q),
         req'[r].base = req[r].base, req'[r].plan = req[r].plan,
         req'[r].locked = Overlay(req[r].locked, [s \in Dirty(r) |-> Merged(r, s)]),
         req'[r].pc \in Reloading => req[r].pc = "flush" /\ Past(r) \subseteq Past(r)',
         req'[r].pc \in Uploading => req[r].pc = "flag"
  PROVE  RowsInv'
<1> DEFINE new == [s \in Dirty(r) |-> Merged(r, s)]
<1>1. IsTable(new) /\ DOMAIN new = Dirty(r) /\ \A s \in Dirty(r) : new[s] = Merged(r, s)
  BY MergedSound DEF IsTable
<1>2. IsTable(req[r].locked)
  BY DEF Types, IsReq
<1>3. req'[r].locked = Overlay(req[r].locked, new)
  OBVIOUS
<1> HIDE DEF new
<1>4. /\ Locks(r)' = Locks(r) \cup Dirty(r)
      /\ \A s \in Locks(r) : req'[r].locked[s] = req[r].locked[s]
      /\ \A s \in Dirty(r) : req'[r].locked[s] = Merged(r, s)
  <2>1. Dirty(r) \cap Locks(r) = {}
    BY DEF Dirty, Locks
  <2> DEFINE old == req[r].locked
  <2>2. IsTable(old) /\ DOMAIN old = Locks(r)
    BY <1>2 DEF Locks
  <2>3. req'[r].locked = Overlay(old, new)
    BY <1>3
  <2> HIDE DEF old
  <2>4. /\ DOMAIN Overlay(old, new) = DOMAIN old \cup DOMAIN new
        /\ \A s \in DOMAIN old : Overlay(old, new)[s] = old[s]
        /\ \A s \in DOMAIN new \ DOMAIN old : Overlay(old, new)[s] = new[s]
    BY DEF Overlay
  <2>5. /\ Locks(r)' = Locks(r) \cup Dirty(r)
        /\ \A s \in Locks(r) : req'[r].locked[s] = old[s]
        /\ \A s \in Dirty(r) : req'[r].locked[s] = Merged(r, s)
    BY <1>1, <2>1, <2>2, <2>3, <2>4 DEF Locks
  <2> QED
    BY <2>5 DEF old
<1>5. \A q \in Requests \ {r} : /\ Locks(q)' = Locks(q) /\ View(q)' = View(q)
                               /\ req'[q].locked = req[q].locked
  BY DEF Undisturbed, SameRows, Locks, View
<1>6. Plans(r)' = Plans(r) /\ Locks(r) \subseteq Plans(r) /\ Dirty(r) \subseteq Plans(r)
  BY ViewType DEF Plans, Dirty
<1>7. Dirty(r)' = {}
  BY <1>4, <1>6 DEF Dirty, Locks
<1>8. /\ \A s \in Dirty(r) : s \in Slots /\ View(r)'[s] = Merged(r, s)
      /\ \A s \in Slots \ Dirty(r) : View(r)'[s] = View(r)[s]
  BY <1>4, MergedSound DEF View, Locks
<1>9. PlanSound(r)'
  <2>1. PlanSound(r)
    BY DEF RowsInv
  <2> QED
    BY <1>6, <1>7, <2>1 DEF PlanSound, Plans, Reloading
<1>10. OneLive(View(r))'
  <2>1. OneLive(View(r)) /\ PlanSound(r)
    BY DEF RowsInv, WrittenSound
  <2> SUFFICES ASSUME NEW s \in Slots, NEW t \in Slots, s # t,
                      View(r)'[s].live, View(r)'[t].live, s[1] = t[1]
               PROVE  FALSE
    BY DEF OneLive
  <2>2. CASE s \notin Dirty(r) /\ t \notin Dirty(r)
    BY <1>8, <2>1, <2>2 DEF OneLive
  <2>3. CASE s \in Dirty(r) /\ t \in Dirty(r)
    BY <1>6, <2>1, <2>3 DEF PlanSound
  <2>4. ASSUME NEW x \in Dirty(r), NEW y \in Slots \ Dirty(r), x # y,
               Merged(r, x).live, View(r)[y].live, x[1] = y[1]
        PROVE  FALSE
    <3>1. CASE req[r].pc = "flush"
      BY <2>4, <3>1 DEF Duplicates
    <3>2. CASE req[r].pc = "flag"
      <4>1. Merged(r, x).live = rows[x].live /\ x \notin Locks(r) /\ x \in Slots
        BY <3>2, MergedSound DEF Uploading
      <4>2. View(r)[x].live
        BY <2>4, <4>1, ViewType
      <4> QED
        BY <2>1, <2>4, <4>1, <4>2 DEF OneLive
    <3> QED
      BY <3>1, <3>2
  <2>5. CASE s \in Dirty(r) /\ t \notin Dirty(r)
    BY <1>8, <2>4, <2>5
  <2>6. CASE t \in Dirty(r) /\ s \notin Dirty(r)
    BY <1>8, <2>4, <2>6
  <2> QED
    BY <2>2, <2>3, <2>5, <2>6
<1>11. WrittenSound(r)'
  <2>1. WrittenSound(r)
    BY DEF RowsInv
  <2>2. ASSUME NEW s \in Locks(r)'
        PROVE  /\ req'[r].locked[s].val # None /\ IsRowOf(s, req'[r].locked[s])
               /\ req'[r].pc \in Uploading => /\ req'[r].locked[s].val = rows'[s].val
                                             /\ req'[r].locked[s].live = rows'[s].live
    <3>1. CASE s \in Locks(r)
      BY <1>4, <2>1, <3>1 DEF WrittenSound, Uploading
    <3>2. CASE s \in Dirty(r)
      <4>1. req'[r].locked[s] = Merged(r, s) /\ rows'[s] = rows[s]
        BY <1>4, <3>2
      <4>2. req'[r].pc \in Uploading => req[r].pc \in Uploading
        BY DEF Uploading
      <4>3. /\ Merged(r, s).val # None /\ IsRowOf(s, Merged(r, s))
            /\ req[r].pc \in Uploading =>
                 Merged(r, s).val = rows[s].val /\ Merged(r, s).live = rows[s].live
        BY <3>2, MergedSound
      <4> QED
        BY <4>1, <4>2, <4>3
    <3> QED
      BY <1>4, <3>1, <3>2
  <2> QED
    BY <1>10, <2>2 DEF WrittenSound
<1>12. \A q \in Requests \ {r} : PlanSound(q)' /\ WrittenSound(q)'
  <2> TAKE q \in Requests \ {r}
  <2>1. PlanSound(q) /\ WrittenSound(q) /\ Undisturbed(q)
    BY DEF RowsInv
  <2>2. OneLive(View(q))'
    BY <1>5, <2>1 DEF WrittenSound, OneLive
  <2>3. WrittenSound(q)'
    BY <1>5, <2>1, <2>2 DEF WrittenSound, Undisturbed
  <2> QED
    BY <2>1, <2>3, PlanKept
<1>13. LocksApart'
  <2>1. ASSUME NEW q \in Requests \ {r}, NEW s \in Dirty(r), NEW t \in Locks(q)
        PROVE  s # t /\ (s[1] = t[1] => ~ req[q].locked[t].live)
    BY DEF Blockers, Locks
  <2>2. ASSUME NEW q \in Requests \ {r}, NEW s \in Locks(r)', NEW t \in Locks(q)
        PROVE  s # t /\ (s[1] = t[1] => ~ (req'[r].locked[s].live /\ req[q].locked[t].live))
    BY <1>4, <2>1 DEF RowsInv, LocksApart
  <2>3. ASSUME NEW p \in Requests, NEW q \in Requests, p # q, NEW s \in Locks(p)', NEW t \in Locks(q)'
        PROVE  s # t /\ (s[1] = t[1] => ~ (req'[p].locked[s].live /\ req'[q].locked[t].live))
    <3>1. CASE p = r
      BY <1>5, <2>2, <2>3, <3>1
    <3>2. CASE q = r
      BY <1>5, <2>2, <2>3, <3>2
    <3>3. CASE p # r /\ q # r
      BY <1>5, <2>3, <3>3 DEF RowsInv, LocksApart
    <3> QED
      BY <3>1, <3>2, <3>3
  <2> QED
    BY <2>3 DEF LocksApart
<1>14. (\A s \in Slots : IsRowOf(s, rows[s]))' /\ OneLive(rows)'
  BY DEF RowsInv, OneLive
<1> QED
  BY <1>9, <1>11, <1>12, <1>13, <1>14 DEF RowsInv

\* So does a commit: what others hold is kept apart from what it makes visible.
LEMMA RowsCommitted ==
  ASSUME Types, RowsInv, NEW r \in Requests, rows' = View(r), Cleared(r),
         \A q \in Requests \ {r} : Undisturbed(q)
  PROVE  RowsInv'
<1>1. \A q \in Requests \ {r} : Locks(q)' = Locks(q) /\ req'[q].locked = req[q].locked
  BY DEF Undisturbed, SameRows, Locks
<1>2. Plans(r)' = {} /\ Locks(r)' = {} /\ Dirty(r)' = {}
  BY NoRowsTable DEF Cleared, Plans, Locks, Dirty
<1>3. /\ \A s \in Locks(r) : rows'[s] = req[r].locked[s]
      /\ \A s \in Slots \ Locks(r) : rows'[s] = rows[s]
      /\ Locks(r) \subseteq Slots
  BY ViewType
<1>4. ASSUME NEW s \in Slots PROVE IsRowOf(s, rows'[s]) /\ (rows[s].val # None => rows'[s].val # None)
  BY <1>3 DEF RowsInv, WrittenSound
<1>5. OneLive(rows)'
  BY DEF RowsInv, WrittenSound, OneLive
<1>6. PlanSound(r)' /\ WrittenSound(r)'
  <2>1. View(r)' = [s \in Slots |-> rows'[s]]
    BY <1>2 DEF View, Locks
  <2>2. OneLive(View(r))'
    BY <1>5, <2>1 DEF OneLive
  <2> QED
    BY <1>2, <2>2 DEF PlanSound, WrittenSound
<1>7. \A q \in Requests \ {r} : PlanSound(q)' /\ WrittenSound(q)'
  <2> TAKE q \in Requests \ {r}
  <2>1. PlanSound(q) /\ WrittenSound(q) /\ Undisturbed(q) /\ Plans(q) \subseteq Slots /\ Locks(q) \subseteq Slots
    BY ViewType DEF RowsInv
  <2>2. PlanSound(q)'
    BY <1>4, <2>1, PlanKept
  <2>3. /\ \A s \in Locks(q) : View(q)'[s] = req[q].locked[s] /\ s \notin Locks(r)
        /\ \A s \in Slots \ Locks(q) : View(q)'[s] = rows'[s]
    BY <1>1, <2>1 DEF View, Locks, RowsInv, LocksApart
  <2>4. OneLive(View(q))'
    <3> SUFFICES ASSUME NEW s \in Slots, NEW t \in Slots, s # t,
                        View(q)'[s].live, View(q)'[t].live, s[1] = t[1]
                 PROVE  FALSE
      BY DEF OneLive
    <3>1. CASE s \notin Locks(q) /\ t \notin Locks(q)
      BY <1>5, <2>3, <3>1 DEF OneLive
    <3>2. CASE s \in Locks(q) /\ t \in Locks(q)
      BY <2>1, <2>3, <3>2, ViewType DEF WrittenSound, OneLive
    <3>3. ASSUME NEW x \in Locks(q), NEW y \in Slots \ Locks(q), x # y,
                 req[q].locked[x].live, rows'[y].live, x[1] = y[1]
          PROVE  FALSE
      <4>1. CASE y \in Locks(r)
        BY <1>3, <3>3, <4>1 DEF RowsInv, LocksApart
      <4>2. CASE y \notin Locks(r)
        <5>1. View(q)[x].live /\ View(q)[y].live /\ x \in Slots
          BY <1>3, <2>1, <3>3, <4>2, ViewType
        <5> QED
          BY <2>1, <3>3, <5>1 DEF WrittenSound, OneLive
      <4> QED
        BY <4>1, <4>2
    <3> QED
      BY <2>3, <3>1, <3>2, <3>3
  <2>5. ASSUME NEW s \in Locks(q)'
        PROVE  /\ req'[q].locked[s].val # None /\ IsRowOf(s, req'[q].locked[s])
               /\ req'[q].pc \in Uploading => /\ req'[q].locked[s].val = rows'[s].val
                                             /\ req'[q].locked[s].live = rows'[s].live
    <3>1. s \in Locks(q) /\ s \in Slots \ Locks(r)
      BY <1>1, <2>1, <2>3
    <3>2. rows'[s] = rows[s] /\ req'[q].locked[s] = req[q].locked[s]
      BY <1>1, <1>3, <3>1
    <3> QED
      BY <2>1, <3>1, <3>2 DEF WrittenSound, Undisturbed
  <2> QED
    BY <2>2, <2>4, <2>5 DEF WrittenSound
<1>8. LocksApart'
  <2>1. \A p \in Requests : \A s \in Locks(p)' : p # r /\ s \in Locks(p) /\ req'[p].locked[s] = req[p].locked[s]
    BY <1>1, <1>2
  <2> QED
    BY <2>1 DEF RowsInv, LocksApart
<1> QED
  BY <1>4, <1>5, <1>6, <1>7, <1>8 DEF RowsInv
---------------------------------------------------------------------------
(* What each action does to the session of its request.                    *)

\* The other sessions are told at most that they were disturbed.
Same(q) == req'[q] = req[q] \/ req'[q] = [req[q] EXCEPT !.quiet = FALSE]

Frame(r) == /\ DOMAIN req' = Requests /\ IsReq(req'[r])
            /\ \A q \in Requests \ {r} : Same(q)

\* Nothing of the session is left but what was asked.
Closed(r, pc) == /\ req'[r].pc = pc /\ req'[r].op = req[r].op /\ req'[r].k = 1
                 /\ Cleared(r) /\ req'[r].deltas = {}

\* The session goes on as it was.
Moved(r, pc) == /\ req'[r].pc = pc /\ req'[r].op = req[r].op /\ req'[r].k = req[r].k
                /\ SameRows(r) /\ req'[r].deltas = req[r].deltas /\ req'[r].slot = req[r].slot
                /\ req'[r].quiet = req[r].quiet /\ req'[r].failed = req[r].failed

LEMMA IdleReq ==
  ASSUME NEW pc \in Pcs, NEW op \in Op \cup {NoOp}, NEW failed \in BOOLEAN
  PROVE  /\ IsReq([Idle EXCEPT !.pc = pc, !.op = op])
         /\ IsReq([Idle EXCEPT !.pc = pc, !.op = op, !.failed = failed])
<1>1. /\ Absent \in Content /\ 1 \in 1..Len(Kinds) /\ IsTable(NoRows)
      /\ DOMAIN NoRows \subseteq DOMAIN NoRows
  BY KindsFacts, NoRowsTable DEF Absent, Content
<1> QED
  BY <1>1 DEF IsReq, Idle

LEMMA SameFacts ==
  ASSUME NEW q, IsReq(req[q]), Same(q)
  PROVE  /\ IsReq(req'[q])
         /\ req'[q].pc = req[q].pc /\ req'[q].op = req[q].op /\ req'[q].k = req[q].k
         /\ req'[q].doc = req[q].doc /\ req'[q].slot = req[q].slot
         /\ req'[q].deltas = req[q].deltas /\ req'[q].failed = req[q].failed
         /\ SameRows(q)
         /\ req'[q].quiet => req[q].quiet
<1>1. CASE req'[q] = req[q]
  BY <1>1 DEF SameRows
<1>2. CASE req'[q] = [req[q] EXCEPT !.quiet = FALSE]
  BY <1>2 DEF SameRows, IsReq
<1> QED
  BY <1>1, <1>2 DEF Same

LEMMA SameUndisturbed ==
  ASSUME NEW q, IsReq(req[q]), Same(q)
  PROVE  Undisturbed(q) /\ Plans(q)' = Plans(q) /\ Locks(q)' = Locks(q) /\ Past(q)' = Past(q)
<1>1. req'[q].pc = req[q].pc /\ req'[q].k = req[q].k /\ SameRows(q)
  BY SameFacts
<1>2. Past(q)' = Past(q)
  BY <1>1 DEF Past
<1> QED
  BY <1>1, <1>2 DEF Undisturbed, Plans, Locks, SameRows

LEMMA DisturbedFacts ==
  ASSUME Types, NEW r
  PROVE  /\ DOMAIN Disturbed(r) = Requests
         /\ r \in Requests => Disturbed(r)[r] = req[r]
         /\ \A q \in Requests : \/ Disturbed(r)[q] = req[q]
                                \/ Disturbed(r)[q] = [req[q] EXCEPT !.quiet = FALSE]
         /\ \A q \in Requests : q # r /\ req[q].pc \in InTransaction =>
              Disturbed(r)[q] = [req[q] EXCEPT !.quiet = FALSE]
  BY DEF Disturbed, Types

\* A step of r that writes its own session.
LEMMA OwnFrame ==
  ASSUME Types, NEW r \in Requests, NEW new, IsReq(new), req' = [req EXCEPT ![r] = new]
  PROVE  Frame(r) /\ req'[r] = new /\ \A q \in Requests \ {r} : req'[q] = req[q]
  BY DEF Types, Frame, Same

\* Its step when it changes what others have read.
LEMMA DisturbingFrame ==
  ASSUME Types, NEW r \in Requests, NEW new, IsReq(new), req' = [Disturbed(r) EXCEPT ![r] = new]
  PROVE  /\ Frame(r) /\ req'[r] = new
         /\ \A q \in Requests \ {r} : req[q].pc \in InTransaction => ~ req'[q].quiet
<1>1. DOMAIN req' = Requests /\ req'[r] = new
  BY DisturbedFacts
<1>2. ASSUME NEW q \in Requests \ {r}
      PROVE  Same(q) /\ (req[q].pc \in InTransaction => ~ req'[q].quiet)
  <2>1. req'[q] = Disturbed(r)[q] /\ IsReq(req[q])
    BY DisturbedFacts DEF Types
  <2> QED
    BY <2>1, DisturbedFacts DEF Same, IsReq
<1> QED
  BY <1>1, <1>2 DEF Frame

LEMMA CloseEffect ==
  ASSUME Types, NEW r \in Requests, NEW pc \in Pcs, End(r, pc)
  PROVE  /\ Frame(r) /\ Closed(r, pc) /\ rules' \in Requests \cup {Nobody}
         /\ \A q \in Requests \ {r} : req'[q] = req[q]
<1> DEFINE new == [Idle EXCEPT !.pc = pc, !.op = req[r].op]
<1>1. IsReq(new)
  <2>1. req[r].op \in Op \cup {NoOp}
    BY DEF Types, IsReq
  <2> QED
    BY <2>1, IdleReq
<1>2. req' = [req EXCEPT ![r] = new] /\ rules' \in Requests \cup {Nobody}
  BY DEF End, Released, Types
<1>3. /\ new.pc = pc /\ new.op = req[r].op /\ new.k = 1 /\ new.base = NoRows /\ new.plan = NoRows
      /\ new.locked = NoRows /\ new.deltas = {}
  BY DEF Idle
<1> HIDE DEF new
<1>4. Frame(r) /\ req'[r] = new /\ \A q \in Requests \ {r} : req'[q] = req[q]
  BY <1>1, <1>2, OwnFrame
<1> QED
  BY <1>2, <1>3, <1>4 DEF Closed, Cleared

LEMMA EndEffect ==
  ASSUME Types, NEW r \in Requests, NEW pc \in Ended, End(r, pc)
  PROVE  /\ Frame(r) /\ Closed(r, pc) /\ rules' \in Requests \cup {Nobody}
         /\ \A q \in Requests \ {r} : req'[q] = req[q]
  BY CloseEffect DEF Pcs

LEMMA RefusedEffect ==
  ASSUME Types, NEW r \in Requests, Refused(r)
  PROVE  /\ Frame(r) /\ rules' \in Requests \cup {Nobody}
         /\ \A q \in Requests \ {r} : req'[q] = req[q]
         /\ \/ req[r].op.kind = "boot" /\ Closed(r, "audit") /\ req'[r].failed
            \/ req[r].op.kind # "boot" /\ Closed(r, "failed")
<1>1. CASE req[r].op.kind = "boot"
  <2> DEFINE new == [Idle EXCEPT !.pc = "audit", !.op = req[r].op, !.failed = TRUE]
  <2>1. IsReq(new)
    <3>1. req[r].op \in Op \cup {NoOp} /\ "audit" \in Pcs /\ TRUE \in BOOLEAN
      BY DEF Types, IsReq, Pcs
    <3> QED
      BY <3>1, IdleReq
  <2>2. req' = [req EXCEPT ![r] = new] /\ rules' \in Requests \cup {Nobody}
    BY <1>1 DEF Refused, Types
  <2>3. /\ new.pc = "audit" /\ new.op = req[r].op /\ new.k = 1 /\ new.base = NoRows
        /\ new.plan = NoRows /\ new.locked = NoRows /\ new.deltas = {} /\ new.failed
    BY DEF Idle
  <2> HIDE DEF new
  <2>4. Frame(r) /\ req'[r] = new /\ \A q \in Requests \ {r} : req'[q] = req[q]
    BY <2>1, <2>2, OwnFrame
  <2> QED
    BY <1>1, <2>2, <2>3, <2>4 DEF Closed, Cleared
<1>2. CASE req[r].op.kind # "boot"
  BY <1>2, EndEffect DEF Refused, Ended
<1> QED
  BY <1>1, <1>2

\* Closing a session with a commit.
LEMMA CommittedEffect ==
  ASSUME Types, NEW r \in Requests, NEW pc \in Pcs,
         req' = [Disturbed(r) EXCEPT ![r] = [Idle EXCEPT !.pc = pc, !.op = req[r].op]]
  PROVE  /\ Frame(r) /\ Closed(r, pc) /\ ~ req'[r].failed
         /\ \A q \in Requests \ {r} : req[q].pc \in InTransaction => ~ req'[q].quiet
<1> DEFINE new == [Idle EXCEPT !.pc = pc, !.op = req[r].op]
<1>1. IsReq(new)
  <2>1. req[r].op \in Op \cup {NoOp}
    BY DEF Types, IsReq
  <2> QED
    BY <2>1, IdleReq
<1>2. /\ new.pc = pc /\ new.op = req[r].op /\ new.k = 1 /\ new.base = NoRows /\ new.plan = NoRows
      /\ new.locked = NoRows /\ new.deltas = {} /\ ~ new.failed
  BY DEF Idle
<1>3. req' = [Disturbed(r) EXCEPT ![r] = new]
  OBVIOUS
<1> HIDE DEF new
<1> QED
  BY <1>1, <1>2, <1>3, DisturbingFrame DEF Closed, Cleared

\* Going on with a session.
LEMMA MoveEffect ==
  ASSUME Types, NEW r \in Requests, NEW pc \in Pcs, req' = [req EXCEPT ![r].pc = pc]
  PROVE  /\ Frame(r) /\ Moved(r, pc) /\ req'[r].doc = req[r].doc
         /\ \A q \in Requests \ {r} : req'[q] = req[q]
<1> DEFINE new == [req[r] EXCEPT !.pc = pc]
<1>0. IsReq(req[r])
  BY DEF Types
<1>1. IsReq(new)
  BY <1>0 DEF IsReq
<1>2. /\ new.pc = pc /\ new.op = req[r].op /\ new.k = req[r].k /\ new.base = req[r].base
      /\ new.plan = req[r].plan /\ new.locked = req[r].locked /\ new.deltas = req[r].deltas
      /\ new.slot = req[r].slot /\ new.quiet = req[r].quiet /\ new.failed = req[r].failed
      /\ new.doc = req[r].doc
  BY <1>0 DEF IsReq
<1>3. req' = [req EXCEPT ![r] = new]
  BY DEF Types
<1> HIDE DEF new
<1> QED
  BY <1>1, <1>2, <1>3, OwnFrame DEF Moved, SameRows
---------------------------------------------------------------------------
(* The look-ups of a reload.                                               *)

LEMMA LoadedRow ==
  ASSUME NEW row \in Row, NEW d, d.val \in Vals, d.file \in Files
  PROVE  /\ Loaded(row, d) \in Row
         /\ Loaded(row, d).val = d.val /\ Loaded(row, d).file = d.file /\ Loaded(row, d).live
         /\ Loaded(row, d) # row <=> Changed(row, d)
  BY DEF Row, Loaded, Changed

LEMMA RemovedRow ==
  ASSUME NEW row \in Row
  PROVE  LET p == [row EXCEPT !.live = FALSE]
         IN p \in Row /\ p.val = row.val /\ p.file = row.file /\ ~ p.live
  BY DEF Row

LEMMA DeclaredFacts ==
  ASSUME Types, NEW kind
  PROVE  /\ \A d \in Declared(kind) :
              /\ d.file \in FilesOf(kind) /\ d.key \in Keys /\ d.val \in Vals
              /\ KindOf(d.key) = kind
              /\ [key |-> d.key, val |-> d.val] \in disk[d.file].entries
         /\ \A f \in FilesOf(kind) : \A e \in disk[f].entries :
              \E d \in Declared(kind) : d.key = e.key /\ d.val = e.val /\ d.file = f
<1>1. \A f \in FilesOf(kind) : \A e \in disk[f].entries :
        /\ e \in [key : Keys, val : Vals] /\ KindOf(e.key) = kind
        /\ e = [key |-> e.key, val |-> e.val]
  <2> TAKE f \in FilesOf(kind)
  <2> TAKE e \in disk[f].entries
  <2>1. f \in Files /\ KindOfFile(f) = kind
    BY DEF FilesOf
  <2>2. IsTree(disk)
    BY DEF Types
  <2>3. disk[f] \in Content
    BY <2>1, <2>2 DEF IsTree
  <2>5. KindOf(e.key) = KindOfFile(f)
    BY <2>1, <2>2 DEF IsTree
  <2>4. e \in [key : Keys, val : Vals]
    BY <2>3 DEF Content
  <2> QED
    BY <2>1, <2>4, <2>5
<1>2. \A d \in Declared(kind) : \E f \in FilesOf(kind) : \E e \in disk[f].entries :
        d = [key |-> e.key, val |-> e.val, file |-> f]
  BY DEF Declared
<1>3. \A f \in FilesOf(kind) : \A e \in disk[f].entries :
        [key |-> e.key, val |-> e.val, file |-> f] \in Declared(kind)
  BY DEF Declared
<1>4. ASSUME NEW d \in Declared(kind)
      PROVE  /\ d.file \in FilesOf(kind) /\ d.key \in Keys /\ d.val \in Vals
             /\ KindOf(d.key) = kind
             /\ [key |-> d.key, val |-> d.val] \in disk[d.file].entries
  <2>1. PICK f \in FilesOf(kind) : \E e \in disk[f].entries :
          d = [key |-> e.key, val |-> e.val, file |-> f]
    BY <1>2
  <2>2. PICK e \in disk[f].entries : d = [key |-> e.key, val |-> e.val, file |-> f]
    BY <2>1
  <2>3. d.file = f /\ d.key = e.key /\ d.val = e.val
    BY <2>2
  <2> QED
    BY <1>1, <2>3
<1> QED
  BY <1>3, <1>4

\* Entries are looked up under keys of their kind, each entry under its own.
LEMMA EntryFacts ==
  ASSUME Types, NEW kind, ~ Unloadable(kind, Declared(kind)), NEW d \in Declared(kind)
  PROVE  EntryFor(Declared(kind), d.key) = d
  BY DEF Unloadable, EntryFor

\* A reload plans rows of a kind that it has not looked at before, and sees the
\* committed ones.
LEMMA UnplannedFacts ==
  ASSUME Types, RowsInv, NEW r \in Requests, req[r].pc = "read",
         NEW s \in Slots, KindOf(s[1]) = Kinds[req[r].k]
  PROVE  s \notin Plans(r) /\ s \notin Locks(r) /\ View(r)[s] = rows[s]
<1>1. req[r].k \in 1..4
  BY KindsFacts DEF Types, IsReq
<1>2. KindOf(s[1]) \notin Past(r)
  <2> SUFFICES ASSUME NEW i \in 1..(req[r].k - 1), Kinds[i] = Kinds[req[r].k] PROVE FALSE
    BY DEF Past
  <2> QED
    BY <1>1, KindsFacts
<1>3. s \notin Plans(r)
  BY <1>2 DEF RowsInv, PlanSound, Reloading
<1> QED
  BY <1>3, ViewType

\* The look-ups of r for a kind: which copies they return, the rows of entries and the
\* rows to remove.
Looked(r, kind, decl, copy, picked, stale) ==
  /\ req[r].pc = "read" /\ kind = Kinds[req[r].k] /\ decl = Declared(kind)
  /\ ~ Unloadable(kind, decl)
  /\ copy \in [{d.key : d \in decl} -> Copies]
  /\ picked = {<<d.key, copy[d.key]>> : d \in decl}
  /\ stale = Stale(r, kind, decl)
  /\ \A d \in decl : copy[d.key] \in Lookup(r, d.key)
  /\ ~ \E s \in picked : Conflict(View(r)[s], EntryFor(decl, s[1]))

Loads(r, decl, picked, stale) ==
  LET same == \A s \in picked \cup stale : Planned(r, decl, picked, s) = View(r)[s]
      q    == WithPlan(r, decl, picked, stale)
  IN req' = [req EXCEPT ![r] = IF same THEN Onward(q) ELSE [q EXCEPT !.pc = "flush"]]

\* What the look-ups of a kind are, and what they are to become.
LEMMA PlannedFacts ==
  ASSUME Types, RowsInv, NEW r \in Requests, NEW kind, NEW decl, NEW copy, NEW picked, NEW stale,
         Looked(r, kind, decl, copy, picked, stale)
  PROVE  /\ \A s \in picked :
              /\ s[1] \in {d.key : d \in decl} /\ s[2] = copy[s[1]]
              /\ EntryFor(decl, s[1]) \in decl /\ EntryFor(decl, s[1]).key = s[1]
              /\ Planned(r, decl, picked, s) = Loaded(rows[s], EntryFor(decl, s[1]))
         /\ \A s \in stale : /\ s[1] \notin {d.key : d \in decl} /\ s \notin picked
                             /\ rows[s].live
                             /\ Planned(r, decl, picked, s) = [rows[s] EXCEPT !.live = FALSE]
         /\ \A s \in picked \cup stale :
              /\ s \in Slots /\ KindOf(s[1]) = kind
              /\ s \notin Plans(r) /\ s \notin Locks(r) /\ View(r)[s] = rows[s]
              /\ Planned(r, decl, picked, s) \in Row
              /\ Planned(r, decl, picked, s).val # None
              /\ IsRowOf(s, Planned(r, decl, picked, s))
              /\ (KindOf(s[1]) = "package" /\ rows[s].live) =>
                   Planned(r, decl, picked, s).val = rows[s].val
         /\ \A s, t \in picked \cup stale : s[1] = t[1] => s = t
<1>0. /\ req[r].pc = "read" /\ kind = Kinds[req[r].k] /\ decl = Declared(kind)
      /\ ~ Unloadable(kind, decl)
      /\ copy \in [{d.key : d \in decl} -> Copies]
      /\ picked = {<<d.key, copy[d.key]>> : d \in decl}
      /\ stale = Stale(r, kind, decl)
      /\ ~ \E s \in picked : Conflict(View(r)[s], EntryFor(decl, s[1]))
  BY DEF Looked
<1>1. ASSUME NEW s \in picked
      PROVE  /\ s \in Slots /\ KindOf(s[1]) = kind
             /\ s[1] \in {d.key : d \in decl} /\ s[2] = copy[s[1]]
             /\ EntryFor(decl, s[1]) \in decl /\ EntryFor(decl, s[1]).key = s[1]
  <2>1. PICK d \in decl : s = <<d.key, copy[d.key]>>
    BY <1>0
  <2>2. s[1] = d.key /\ s[2] = copy[d.key] /\ copy[d.key] \in Copies
    BY <1>0, <2>1
  <2>3. d.key \in Keys /\ KindOf(d.key) = kind /\ EntryFor(decl, d.key) = d
    BY <1>0, DeclaredFacts, EntryFacts, ZenonT(60)
  <2> QED
    BY <2>1, <2>2, <2>3 DEF Slots
<1>2. ASSUME NEW s \in stale
      PROVE  /\ s \in Slots /\ KindOf(s[1]) = kind /\ View(r)[s].live
             /\ s[1] \notin {d.key : d \in decl} /\ s \notin picked
  BY <1>0, <1>1 DEF Stale
<1>3. ASSUME NEW s \in picked \cup stale
      PROVE  /\ s \in Slots /\ KindOf(s[1]) = kind
             /\ s \notin Plans(r) /\ s \notin Locks(r) /\ View(r)[s] = rows[s]
             /\ rows[s] \in Row /\ IsRowOf(s, rows[s])
  <2>1. s \in Slots /\ KindOf(s[1]) = kind
    BY <1>1, <1>2
  <2> QED
    BY <1>0, <2>1, UnplannedFacts DEF Types, RowsInv
<1>4. ASSUME NEW s \in picked
      PROVE  /\ Planned(r, decl, picked, s) = Loaded(rows[s], EntryFor(decl, s[1]))
             /\ Planned(r, decl, picked, s) \in Row
             /\ Planned(r, decl, picked, s).val # None
             /\ IsRowOf(s, Planned(r, decl, picked, s))
             /\ (KindOf(s[1]) = "package" /\ rows[s].live) =>
                  Planned(r, decl, picked, s).val = rows[s].val
  <2> DEFINE d == EntryFor(decl, s[1])
  <2>1. rows[s] \in Row /\ View(r)[s] = rows[s] /\ IsRowOf(s, rows[s])
    BY <1>3
  <2>2. d \in decl /\ d.key = s[1]
    BY <1>1
  <2>3. ~ Conflict(rows[s], d)
    BY <1>0, <2>1
  <2>4. Planned(r, decl, picked, s) = Loaded(rows[s], d)
    BY <2>1 DEF Planned
  <2> HIDE DEF d
  <2>5. d.val \in Vals /\ d.file \in FilesOf(kind) /\ KindOf(d.key) = kind
    BY <1>0, <2>2, DeclaredFacts
  <2>6. d.file \in Files /\ KindOfFile(d.file) = KindOf(s[1]) /\ d.val # None
    BY <2>2, <2>5, ConstantsAssumption DEF FilesOf
  <2>7. /\ Loaded(rows[s], d) \in Row /\ Loaded(rows[s], d).val = d.val
        /\ Loaded(rows[s], d).file = d.file
    BY <2>1, <2>5, <2>6, LoadedRow
  <2>8. IsRowOf(s, Loaded(rows[s], d))
    BY <2>6, <2>7 DEF IsRowOf
  <2>9. (KindOf(s[1]) = "package" /\ rows[s].live) => d.val = rows[s].val
    BY <2>2, <2>3 DEF Conflict
  <2> QED
    BY <2>4, <2>6, <2>7, <2>8, <2>9 DEF d
<1>5. ASSUME NEW s \in stale
      PROVE  /\ rows[s].live
             /\ Planned(r, decl, picked, s) = [rows[s] EXCEPT !.live = FALSE]
             /\ Planned(r, decl, picked, s) \in Row
             /\ Planned(r, decl, picked, s).val # None
             /\ IsRowOf(s, Planned(r, decl, picked, s))
             /\ Planned(r, decl, picked, s).val = rows[s].val
  <2>1. rows[s] \in Row /\ View(r)[s] = rows[s] /\ IsRowOf(s, rows[s]) /\ s \notin picked
    BY <1>2, <1>3
  <2>2. rows[s].live /\ Planned(r, decl, picked, s) = [rows[s] EXCEPT !.live = FALSE]
    BY <1>2, <2>1 DEF Planned
  <2> DEFINE p == [rows[s] EXCEPT !.live = FALSE]
  <2>3. p \in Row /\ p.val = rows[s].val /\ p.file = rows[s].file
    BY <2>1, RemovedRow
  <2>4. rows[s].val # None
    BY <2>1, <2>2, NoRowFacts DEF IsRowOf
  <2> HIDE DEF p
  <2>5. IsRowOf(s, p)
    BY <2>1, <2>3, <2>4 DEF IsRowOf
  <2> QED
    BY <2>2, <2>3, <2>4, <2>5 DEF p
<1>6. ASSUME NEW s \in picked \cup stale, NEW t \in picked \cup stale, s[1] = t[1] PROVE s = t
  <2>1. CASE s \in picked /\ t \in picked
    BY <1>1, <1>6, <2>1 DEF Slots
  <2>2. CASE s \in stale /\ t \in stale
    BY <1>2, <1>3, <1>6, <2>2 DEF RowsInv, OneLive
  <2>3. CASE (s \in picked /\ t \in stale) \/ (s \in stale /\ t \in picked)
    BY <1>1, <1>2, <1>6, <2>3
  <2> QED
    BY <2>1, <2>2, <2>3
<1>7. \A s \in picked :
        /\ s[1] \in {d.key : d \in decl} /\ s[2] = copy[s[1]]
        /\ EntryFor(decl, s[1]) \in decl /\ EntryFor(decl, s[1]).key = s[1]
        /\ Planned(r, decl, picked, s) = Loaded(rows[s], EntryFor(decl, s[1]))
  BY <1>1, <1>4
<1>8. \A s \in stale : /\ s[1] \notin {d.key : d \in decl} /\ s \notin picked
                       /\ rows[s].live
                       /\ Planned(r, decl, picked, s) = [rows[s] EXCEPT !.live = FALSE]
  BY <1>2, <1>5
<1>9. \A s \in picked \cup stale :
        /\ Planned(r, decl, picked, s) \in Row
        /\ Planned(r, decl, picked, s).val # None
        /\ IsRowOf(s, Planned(r, decl, picked, s))
        /\ (KindOf(s[1]) = "package" /\ rows[s].live) =>
             Planned(r, decl, picked, s).val = rows[s].val
  BY <1>4, <1>5
<1>10. \A s \in picked \cup stale :
         /\ s \in Slots /\ KindOf(s[1]) = kind
         /\ s \notin Plans(r) /\ s \notin Locks(r) /\ View(r)[s] = rows[s]
         /\ Planned(r, decl, picked, s) \in Row
         /\ Planned(r, decl, picked, s).val # None
         /\ IsRowOf(s, Planned(r, decl, picked, s))
         /\ (KindOf(s[1]) = "package" /\ rows[s].live) =>
              Planned(r, decl, picked, s).val = rows[s].val
  BY <1>3, <1>9
<1> QED
  BY <1>6, <1>7, <1>8, <1>10
\* The next kind, or the commit after the last.
LEMMA OnwardFacts ==
  ASSUME NEW q, IsReq(q)
  PROVE  LET o == Onward(q)
         IN /\ IsReq(o) /\ o.pc \in {"read", "commit"}
            /\ o.op = q.op /\ o.doc = q.doc /\ o.slot = q.slot /\ o.base = q.base
            /\ o.plan = q.plan /\ o.locked = q.locked /\ o.deltas = q.deltas
            /\ o.failed = q.failed /\ o.quiet = q.quiet
            /\ (IF o.pc = "read" THEN o.k - 1 ELSE o.k) = q.k
            /\ o.pc = "commit" => o.k = Len(Kinds)
<1> DEFINE o == Onward(q)
<1>1. q.k \in 1..4 /\ Len(Kinds) = 4
  BY KindsFacts DEF IsReq
<1>2. CASE q.k < 4
  <2>1. o = [q EXCEPT !.pc = "read", !.k = @ + 1]
    BY <1>1, <1>2 DEF Onward
  <2>2. q.k + 1 \in 1..4 /\ (q.k + 1) - 1 = q.k /\ "read" \in Pcs
    BY <1>1, <1>2 DEF Pcs, Reloading
  <2> QED
    BY <1>1, <2>1, <2>2 DEF IsReq
<1>3. CASE ~ (q.k < 4)
  <2>1. o = [q EXCEPT !.pc = "commit"]
    BY <1>1, <1>3 DEF Onward
  <2>2. "commit" \in Pcs /\ q.k = Len(Kinds)
    BY <1>1, <1>3 DEF Pcs, Reloading
  <2> QED
    BY <1>1, <2>1, <2>2 DEF IsReq
<1> QED
  BY <1>2, <1>3

\* The session after the look-ups of a kind.
LEMMA LoadSession ==
  ASSUME Types, RowsInv, NEW r \in Requests, NEW kind, NEW decl, NEW copy, NEW picked, NEW stale,
         Looked(r, kind, decl, copy, picked, stale),
         Loads(r, decl, picked, stale)
  PROVE  /\ Frame(r) /\ \A q \in Requests \ {r} : req'[q] = req[q]
         /\ req'[r].op = req[r].op /\ req'[r].locked = req[r].locked
         /\ req'[r].quiet = req[r].quiet
         /\ req'[r].pc \in Reloading /\ Past(r)' = Past(r) \cup {kind}
         /\ req'[r].pc = "commit" => req'[r].k = Len(Kinds)
         /\ Plans(r)' = Plans(r) \cup picked \cup stale
         /\ \A s \in Plans(r) : /\ req'[r].plan[s] = req[r].plan[s]
                                /\ req'[r].base[s] = req[r].base[s]
         /\ \A s \in picked \cup stale : /\ req'[r].plan[s] = Planned(r, decl, picked, s)
                                         /\ req'[r].base[s] = rows[s]
         /\ req'[r].deltas =
              req[r].deltas \cup {<<s, "loaded">> : s \in {t \in picked : Changed(View(r)[t], EntryFor(decl, t[1]))}}
                            \cup {<<s, "removed">> : s \in stale}
         /\ req'[r].pc # "flush" =>
              \A s \in picked \cup stale : Planned(r, decl, picked, s) = rows[s]
<1> DEFINE n == picked \cup stale
           nb == [s \in picked \cup stale |-> View(r)[s]]
           np == [s \in picked \cup stale |-> Planned(r, decl, picked, s)]
           nd == req[r].deltas
                   \cup {<<s, "loaded">> : s \in {t \in picked : Changed(View(r)[t], EntryFor(decl, t[1]))}}
                   \cup {<<s, "removed">> : s \in stale}
           q == WithPlan(r, decl, picked, stale)
           b == Overlay(req[r].base, nb)
           p == Overlay(req[r].plan, np)
           same == \A s \in picked \cup stale : Planned(r, decl, picked, s) = View(r)[s]
           new == IF same THEN Onward(q) ELSE [q EXCEPT !.pc = "flush"]
<1>1. \A s \in n : /\ s \in Slots /\ s \notin Plans(r) /\ View(r)[s] = rows[s]
                   /\ Planned(r, decl, picked, s) \in Row /\ rows[s] \in Row
  BY PlannedFacts DEF Types
<1>2. /\ IsTable(nb) /\ DOMAIN nb = n /\ \A s \in n : nb[s] = rows[s]
      /\ IsTable(np) /\ DOMAIN np = n /\ \A s \in n : np[s] = Planned(r, decl, picked, s)
  BY <1>1 DEF IsTable
<1>3. nd \in SUBSET (Slots \X {"loaded", "removed"})
  <2>1. req[r].deltas \in SUBSET (Slots \X {"loaded", "removed"})
    BY DEF Types, IsReq
  <2>2. \A s \in picked : <<s, "loaded">> \in Slots \X {"loaded", "removed"}
    BY <1>1
  <2>3. \A s \in stale : <<s, "removed">> \in Slots \X {"loaded", "removed"}
    BY <1>1
  <2> QED
    BY <2>1, <2>2, <2>3
<1>4. q = [req[r] EXCEPT !.base = b, !.plan = p, !.deltas = nd]
  BY DEF WithPlan
<1>5. /\ IsReq(req[r]) /\ IsTable(req[r].base) /\ IsTable(req[r].plan) /\ req[r].k \in 1..4
      /\ DOMAIN req[r].base = DOMAIN req[r].plan /\ Plans(r) = DOMAIN req[r].plan
  BY KindsFacts DEF Types, IsReq, Plans
<1>6. /\ req' = [req EXCEPT ![r] = new]
      /\ same <=> \A s \in n : Planned(r, decl, picked, s) = rows[s]
  BY <1>1 DEF Loads
<1> HIDE DEF nb, np, nd, n, same
<1>7. /\ IsTable(b) /\ IsTable(p) /\ DOMAIN b = DOMAIN p /\ DOMAIN p = Plans(r) \cup n
      /\ \A s \in Plans(r) : b[s] = req[r].base[s] /\ p[s] = req[r].plan[s]
      /\ \A s \in n : b[s] = rows[s] /\ p[s] = Planned(r, decl, picked, s)
  <2> HIDE DEF b, p
  <2>1. IsTable(nb) /\ IsTable(req[r].base) /\ b = Overlay(req[r].base, nb)
    BY <1>2, <1>5 DEF b
  <2>2. IsTable(np) /\ IsTable(req[r].plan) /\ p = Overlay(req[r].plan, np)
    BY <1>2, <1>5 DEF p
  <2>3. DOMAIN nb = n /\ DOMAIN req[r].base = Plans(r) /\ DOMAIN np = n /\ DOMAIN req[r].plan = Plans(r)
    BY <1>2, <1>5
  <2>4. IsTable(b) /\ IsTable(p)
    BY <2>1, <2>2, OverlayTable
  <2>5. /\ DOMAIN b = Plans(r) \cup n
        /\ \A s \in Plans(r) : b[s] = req[r].base[s]
        /\ \A s \in n \ Plans(r) : b[s] = nb[s]
    BY <2>1, <2>3 DEF Overlay
  <2>6. /\ DOMAIN p = Plans(r) \cup n
        /\ \A s \in Plans(r) : p[s] = req[r].plan[s]
        /\ \A s \in n \ Plans(r) : p[s] = np[s]
    BY <2>2, <2>3 DEF Overlay
  <2> QED
    BY <1>1, <1>2, <2>3, <2>4, <2>5, <2>6
<1> HIDE DEF b, p
<1>8. /\ IsReq(q) /\ q.op = req[r].op /\ q.k = req[r].k /\ q.base = b /\ q.plan = p
      /\ q.locked = req[r].locked /\ q.deltas = nd /\ q.quiet = req[r].quiet
  <2>1. DOMAIN req[r].locked \subseteq DOMAIN p
    BY <1>5, <1>7 DEF IsReq
  <2>2. /\ q.op = req[r].op /\ q.k = req[r].k /\ q.base = b /\ q.plan = p
        /\ q.locked = req[r].locked /\ q.deltas = nd /\ q.quiet = req[r].quiet
    BY <1>4, <1>5 DEF IsReq
  <2>3. /\ q.pc = req[r].pc /\ q.doc = req[r].doc /\ q.slot = req[r].slot
        /\ q.failed = req[r].failed /\ DOMAIN q = DOMAIN req[r]
    BY <1>4, <1>5 DEF IsReq
  <2>4. q \in [pc : Pcs, op : Op \cup {NoOp}, doc : Content, k : 1..Len(Kinds), slot : {q.slot},
              base : {q.base}, plan : {q.plan}, locked : {q.locked},
              deltas : SUBSET (Slots \X {"loaded", "removed"}), failed : BOOLEAN, quiet : BOOLEAN]
    BY <1>3, <1>4, <1>5 DEF IsReq
  <2>5. IsReq(q)
    BY <1>5, <1>7, <2>1, <2>2, <2>4 DEF IsReq
  <2> QED
    BY <2>2, <2>5
<1> HIDE DEF q
<1>9. /\ IsReq(new) /\ new.op = req[r].op /\ new.base = b /\ new.plan = p
      /\ new.locked = req[r].locked /\ new.deltas = nd /\ new.quiet = req[r].quiet
      /\ new.pc \in Reloading
      /\ (IF new.pc = "read" THEN new.k - 1 ELSE new.k) = req[r].k
      /\ new.pc # "flush" => same
      /\ new.pc = "commit" => new.k = Len(Kinds)
  <2>1. CASE same
    <3>1. new = Onward(q)
      BY <2>1
    <3> QED
      BY <1>8, <2>1, <3>1, OnwardFacts DEF Reloading
  <2>2. CASE ~ same
    <3>1. new = [q EXCEPT !.pc = "flush"] /\ "flush" \in Pcs
      BY <2>2 DEF Pcs, Reloading
    <3>2. /\ new.op = q.op /\ new.base = q.base /\ new.plan = q.plan /\ new.locked = q.locked
          /\ new.deltas = q.deltas /\ new.quiet = q.quiet /\ new.pc = "flush" /\ new.k = q.k
      BY <1>8, <3>1 DEF IsReq
    <3>3. IsReq(new)
      BY <1>8, <3>1 DEF IsReq
    <3> QED
      BY <1>8, <3>2, <3>3 DEF Reloading
  <2> QED
    BY <2>1, <2>2
<1> HIDE DEF new
<1>10. Frame(r) /\ req'[r] = new /\ \A x \in Requests \ {r} : req'[x] = req[x]
  BY <1>6, <1>9, OwnFrame
<1>11. Past(r)' = Past(r) \cup {kind}
  <2>1. Past(r)' = {Kinds[i] : i \in 1..req[r].k}
    BY <1>9, <1>10 DEF Past
  <2>2. Past(r) = {Kinds[i] : i \in 1..(req[r].k - 1)} /\ kind = Kinds[req[r].k]
    BY DEF Past, Looked
  <2>3. 1..req[r].k = (1..(req[r].k - 1)) \cup {req[r].k}
    BY <1>5
  <2> QED
    BY <2>1, <2>2, <2>3
<1>12. Plans(r)' = Plans(r) \cup picked \cup stale
  BY <1>7, <1>9, <1>10 DEF Plans, n
<1>13. /\ \A s \in Plans(r) : req'[r].plan[s] = req[r].plan[s] /\ req'[r].base[s] = req[r].base[s]
       /\ \A s \in picked \cup stale : /\ req'[r].plan[s] = Planned(r, decl, picked, s)
                                       /\ req'[r].base[s] = rows[s]
  BY <1>7, <1>9, <1>10 DEF n
<1>14. req'[r].pc # "flush" => \A s \in picked \cup stale : Planned(r, decl, picked, s) = rows[s]
  BY <1>6, <1>9, <1>10 DEF n
<1>15. /\ req'[r].op = req[r].op /\ req'[r].locked = req[r].locked /\ req'[r].quiet = req[r].quiet
       /\ req'[r].pc \in Reloading /\ req'[r].deltas = nd
       /\ req'[r].pc = "commit" => req'[r].k = Len(Kinds)
  BY <1>9, <1>10
<1> QED
  BY <1>10, <1>11, <1>12, <1>13, <1>14, <1>15 DEF nd
LEMMA LoadRows ==
  ASSUME Types, RowsInv, NEW r \in Requests, NEW kind, NEW decl, NEW copy, NEW picked, NEW stale,
         Looked(r, kind, decl, copy, picked, stale), Loads(r, decl, picked, stale), rows' = rows
  PROVE  RowsInv'
<1> DEFINE n == picked \cup stale
<1>1. /\ Frame(r) /\ \A q \in Requests \ {r} : req'[q] = req[q]
      /\ req'[r].locked = req[r].locked
      /\ req'[r].pc \in Reloading /\ Past(r)' = Past(r) \cup {kind}
      /\ Plans(r)' = Plans(r) \cup n
      /\ \A s \in Plans(r) : req'[r].plan[s] = req[r].plan[s] /\ req'[r].base[s] = req[r].base[s]
      /\ \A s \in n : /\ req'[r].plan[s] = Planned(r, decl, picked, s)
                      /\ req'[r].base[s] = rows[s]
      /\ req'[r].pc # "flush" => \A s \in n : Planned(r, decl, picked, s) = rows[s]
  BY LoadSession
<1>2. \A s \in n :
        /\ s \in Slots /\ KindOf(s[1]) = kind
        /\ Planned(r, decl, picked, s).val # None
        /\ IsRowOf(s, Planned(r, decl, picked, s))
        /\ (KindOf(s[1]) = "package" /\ rows[s].live) => Planned(r, decl, picked, s).val = rows[s].val
  BY PlannedFacts
<1>3. \A s, t \in n : s[1] = t[1] => s = t
  BY PlannedFacts
<1>4. /\ PlanSound(r) /\ Plans(r) \subseteq Slots /\ req[r].pc = "read" /\ kind = Kinds[req[r].k]
      /\ \A s \in Slots : IsRowOf(s, rows[s])
  BY ViewType DEF RowsInv, Looked
<1> HIDE DEF n
<1>5. \A q \in Requests \ {r} : Undisturbed(q)
  BY <1>1, SameUndisturbed DEF Types, Same
<1>6. PlanSound(r)'
  <2>1. ASSUME NEW s \in Plans(r)'
        PROVE  /\ req'[r].plan[s].val # None
               /\ IsRowOf(s, req'[r].plan[s]) /\ IsRowOf(s, req'[r].base[s])
               /\ req'[r].base[s].val # None => rows'[s].val # None
               /\ (KindOf(s[1]) = "package" /\ req'[r].base[s].live)
                    => req'[r].plan[s].val = req'[r].base[s].val
               /\ req'[r].pc \in Reloading => KindOf(s[1]) \in Past(r)'
    <3>1. CASE s \in Plans(r)
      BY <1>1, <1>4, <3>1, SMTT(30) DEF PlanSound, Reloading
    <3>2. CASE s \in n
      BY <1>1, <1>2, <1>4, <3>2
    <3> QED
      BY <1>1, <3>1, <3>2
  <2>2. ASSUME NEW s \in Plans(r)', NEW t \in Plans(r)', s[1] = t[1] PROVE s = t
    <3>1. ASSUME NEW x \in Plans(r), NEW y \in n, x[1] = y[1] PROVE FALSE
      BY <1>2, <1>4, <3>1, UnplannedFacts
    <3>2. CASE s \in Plans(r) /\ t \in Plans(r)
      BY <1>4, <2>2, <3>2 DEF PlanSound
    <3>3. CASE s \in n /\ t \in n
      BY <1>3, <2>2, <3>3
    <3> QED
      BY <1>1, <2>2, <3>1, <3>2, <3>3
  <2>3. ASSUME req'[r].pc \in Settled PROVE Dirty(r)' = {}
    <3>1. Dirty(r) = {}
      BY <1>4 DEF PlanSound
    <3>2. req'[r].pc # "flush"
      BY <2>3 DEF Settled
    <3>3. \A s \in n : req'[r].plan[s] = req'[r].base[s]
      BY <1>1, <3>2
    <3>4. \A s \in Plans(r)' \ Locks(r)' : req'[r].plan[s] = req'[r].base[s]
      BY <1>1, <3>1, <3>3 DEF Dirty, Plans, Locks
    <3> QED
      BY <3>4 DEF Dirty, Plans, Locks
  <2> QED
    BY <2>1, <2>2, <2>3 DEF PlanSound, Settled
<1>7. req'[r].pc \notin Uploading
  BY <1>1 DEF Reloading, Uploading
<1> QED
  BY <1>1, <1>5, <1>6, <1>7, RowsPlan

---------------------------------------------------------------------------
(* The other actions.                                                      *)

LEMMA OpFacts ==
  ASSUME Types, NEW op \in setting.ops
  PROVE  /\ op \in Op
         /\ op.kind \in {"edit", "upload"} => op.key \in Keys /\ op.val \in Vals
         /\ op.kind = "edit" => /\ EditedFile(op.key) \in Files
                                /\ KindOfFile(EditedFile(op.key)) = KindOf(op.key)
  BY ConstantsAssumption DEF Types, IsStart

\* The document to write holds entries of the kind of the one asked for.
LEMMA NewDocFacts ==
  ASSUME Types, NEW op \in setting.ops, op.kind = "edit"
  PROVE  LET doc == NewDoc(op, disk[EditedFile(op.key)])
         IN /\ doc \in Content /\ doc.state # "absent"
            /\ \A e \in doc.entries : KindOf(e.key) = KindOf(op.key)
<1> DEFINE f == EditedFile(op.key)
           old == disk[f]
           new == Entry(op)
           doc == NewDoc(op, old)
<1>1. /\ op.key \in Keys /\ op.val \in Vals /\ f \in Files /\ KindOfFile(f) = KindOf(op.key)
  BY OpFacts
<1>2. /\ old \in Content /\ (old.state = "absent" => old = Absent)
      /\ \A e \in old.entries : KindOf(e.key) = KindOf(op.key)
  BY <1>1 DEF Types, IsTree
<1>3. new \in [key : Keys, val : Vals] /\ new.key = op.key
  BY <1>1 DEF Entry
<1>4. CASE KindOf(op.key) = "edge" /\ old # Absent
  <2>1. doc = [old EXCEPT !.entries = @ \cup {new}]
    BY <1>4 DEF NewDoc
  <2> HIDE DEF doc, old, new, f
  <2>2. doc \in Content /\ doc.state = old.state /\ doc.entries = old.entries \cup {new}
    BY <1>2, <1>3, <2>1 DEF Content
  <2> QED
    BY <1>2, <1>3, <1>4, <2>2 DEF doc, old, new, f
<1>5. CASE ~ (KindOf(op.key) = "edge" /\ old # Absent)
  <2>1. doc = [state |-> "sound", entries |-> {new}]
    BY <1>5 DEF NewDoc
  <2> HIDE DEF doc, old, new, f
  <2>2. doc \in Content /\ doc.state = "sound" /\ doc.entries = {new}
    BY <1>3, <2>1 DEF Content
  <2> QED
    BY <1>3, <2>2 DEF doc, old, new, f
<1> QED
  BY <1>4, <1>5

LEMMA OpenEffect ==
  ASSUME Types, NEW r \in Requests, Progress(r), Open(r)
  PROVE  /\ Frame(r) /\ rules' \in Requests \cup {Nobody}
         /\ \A q \in Requests \ {r} : req'[q] = req[q]
         /\ \/ Closed(r, "failed")
            \/ /\ Moved(r, "truncate")
               /\ req'[r].doc.state # "absent"
               /\ \A e \in req'[r].doc.entries : KindOf(e.key) = KindOf(req[r].op.key)
<1> DEFINE op == req[r].op
           doc == NewDoc(op, disk[EditedFile(op.key)])
           new == [req[r] EXCEPT !.doc = doc, !.pc = "truncate"]
<1>1. op \in setting.ops /\ op.kind = "edit"
  BY DEF Progress, Open, Editing
<1>2. CASE End(r, "failed")
  BY <1>2, EndEffect DEF Ended
<1>3. CASE ~ End(r, "failed")
  <2>1. req' = [req EXCEPT ![r] = new] /\ rules' = rules
    BY <1>3 DEF Open, Types
  <2>2. doc \in Content /\ doc.state # "absent" /\ \A e \in doc.entries : KindOf(e.key) = KindOf(op.key)
    BY <1>1, NewDocFacts
  <2>3. IsReq(req[r])
    BY DEF Types
  <2> HIDE DEF doc
  <2>4. /\ IsReq(new) /\ new.doc = doc /\ new.pc = "truncate"
        /\ new.op = req[r].op /\ new.k = req[r].k /\ new.base = req[r].base
        /\ new.plan = req[r].plan /\ new.locked = req[r].locked /\ new.deltas = req[r].deltas
        /\ new.slot = req[r].slot /\ new.quiet = req[r].quiet /\ new.failed = req[r].failed
    BY <2>2, <2>3 DEF IsReq, Pcs, Editing
  <2> HIDE DEF new
  <2>5. Frame(r) /\ req'[r] = new /\ \A q \in Requests \ {r} : req'[q] = req[q]
    BY <2>1, <2>4, OwnFrame
  <2> QED
    BY <2>1, <2>2, <2>4, <2>5 DEF Moved, SameRows, Types
<1> QED
  BY <1>2, <1>3

\* The editor's writes.
LEMMA EditEffect ==
  ASSUME Types, NEW r \in Requests, Progress(r), Truncate(r) \/ Write(r)
  PROVE  /\ Frame(r) /\ IsTree(disk')
         /\ \A q \in Requests \ {r} : req[q].pc \in InTransaction => ~ req'[q].quiet
         /\ \E pc \in {"write", "rules", "done"} : Moved(r, pc)
         /\ req'[r].pc = "write" => req'[r].doc = req[r].doc /\ req[r].pc = "truncate"
<1> DEFINE op == req[r].op
           f == EditedFile(op.key)
<1>1. /\ f \in Files /\ KindOfFile(f) = KindOf(op.key) /\ IsReq(req[r])
  <2>1. op \in setting.ops /\ op.kind = "edit"
    BY DEF Progress, Truncate, Write, Editing
  <2> QED
    BY <2>1, OpFacts DEF Types
<1>2. CASE Truncate(r)
  <2> DEFINE new == [req[r] EXCEPT !.pc = "write"]
  <2>1. disk' = [disk EXCEPT ![f] = Broken] /\ req[r].pc = "truncate"
    BY <1>2 DEF Truncate
  <2>2. IsTree(disk')
    <3>1. Broken \in Content /\ Broken.state # "absent" /\ Broken.entries = {}
      BY DEF Broken, Content
    <3>2. IsTree(disk)
      BY DEF Types
    <3> HIDE DEF f
    <3> QED
      BY <1>1, <2>1, <3>1, <3>2 DEF IsTree
  <2>3. /\ IsReq(new) /\ new.pc = "write" /\ new.doc = req[r].doc
        /\ new.op = req[r].op /\ new.k = req[r].k /\ new.base = req[r].base
        /\ new.plan = req[r].plan /\ new.locked = req[r].locked /\ new.deltas = req[r].deltas
        /\ new.slot = req[r].slot /\ new.quiet = req[r].quiet /\ new.failed = req[r].failed
    BY <1>1 DEF IsReq, Pcs, Editing
  <2>4. req' = [Disturbed(r) EXCEPT ![r] = new]
    BY <1>2, DisturbedFacts DEF Truncate
  <2> HIDE DEF new
  <2> QED
    BY <2>1, <2>2, <2>3, <2>4, DisturbingFrame DEF Moved, SameRows
<1>3. CASE Write(r)
  <2> DEFINE pc == IF op.reload THEN "rules" ELSE "done"
             new == [req[r] EXCEPT !.doc = Absent, !.pc = pc]
  <2>1. disk' = [disk EXCEPT ![f] = req[r].doc] /\ req[r].pc = "write"
    BY <1>3 DEF Write
  <2>2. IsTree(disk')
    <3>1. /\ req[r].doc \in Content /\ req[r].doc.state # "absent"
          /\ \A e \in req[r].doc.entries : KindOf(e.key) = KindOf(op.key)
      BY <1>1, <2>1 DEF IsReq, Progress
    <3>2. IsTree(disk)
      BY DEF Types
    <3> HIDE DEF f
    <3> QED
      BY <1>1, <2>1, <3>1, <3>2 DEF IsTree
  <2>3. /\ IsReq(new) /\ new.pc = pc
        /\ new.op = req[r].op /\ new.k = req[r].k /\ new.base = req[r].base
        /\ new.plan = req[r].plan /\ new.locked = req[r].locked /\ new.deltas = req[r].deltas
        /\ new.slot = req[r].slot /\ new.quiet = req[r].quiet /\ new.failed = req[r].failed
    <3>1. Absent \in Content /\ pc \in Pcs
      BY DEF Absent, Content, Pcs, Ended
    <3> HIDE DEF pc
    <3> QED
      BY <1>1, <3>1 DEF IsReq
  <2>4. req' = [Disturbed(r) EXCEPT ![r] = new]
    BY <1>3, DisturbedFacts DEF Write
  <2>5. pc \in {"rules", "done"}
    OBVIOUS
  <2> HIDE DEF new, pc
  <2> QED
    BY <2>1, <2>2, <2>3, <2>4, <2>5, DisturbingFrame DEF Moved, SameRows
<1> QED
  BY <1>2, <1>3
LEMMA StartEffect ==
  ASSUME Types, NEW r \in Requests, Start(r)
  PROVE  /\ Frame(r) /\ rules' \in Requests \cup {Nobody} /\ req[r].pc = "rules"
         /\ \A q \in Requests \ {r} : req'[q] = req[q]
         /\ Moved(r, "read") \/ Refused(r)
<1>1. CASE Refused(r)
  BY <1>1, RefusedEffect DEF Start
<1>2. CASE ~ Refused(r)
  <2>1. req' = [req EXCEPT ![r].pc = "read"] /\ rules' \in Requests \cup {Nobody}
    BY <1>2 DEF Start
  <2>2. "read" \in Pcs
    BY DEF Pcs, Reloading
  <2> QED
    BY <2>1, <2>2, MoveEffect DEF Start
<1> QED
  BY <1>1, <1>2

LEMMA ReadEffect ==
  ASSUME Types, NEW r \in Requests, Read(r)
  PROVE  \/ Refused(r)
         \/ /\ rules' = rules
            /\ \E kind, decl, copy, picked, stale :
                 Looked(r, kind, decl, copy, picked, stale) /\ Loads(r, decl, picked, stale)
<1> DEFINE kind == Kinds[req[r].k]
           decl == Declared(kind)
<1>1. CASE Refused(r)
  BY <1>1
<1>2. CASE ~ Refused(r)
  <2>1. ~ Unloadable(kind, decl) /\ Load(r, kind, decl) /\ req[r].pc = "read"
    BY <1>2 DEF Read
  <2>2. PICK copy \in [{d.key : d \in decl} -> Copies] :
          LET picked == {<<d.key, copy[d.key]>> : d \in decl}
              stale  == Stale(r, kind, decl)
          IN /\ \A d \in decl : copy[d.key] \in Lookup(r, d.key)
             /\ IF \E s \in picked : Conflict(View(r)[s], EntryFor(decl, s[1])) THEN Refused(r)
                ELSE Loads(r, decl, picked, stale) /\ rules' = rules
    BY <2>1 DEF Load, Loads
  <2> DEFINE picked == {<<d.key, copy[d.key]>> : d \in decl}
             stale == Stale(r, kind, decl)
  <2>3. Looked(r, kind, decl, copy, picked, stale) /\ Loads(r, decl, picked, stale) /\ rules' = rules
    BY <1>2, <2>1, <2>2 DEF Looked
  <2> HIDE DEF kind, decl, picked, stale
  <2> QED
    BY <2>3
<1> QED
  BY <1>1, <1>2

\* A session with its changed rows written.
LEMMA WrittenFacts ==
  ASSUME Types, RowsInv, NEW r \in Requests
  PROVE  LET q == Written(r)
         IN /\ IsReq(q) /\ q.pc = req[r].pc /\ q.op = req[r].op /\ q.k = req[r].k
            /\ q.slot = req[r].slot /\ q.base = req[r].base /\ q.plan = req[r].plan
            /\ q.deltas = req[r].deltas /\ q.quiet = req[r].quiet /\ q.failed = req[r].failed
            /\ q.locked = Overlay(req[r].locked, [s \in Dirty(r) |-> Merged(r, s)])
<1> DEFINE new == [s \in Dirty(r) |-> Merged(r, s)]
           l == Overlay(req[r].locked, new)
           q == Written(r)
<1>1. IsTable(new) /\ DOMAIN new = Dirty(r) /\ Dirty(r) \subseteq Plans(r)
  BY MergedSound DEF IsTable
<1>2. IsReq(req[r]) /\ IsTable(req[r].locked) /\ DOMAIN req[r].locked \subseteq Plans(r)
  BY DEF Types, IsReq, Plans
<1>3. q = [req[r] EXCEPT !.locked = l]
  BY DEF Written
<1> HIDE DEF new
<1>4. IsTable(l)
  BY <1>1, <1>2, OverlayTable
<1>5. DOMAIN l \subseteq Plans(r)
  BY <1>1, <1>2 DEF Overlay
<1> HIDE DEF l, q
<1>6. /\ q.pc = req[r].pc /\ q.op = req[r].op /\ q.k = req[r].k
      /\ q.slot = req[r].slot /\ q.base = req[r].base /\ q.plan = req[r].plan
      /\ q.deltas = req[r].deltas /\ q.quiet = req[r].quiet /\ q.failed = req[r].failed
      /\ q.locked = l
  BY <1>2, <1>3 DEF IsReq
<1>7. IsReq(q)
  BY <1>2, <1>3, <1>4, <1>5, <1>6 DEF IsReq, Plans
<1> QED
  BY <1>6, <1>7 DEF q, l, new

LEMMA WriteEffect ==
  ASSUME Types, RowsInv, NEW r \in Requests, Flush(r) \/ Flag(r)
  PROVE  /\ Frame(r) /\ \A q \in Requests \ {r} : req'[q] = req[q]
         /\ req'[r].op = req[r].op /\ req'[r].base = req[r].base /\ req'[r].plan = req[r].plan
         /\ req'[r].slot = req[r].slot /\ req'[r].deltas = req[r].deltas
         /\ req'[r].quiet = req[r].quiet
         /\ req'[r].locked = Overlay(req[r].locked, [s \in Dirty(r) |-> Merged(r, s)])
         /\ \/ req[r].pc = "flush" /\ req'[r].pc \in {"read", "commit"} /\ Past(r)' = Past(r)
            \/ req[r].pc = "flag" /\ req'[r].pc = "audit first"
         /\ req'[r].pc = "commit" => req'[r].k = Len(Kinds)
<1> DEFINE w == Written(r)
           o == Onward(w)
           f == [w EXCEPT !.pc = "audit first"]
           l == Overlay(req[r].locked, [s \in Dirty(r) |-> Merged(r, s)])
<1>1. /\ IsReq(w) /\ w.pc = req[r].pc /\ w.op = req[r].op /\ w.k = req[r].k
      /\ w.slot = req[r].slot /\ w.base = req[r].base /\ w.plan = req[r].plan
      /\ w.deltas = req[r].deltas /\ w.quiet = req[r].quiet /\ w.locked = l
  BY WrittenFacts
<1> HIDE DEF w, l
<1>2. CASE Flush(r)
  <2>1. req' = [req EXCEPT ![r] = o] /\ req[r].pc = "flush"
    BY <1>2 DEF Flush, w
  <2>2. /\ IsReq(o) /\ o.pc \in {"read", "commit"}
        /\ o.op = w.op /\ o.slot = w.slot /\ o.base = w.base
        /\ o.plan = w.plan /\ o.locked = w.locked /\ o.deltas = w.deltas /\ o.quiet = w.quiet
        /\ (IF o.pc = "read" THEN o.k - 1 ELSE o.k) = w.k
        /\ o.pc = "commit" => o.k = Len(Kinds)
    BY <1>1, OnwardFacts
  <2> HIDE DEF o
  <2>3. Frame(r) /\ req'[r] = o /\ \A q \in Requests \ {r} : req'[q] = req[q]
    BY <2>1, <2>2, OwnFrame
  <2>4. Past(r)' = Past(r)
    BY <1>1, <2>1, <2>2, <2>3 DEF Past
  <2> QED
    BY <1>1, <2>1, <2>2, <2>3, <2>4 DEF l
<1>3. CASE Flag(r)
  <2>1. req' = [req EXCEPT ![r] = f] /\ req[r].pc = "flag"
    BY <1>3 DEF Flag, w
  <2>2. /\ f.pc = "audit first" /\ f.op = w.op /\ f.slot = w.slot /\ f.base = w.base
        /\ f.plan = w.plan /\ f.locked = w.locked /\ f.deltas = w.deltas /\ f.quiet = w.quiet
        /\ IsReq(f)
    BY <1>1 DEF IsReq, Pcs, Uploading
  <2> HIDE DEF f
  <2>3. Frame(r) /\ req'[r] = f /\ \A q \in Requests \ {r} : req'[q] = req[q]
    BY <2>1, <2>2, OwnFrame
  <2> QED
    BY <1>1, <2>1, <2>2, <2>3 DEF l
<1> QED
  BY <1>2, <1>3

\* The steps of an upload that write no row.
LEMMA PutEffect ==
  ASSUME Types, NEW r \in Requests, PutBegins(r) \/ PutEnds(r) \/ UploadAudit(r)
  PROVE  /\ Frame(r) /\ rules' \in Requests \cup {Nobody} /\ req[r].pc \in Uploading
         /\ \A q \in Requests \ {r} : req'[q] = req[q]
         /\ \/ Closed(r, "failed")
            \/ \E pc \in {"storing", "flag", "commit last"} : Moved(r, pc)
         /\ req'[r].pc = "flag" => req[r].base[req[r].slot].val \in store'
         /\ req'[r].pc = "commit last" => req[r].pc = "audit first"
         /\ store \subseteq store'
         /\ ~ UploadAudit(r) => req'[r].pc # "commit last"
<1>1. {"storing", "flag", "commit last"} \subseteq Pcs /\ "failed" \in Ended
  BY DEF Pcs, Uploading, Ended
<1>2. CASE PutBegins(r)
  <2>1. CASE Checksum(r) \in store
    <3>1. req' = [req EXCEPT ![r].pc = "flag"] /\ rules' = rules /\ store' = store /\ req[r].pc = "store"
      BY <1>2, <2>1 DEF PutBegins
    <3>2. Frame(r) /\ Moved(r, "flag") /\ \A q \in Requests \ {r} : req'[q] = req[q]
      BY <1>1, <3>1, MoveEffect
    <3> QED
      BY <2>1, <3>1, <3>2 DEF Moved, Checksum, Types, Uploading
  <2>2. CASE Checksum(r) \notin store
    <3>1. /\ store' = store /\ req[r].pc = "store"
          /\ End(r, "failed") \/ (req' = [req EXCEPT ![r].pc = "storing"] /\ rules' = rules)
      BY <1>2, <2>2 DEF PutBegins
    <3>2. CASE End(r, "failed")
      BY <1>1, <3>1, <3>2, EndEffect DEF Closed, Uploading
    <3>3. CASE req' = [req EXCEPT ![r].pc = "storing"] /\ rules' = rules
      <4>1. Frame(r) /\ Moved(r, "storing") /\ \A q \in Requests \ {r} : req'[q] = req[q]
        BY <1>1, <3>3, MoveEffect
      <4> QED
        BY <3>1, <3>3, <4>1 DEF Moved, Types, Uploading
    <3> QED
      BY <3>1, <3>2, <3>3
  <2> QED
    BY <2>1, <2>2
<1>3. CASE PutEnds(r)
  <2>1. CASE Verified(r)
    <3>1. /\ req' = [req EXCEPT ![r].pc = "flag"] /\ rules' = rules /\ req[r].pc = "storing"
          /\ store' = store \cup {req[r].op.val}
      BY <1>3, <2>1 DEF PutEnds
    <3>2. Frame(r) /\ Moved(r, "flag") /\ \A q \in Requests \ {r} : req'[q] = req[q]
      BY <1>1, <3>1, MoveEffect
    <3>3. req[r].base[req[r].slot].val \in store'
      BY <2>1, <3>1 DEF Verified, Checksum
    <3> QED
      BY <3>1, <3>2, <3>3 DEF Moved, Types, Uploading
  <2>2. CASE ~ Verified(r)
    <3>1. End(r, "failed") /\ store' = store /\ req[r].pc = "storing"
      BY <1>3, <2>2 DEF PutEnds
    <3> QED
      BY <1>1, <3>1, EndEffect DEF Closed, Uploading
  <2> QED
    BY <2>1, <2>2
<1>4. CASE UploadAudit(r)
  <2>1. /\ req' = [req EXCEPT ![r].pc = "commit last"] /\ rules' = rules /\ store' = store
        /\ req[r].pc = "audit first"
    BY <1>4 DEF UploadAudit
  <2>2. Frame(r) /\ Moved(r, "commit last") /\ \A q \in Requests \ {r} : req'[q] = req[q]
    BY <1>1, <2>1, MoveEffect
  <2> QED
    BY <1>4, <2>1, <2>2 DEF Moved, Types, Uploading
<1> QED
  BY <1>2, <1>3, <1>4
\* What is left of a session before it begins.
Kept0(r) == req'[r].locked = req[r].locked /\ req'[r].deltas = req[r].deltas /\ req'[r].k = req[r].k

LEMMA BeginEffect ==
  ASSUME Types, NEW r \in Requests, Progress(r), Begin(r)
  PROVE  /\ Frame(r) /\ \A q \in Requests \ {r} : req'[q] = req[q]
         /\ req[r].pc = "idle" /\ req'[r].op \in setting.ops /\ Kept0(r)
         /\ \/ req'[r].pc = "rules" /\ req'[r].op.kind # "upload" /\ SameRows(r)
            \/ req'[r].pc = "open" /\ req'[r].op.kind = "edit" /\ SameRows(r)
            \/ /\ req'[r].pc = "store" /\ req'[r].op.kind = "upload"
               /\ \E s \in Slots : /\ rows[s].live /\ req'[r].slot = s
                                   /\ req'[r].base = [x \in {s} |-> rows[x]]
                                   /\ req'[r].plan = [x \in {s} |-> [rows[x] EXCEPT !.blob = TRUE]]
<1>0. IsReq(req[r]) /\ req[r].pc = "idle"
  BY DEF Types, Begin
<1>1. PICK op \in setting.ops :
       \/ /\ op.kind = "boot"
          /\ req' = [req EXCEPT ![r].op = op, ![r].pc = "rules"]
       \/ /\ op.kind = "reload"
          /\ req' = [req EXCEPT ![r].op = op, ![r].pc = "rules"]
       \/ /\ op.kind = "edit"
          /\ req' = [req EXCEPT ![r].op = op, ![r].pc = "open"]
       \/ /\ op.kind = "upload"
          /\ \E s \in Slots :
               /\ s[1] = op.key /\ rows[s].live
               /\ req' = [req EXCEPT ![r].op = op, ![r].pc = "store", ![r].slot = s,
                                     ![r].base = [x \in {s} |-> rows[x]],
                                     ![r].plan = [x \in {s} |-> [rows[x] EXCEPT !.blob = TRUE]]]
  BY DEF Begin
<1>2. op \in Op
  BY OpFacts
<1>3. ASSUME NEW pc \in {"rules", "open"}, req' = [req EXCEPT ![r].op = op, ![r].pc = pc]
      PROVE  /\ Frame(r) /\ \A q \in Requests \ {r} : req'[q] = req[q]
             /\ req'[r].op = op /\ req'[r].pc = pc /\ SameRows(r) /\ Kept0(r)
  <2> DEFINE new == [req[r] EXCEPT !.op = op, !.pc = pc]
  <2>1. /\ IsReq(new) /\ new.op = op /\ new.pc = pc /\ new.base = req[r].base
        /\ new.plan = req[r].plan /\ new.locked = req[r].locked /\ new.deltas = req[r].deltas
        /\ new.k = req[r].k
    BY <1>0, <1>2 DEF IsReq, Pcs, Editing
  <2>2. req' = [req EXCEPT ![r] = new]
    BY <1>3 DEF Types
  <2> HIDE DEF new
  <2> QED
    BY <2>1, <2>2, OwnFrame DEF SameRows, Kept0
<1>4. CASE op.kind = "boot" \/ op.kind = "reload"
  BY <1>0, <1>1, <1>3, <1>4
<1>5. CASE op.kind = "edit"
  BY <1>0, <1>1, <1>3, <1>5
<1>6. CASE op.kind = "upload"
  <2>1. PICK s \in Slots :
          /\ rows[s].live
          /\ req' = [req EXCEPT ![r].op = op, ![r].pc = "store", ![r].slot = s,
                                ![r].base = [x \in {s} |-> rows[x]],
                                ![r].plan = [x \in {s} |-> [rows[x] EXCEPT !.blob = TRUE]]]
    BY <1>1, <1>6
  <2> DEFINE b == [x \in {s} |-> rows[x]]
             p == [x \in {s} |-> [rows[x] EXCEPT !.blob = TRUE]]
             new == [req[r] EXCEPT !.op = op, !.pc = "store", !.slot = s, !.base = b, !.plan = p]
  <2>2. IsTable(b) /\ IsTable(p) /\ DOMAIN b = {s} /\ DOMAIN p = {s}
    <3>1. rows[s] \in Row /\ [rows[s] EXCEPT !.blob = TRUE] \in Row
      BY DEF Types, Row
    <3> QED
      BY <3>1 DEF IsTable
  <2>3. req' = [req EXCEPT ![r] = new]
    BY <2>1 DEF Types
  <2> HIDE DEF b, p
  <2>4. /\ new.op = op /\ new.pc = "store" /\ new.slot = s /\ new.base = b /\ new.plan = p
        /\ new.locked = req[r].locked /\ new.deltas = req[r].deltas /\ new.k = req[r].k
    BY <1>0 DEF IsReq
  <2>8. new \in [pc : Pcs, op : Op \cup {NoOp}, doc : Content, k : 1..Len(Kinds), slot : {new.slot},
              base : {new.base}, plan : {new.plan}, locked : {new.locked},
              deltas : SUBSET (Slots \X {"loaded", "removed"}), failed : BOOLEAN, quiet : BOOLEAN]
    BY <1>0, <1>2 DEF IsReq, Pcs, Uploading
  <2>5. DOMAIN req[r].locked = {}
    BY <1>0, NoRowsTable DEF Progress, InTransaction
  <2>6. IsReq(new)
    BY <1>0, <2>2, <2>4, <2>8, <2>5 DEF IsReq
  <2> HIDE DEF new
  <2>7. Frame(r) /\ req'[r] = new /\ \A q \in Requests \ {r} : req'[q] = req[q]
    BY <2>3, <2>6, OwnFrame
  <2>9. /\ req'[r].pc = "store" /\ req'[r].op = op /\ req'[r].slot = s
        /\ req'[r].base = b /\ req'[r].plan = p
    BY <2>4, <2>7
  <2>10. Kept0(r)
    BY <2>4, <2>7 DEF Kept0
  <2>11. \E x \in Slots : /\ rows[x].live /\ req'[r].slot = x
                          /\ req'[r].base = [y \in {x} |-> rows[y]]
                          /\ req'[r].plan = [y \in {x} |-> [rows[y] EXCEPT !.blob = TRUE]]
    BY <2>1, <2>9 DEF b, p
  <2> QED
    BY <1>0, <1>6, <2>7, <2>9, <2>10, <2>11
<1> QED
  BY <1>1, <1>4, <1>5, <1>6

\* The row of a package that is live, and the flag to be set.
LEMMA UploadBegins ==
  ASSUME Types, RowsInv, NEW r \in Requests, Progress(r), Begin(r), req'[r].pc = "store"
  PROVE  /\ PlanSound(r)' /\ Progress(r)' /\ Locks(r) = {}
         /\ \A s \in Plans(r)' : rows[s].live /\ req'[r].base[s] = rows[s]
<1>1. PICK s \in Slots : /\ rows[s].live /\ req'[r].slot = s
                         /\ req'[r].base = [x \in {s} |-> rows[x]]
                         /\ req'[r].plan = [x \in {s} |-> [rows[x] EXCEPT !.blob = TRUE]]
  BY BeginEffect
<1>2. /\ req'[r].op.kind = "upload" /\ req'[r].op \in setting.ops /\ Kept0(r)
  BY BeginEffect
<1>3. rows[s] \in Row /\ IsRowOf(s, rows[s])
  BY DEF Types, RowsInv
<1> DEFINE p == [rows[s] EXCEPT !.blob = TRUE]
<1>4. p.val = rows[s].val /\ p.file = rows[s].file /\ p \in Row
  BY <1>3 DEF Row
<1>5. rows[s].val # None
  BY <1>1, <1>3, NoRowFacts DEF IsRowOf
<1>6. Plans(r)' = {s} /\ req'[r].plan[s] = p /\ req'[r].base[s] = rows[s]
  BY <1>1 DEF Plans
<1>7. rows' = rows /\ setting' = setting
  BY DEF Begin
<1> HIDE DEF p
<1>8. IsRowOf(s, p)
  BY <1>3, <1>4, <1>5 DEF IsRowOf
<1>9. PlanSound(r)'
  BY <1>3, <1>4, <1>5, <1>6, <1>7, <1>8 DEF PlanSound, Reloading
<1>10. Progress(r)'
  BY <1>1, <1>2, <1>6, <1>7 DEF Progress, Editing, Reloading, Uploading, InTransaction, Plans, p
<1>11. Locks(r) = {}
  BY BeginEffect, NoRowsTable DEF Progress, InTransaction, Locks
<1> QED
  BY <1>1, <1>6, <1>9, <1>10, <1>11

LEMMA PullEffect ==
  ASSUME Types, Pull
  PROVE  /\ DOMAIN req' = Requests /\ \A q \in Requests : Same(q)
         /\ \A q \in Requests : req[q].pc \in InTransaction => ~ req'[q].quiet
         /\ IsTree(disk') /\ IsTree(head')
<1>1. req' = Disturbed(Nobody) /\ Nobody \notin Requests
  BY ConstantsAssumption DEF Pull
<1>2. ASSUME NEW q \in Requests PROVE Same(q) /\ (req[q].pc \in InTransaction => ~ req'[q].quiet)
  <2>1. IsReq(req[q]) /\ req'[q] = Disturbed(Nobody)[q]
    BY <1>1 DEF Types
  <2> QED
    BY <1>1, <2>1, DisturbedFacts DEF Same, IsReq
<1>3. PICK t \in setting.trees : head' = t /\ disk' = [f \in Files |-> IF t[f] # head[f] THEN t[f] ELSE disk[f]]
  BY DEF Pull
<1>4. IsTree(t) /\ IsTree(disk) /\ IsTree(head)
  BY ConstantsAssumption DEF Types, IsStart
<1>5. IsTree(disk')
  BY <1>3, <1>4 DEF IsTree
<1> QED
  BY <1>1, <1>2, <1>3, <1>4, <1>5, DisturbedFacts
---------------------------------------------------------------------------
(* Every step keeps the shapes and the progress of the sessions.           *)

Acts(r) == Begin(r) \/ Step(r) \/ Crash(r) \/ Undone(r)

LEMMA CommitEffect ==
  ASSUME Types, NEW r \in Requests, Commit(r) \/ UploadCommit(r)
  PROVE  /\ Frame(r) /\ ~ req'[r].failed /\ rules' \in Requests \cup {Nobody}
         /\ rows' = View(r) /\ committed' = committed \cup {r}
         /\ \A q \in Requests \ {r} : req[q].pc \in InTransaction => ~ req'[q].quiet
         /\ \/ req[r].pc = "commit" /\ Commit(r) /\ Closed(r, "audit")
            \/ req[r].pc = "commit last" /\ UploadCommit(r) /\ Closed(r, "done")
<1>1. CASE Commit(r)
  <2>1. "audit" \in Pcs
    BY DEF Pcs
  <2> QED
    BY <1>1, <2>1, CommittedEffect DEF Commit, Released, Types
<1>2. CASE UploadCommit(r)
  <2>1. "done" \in Pcs
    BY DEF Pcs, Ended
  <2> QED
    BY <1>2, <2>1, CommittedEffect DEF UploadCommit, Types
<1> QED
  BY <1>1, <1>2

LEMMA EndsEffect ==
  ASSUME Types, NEW r \in Requests, FlushRaises(r) \/ AuditCommit(r) \/ Crash(r) \/ Undone(r)
  PROVE  /\ Frame(r) /\ rules' \in Requests \cup {Nobody}
         /\ \A q \in Requests \ {r} : req'[q] = req[q]
         /\ req[r].pc \notin Ended \cup {"idle"}
         /\ \/ FlushRaises(r) /\ Closed(r, "failed")
            \/ AuditCommit(r) /\ req[r].pc = "audit" /\ Closed(r, "done")
            \/ AuditCommit(r) /\ req[r].pc = "audit lost" /\ Closed(r, "undone")
            \/ Undone(r) /\ (Closed(r, "undone") \/ Closed(r, "audit lost"))
            \/ Crash(r) /\ Closed(r, "crashed")
<1>1. {"failed", "done", "undone", "crashed"} \subseteq Ended /\ "audit lost" \notin Ended
  BY DEF Ended
<1>2. CASE FlushRaises(r) \/ Crash(r)
  BY <1>1, <1>2, EndEffect DEF FlushRaises, Crash, Ended
<1>3. CASE AuditCommit(r)
  BY <1>1, <1>3, EndEffect DEF AuditCommit, Ended
<1>4. CASE Undone(r)
  <2>1. req[r].pc = "commit" /\ (End(r, "undone") \/ End(r, "audit lost"))
    BY <1>4 DEF Undone
  <2>2. {"undone", "audit lost"} \subseteq Pcs
    BY DEF Pcs, Ended
  <2> QED
    BY <1>1, <1>4, <2>1, <2>2, CloseEffect DEF Ended
<1> QED
  BY <1>2, <1>3, <1>4

LEMMA ActFrame ==
  ASSUME Types, RowsInv, NEW r \in Requests, Progress(r), Acts(r)
  PROVE  Frame(r) /\ rules' \in Requests \cup {Nobody}
<1>1. CASE Begin(r)
  BY <1>1, BeginEffect, ZenonT(60) DEF Begin, Types
<1>2. CASE Open(r)
  BY <1>2, OpenEffect
<1>3. CASE Truncate(r) \/ Write(r)
  BY <1>3, EditEffect DEF Truncate, Write, Types
<1>4. CASE Start(r)
  BY <1>4, StartEffect
<1>5. CASE Read(r)
  <2>1. CASE Refused(r)
    BY <2>1, RefusedEffect
  <2>2. CASE ~ Refused(r)
    BY <1>5, <2>2, ReadEffect, LoadSession DEF Types
  <2> QED
    BY <2>1, <2>2
<1>6. CASE Flush(r) \/ Flag(r)
  BY <1>6, WriteEffect DEF Flush, Flag, Types
<1>7. CASE FlushRaises(r) \/ AuditCommit(r) \/ Crash(r) \/ Undone(r)
  BY <1>7, EndsEffect
<1>8. CASE Commit(r) \/ UploadCommit(r)
  BY <1>8, CommitEffect
<1>9. CASE PutBegins(r) \/ PutEnds(r) \/ UploadAudit(r)
  BY <1>9, PutEffect
<1> QED
  BY <1>1, <1>2, <1>3, <1>4, <1>5, <1>6, <1>7, <1>8, <1>9 DEF Acts, Step

LEMMA FramedTypes ==
  ASSUME Types, NEW r \in Requests, Frame(r)
  PROVE  DOMAIN req' = Requests /\ \A q \in Requests : IsReq(req'[q])
  BY SameFacts DEF Frame, Types

LEMMA SpendTypes ==
  ASSUME Types, NEW what \in Kept, Spend(what), setting' = setting
  PROVE  /\ spent' \in [Kept -> Nat]
         /\ \A w \in Kept : spent'[w] \in 0..setting'.bound[w]
<1>1. setting.bound \in [Kept -> Nat]
  BY ConstantsAssumption DEF Types, IsStart
<1> QED
  BY <1>1 DEF Types, Spend

LEMMA TypesStep ==
  ASSUME Types, RowsInv, \A q \in Requests : Progress(q), Next
  PROVE  Types'
<1>1. CASE Pull
  <2>1. /\ DOMAIN req' = Requests /\ \A q \in Requests : IsReq(req'[q])
        /\ IsTree(disk') /\ IsTree(head')
    BY <1>1, PullEffect, SameFacts DEF Types
  <2>2. Spend("pulls") /\ UNCHANGED <<rows, store, rules, audits, committed, setting>>
    BY <1>1 DEF Pull
  <2>3. spent' \in [Kept -> Nat] /\ \A w \in Kept : spent'[w] \in 0..setting'.bound[w]
    BY <2>2, SpendTypes DEF Kept
  <2> QED
    BY <2>1, <2>2, <2>3 DEF Types
<1>2. ASSUME NEW r \in Requests, Acts(r) PROVE Types'
  <2>1. /\ DOMAIN req' = Requests /\ \A q \in Requests : IsReq(req'[q])
        /\ rules' \in Requests \cup {Nobody}
    BY <1>2, ActFrame, FramedTypes
  <2>2. setting' = setting /\ head' = head
    BY <1>2 DEF Acts, Step, Begin, Crash, Undone, Open, Truncate, Write, Start, Read, Flush, FlushRaises,
                Commit, AuditCommit, PutBegins, PutEnds, Flag, UploadAudit, UploadCommit
  <2>3. spent' \in [Kept -> Nat] /\ \A w \in Kept : spent'[w] \in 0..setting'.bound[w]
    <3>1. spent' = spent \/ Spend("requests") \/ Spend("faults")
      BY <1>2 DEF Acts, Step, Begin, Crash, Undone, Open, Truncate, Write, Start, Read, Flush, FlushRaises,
                  Commit, AuditCommit, PutBegins, PutEnds, Flag, UploadAudit, UploadCommit
    <3> QED
      BY <2>2, <3>1, SpendTypes DEF Kept, Types
  <2>4. IsTree(disk')
    <3>1. CASE Truncate(r) \/ Write(r)
      BY <3>1, EditEffect
    <3>2. CASE ~ (Truncate(r) \/ Write(r))
      <4>1. disk' = disk
        BY <1>2, <3>2 DEF Acts, Step, Begin, Crash, Undone, Open, Start, Read, Flush, FlushRaises,
                    Commit, AuditCommit, PutBegins, PutEnds, Flag, UploadAudit, UploadCommit
      <4> QED
        BY <4>1 DEF Types
    <3> QED
      BY <3>1, <3>2
  <2>5. rows' \in [Slots -> Row]
    <3>1. rows' = rows \/ rows' = View(r)
      BY <1>2 DEF Acts, Step, Begin, Crash, Undone, Open, Truncate, Write, Start, Read, Flush, FlushRaises,
                  Commit, AuditCommit, PutBegins, PutEnds, Flag, UploadAudit, UploadCommit
    <3> QED
      BY <3>1, ViewType DEF Types
  <2>6. store' \subseteq Vals
    <3>1. CASE PutEnds(r)
      <4>1. req[r].op \in setting.ops /\ req[r].op.kind = "upload"
        BY <3>1 DEF PutEnds, Progress, Uploading
      <4>2. req[r].op.val \in Vals
        BY <4>1, OpFacts
      <4> QED
        BY <3>1, <4>2 DEF PutEnds, Types
    <3>2. CASE ~ PutEnds(r)
      <4>1. store' = store
        BY <1>2, <3>2 DEF Acts, Step, Begin, Crash, Undone, Open, Truncate, Write, Start, Read, Flush,
                    FlushRaises, Commit, AuditCommit, PutBegins, Flag, UploadAudit, UploadCommit
      <4> QED
        BY <4>1 DEF Types
    <3> QED
      BY <3>1, <3>2
  <2>7. audits' \subseteq Requests \X {"reloaded", "reload_failed", "blob_stored"}
    <3>1. \/ audits' = audits
          \/ \E a \in {"reloaded", "reload_failed", "blob_stored"} : audits' = audits \cup {<<r, a>>}
      BY <1>2 DEF Acts, Step, Begin, Crash, Undone, Open, Truncate, Write, Start, Read, Flush, FlushRaises,
                  Commit, AuditCommit, PutBegins, PutEnds, Flag, UploadAudit, UploadCommit
    <3> QED
      BY <3>1 DEF Types
  <2>8. committed' \subseteq Requests
    <3>1. committed' = committed \/ committed' = committed \cup {r}
      BY <1>2 DEF Acts, Step, Begin, Crash, Undone, Open, Truncate, Write, Start, Read, Flush, FlushRaises,
                  Commit, AuditCommit, PutBegins, PutEnds, Flag, UploadAudit, UploadCommit
    <3> QED
      BY <3>1 DEF Types
  <2> QED
    BY <2>1, <2>2, <2>3, <2>4, <2>5, <2>6, <2>7, <2>8 DEF Types
<1> QED
  BY <1>1, <1>2 DEF Next, Acts
---------------------------------------------------------------------------
(* Progress of every session.                                              *)

LEMMA ProgressKept ==
  ASSUME Types, NEW q \in Requests, Progress(q), Same(q), store \subseteq store', setting' = setting
  PROVE  Progress(q)'
<1>1. /\ req'[q].pc = req[q].pc /\ req'[q].op = req[q].op /\ req'[q].k = req[q].k
      /\ req'[q].doc = req[q].doc /\ req'[q].slot = req[q].slot
      /\ req'[q].deltas = req[q].deltas /\ SameRows(q)
  BY SameFacts DEF Types
<1> QED
  BY <1>1 DEF Progress, SameRows

LEMMA ProgressClosed ==
  ASSUME NEW r \in Requests, Progress(r), setting' = setting, req[r].pc # "idle",
         NEW pc \in Ended \cup {"audit", "audit lost"}, Closed(r, pc),
         pc = "audit" => req[r].op.kind # "upload"
  PROVE  Progress(r)'
  BY DEF Progress, Closed, Cleared, Ended, Editing, Reloading, Uploading, InTransaction

\* Where a session goes on.
Follows(from, to) ==
  \/ from = "open" /\ to = "truncate"
  \/ from = "truncate" /\ to = "write"
  \/ from = "write" /\ to \in {"rules", "done"}
  \/ from = "rules" /\ to = "read"
  \/ from = "store" /\ to \in {"storing", "flag"}
  \/ from = "storing" /\ to = "flag"
  \/ from = "audit first" /\ to = "commit last"

LEMMA ProgressMoved ==
  ASSUME NEW r \in Requests, Progress(r), setting' = setting, store \subseteq store',
         NEW pc, Moved(r, pc), Follows(req[r].pc, pc),
         pc = "flag" => req[r].base[req[r].slot].val \in store',
         pc \in {"truncate", "write"} =>
           /\ req'[r].doc.state # "absent"
           /\ \A e \in req'[r].doc.entries : KindOf(e.key) = KindOf(req[r].op.key)
  PROVE  Progress(r)'
<1>1. /\ req'[r].pc = pc /\ req'[r].op = req[r].op /\ req'[r].k = req[r].k
      /\ req'[r].slot = req[r].slot /\ req'[r].deltas = req[r].deltas
      /\ req'[r].base = req[r].base /\ req'[r].plan = req[r].plan /\ req'[r].locked = req[r].locked
  BY DEF Moved, SameRows
<1>2. CASE req[r].pc \in Editing
  BY <1>1, <1>2 DEF Follows, Progress, Editing, Reloading, Uploading, InTransaction
<1>3. CASE req[r].pc = "rules"
  BY <1>1, <1>3 DEF Follows, Progress, Editing, Reloading, Uploading, InTransaction
<1>4. CASE req[r].pc \in Uploading
  BY <1>1, <1>4, ZenonT(60) DEF Follows, Progress, Editing, Reloading, Uploading, InTransaction
<1> QED
  BY <1>2, <1>3, <1>4 DEF Follows, Editing, Uploading

\* A reload's step from one kind to the next.
LEMMA ProgressReloading ==
  ASSUME NEW r \in Requests, Progress(r), setting' = setting,
         req[r].pc \in Reloading, req'[r].pc \in Reloading, req'[r].op = req[r].op,
         req'[r].pc = "commit" => req'[r].k = Len(Kinds)
  PROVE  Progress(r)'
  BY DEF Progress, Editing, Reloading, Uploading, InTransaction

LEMMA ProgressOwn ==
  ASSUME Types, RowsInv, NEW r \in Requests, Progress(r), Acts(r),
         setting' = setting, store \subseteq store'
  PROVE  Progress(r)'
<1>1. CASE Begin(r)
  <2>1. CASE req'[r].pc = "store"
    BY <1>1, <2>1, UploadBegins
  <2>2. CASE req'[r].pc # "store"
    <3>1. /\ req[r].pc = "idle" /\ req'[r].op \in setting.ops /\ Kept0(r) /\ SameRows(r)
          /\ \/ req'[r].pc = "rules" /\ req'[r].op.kind # "upload"
             \/ req'[r].pc = "open" /\ req'[r].op.kind = "edit"
      BY <1>1, <2>2, BeginEffect
    <3>2. /\ req'[r].base = NoRows /\ req'[r].plan = NoRows /\ req'[r].locked = NoRows
          /\ req'[r].deltas = {} /\ req'[r].k = 1
      BY <3>1 DEF Progress, InTransaction, Kept0, SameRows
    <3> QED
      BY <3>1, <3>2 DEF Progress, Editing, Reloading, Uploading, InTransaction
  <2> QED
    BY <2>1, <2>2
<1>2. CASE Open(r)
  <2>1. req[r].pc = "open"
    BY <1>2 DEF Open
  <2>2. CASE Closed(r, "failed")
    BY <2>1, <2>2, ProgressClosed DEF Ended
  <2>3. CASE ~ Closed(r, "failed")
    BY <1>2, <2>1, <2>3, OpenEffect, ProgressMoved DEF Follows
  <2> QED
    BY <2>2, <2>3
<1>3. CASE Truncate(r)
  <2>1. req[r].pc = "truncate" /\ req'[r].pc = "write"
    <3>1. req' = [Disturbed(r) EXCEPT ![r].pc = "write"] /\ req[r].pc = "truncate"
      BY <1>3 DEF Truncate
    <3>2. Disturbed(r)[r] = req[r] /\ DOMAIN Disturbed(r) = Requests /\ IsReq(req[r])
      BY DisturbedFacts DEF Types
    <3> QED
      BY <3>1, <3>2 DEF IsReq
  <2>2. req'[r].doc = req[r].doc /\ \E pc \in {"write", "rules", "done"} : Moved(r, pc)
    BY <1>3, <2>1, EditEffect
  <2>3. Moved(r, "write")
    BY <2>1, <2>2 DEF Moved
  <2>4. /\ req'[r].doc.state # "absent"
        /\ \A e \in req'[r].doc.entries : KindOf(e.key) = KindOf(req[r].op.key)
    BY <2>1, <2>2 DEF Progress
  <2> QED
    BY <2>1, <2>3, <2>4, ProgressMoved DEF Follows
<1>4. CASE Write(r)
  <2>1. req[r].pc = "write"
    BY <1>4 DEF Write
  <2>2. PICK pc \in {"write", "rules", "done"} : Moved(r, pc)
    BY <1>4, EditEffect
  <2>3. pc # "write"
    BY <1>4, <2>1, <2>2, EditEffect DEF Moved
  <2> QED
    BY <2>1, <2>2, <2>3, ProgressMoved DEF Follows
<1>5. CASE Start(r)
  <2>1. req[r].pc = "rules" /\ req[r].op.kind # "upload"
    BY <1>5 DEF Start, Progress
  <2>2. CASE Refused(r)
    BY <2>1, <2>2, RefusedEffect, ProgressClosed DEF Ended
  <2>3. CASE ~ Refused(r)
    BY <1>5, <2>1, <2>3, StartEffect, ProgressMoved DEF Follows
  <2> QED
    BY <2>2, <2>3
<1>6. CASE Read(r)
  <2>1. req[r].pc = "read" /\ req[r].op.kind # "upload"
    BY <1>6 DEF Read, Progress, Reloading
  <2>2. CASE Refused(r)
    BY <2>1, <2>2, RefusedEffect, ProgressClosed DEF Ended
  <2>3. CASE ~ Refused(r)
    <3>1. /\ req'[r].pc \in Reloading /\ req'[r].op = req[r].op
          /\ req'[r].pc = "commit" => req'[r].k = Len(Kinds)
      BY <1>6, <2>3, ReadEffect, LoadSession
    <3> QED
      BY <2>1, <3>1, ProgressReloading DEF Reloading
  <2> QED
    BY <2>2, <2>3
<1>7. CASE Flush(r)
  BY <1>7, WriteEffect, ProgressReloading DEF Flush, Reloading
<1>8. CASE Flag(r)
  <2>1. req[r].pc = "flag"
    BY <1>8 DEF Flag
  <2>2. /\ req'[r].op = req[r].op /\ req'[r].base = req[r].base /\ req'[r].plan = req[r].plan
        /\ req'[r].slot = req[r].slot /\ req'[r].pc = "audit first"
    BY <1>8, <2>1, WriteEffect
  <2> QED
    BY <2>1, <2>2 DEF Progress, Editing, Reloading, Uploading, InTransaction
<1>9. CASE FlushRaises(r) \/ AuditCommit(r) \/ Crash(r) \/ Undone(r)
  BY <1>9, EndsEffect, ProgressClosed DEF Ended
<1>10. CASE Commit(r) \/ UploadCommit(r)
  <2>1. req[r].pc = "commit" => req[r].op.kind # "upload"
    BY DEF Progress, Reloading
  <2> QED
    BY <1>10, <2>1, CommitEffect, ProgressClosed DEF Ended
<1>11. CASE PutBegins(r) \/ PutEnds(r) \/ UploadAudit(r)
  <2>1. /\ Closed(r, "failed") \/ \E pc \in {"storing", "flag", "commit last"} : Moved(r, pc)
        /\ req[r].pc \in Uploading
        /\ req'[r].pc = "flag" => req[r].base[req[r].slot].val \in store'
    BY <1>11, PutEffect
  <2>2. CASE Closed(r, "failed")
    BY <2>1, <2>2, ProgressClosed DEF Ended, Uploading
  <2>3. CASE ~ Closed(r, "failed")
    <3>1. PICK pc \in {"storing", "flag", "commit last"} : Moved(r, pc)
      BY <2>1, <2>3
    <3>2. Follows(req[r].pc, pc)
      <4>1. req'[r].pc = pc
        BY <3>1 DEF Moved
      <4>2. pc = "commit last" => req[r].pc = "audit first"
        BY <1>11, <4>1, PutEffect
      <4>3. pc = "storing" => req[r].pc = "store"
        <5>1. CASE PutBegins(r)
          BY <5>1 DEF PutBegins
        <5>2. CASE PutEnds(r)
          <6>1. Verified(r) => req' = [req EXCEPT ![r].pc = "flag"]
            BY <5>2 DEF PutEnds
          <6>2. ~ Verified(r) => End(r, "failed")
            BY <5>2 DEF PutEnds
          <6> QED
            BY <2>3, <4>1, <6>1, <6>2, EndEffect DEF Ended, Types, IsReq
        <5>3. CASE UploadAudit(r)
          BY <4>1, <5>3 DEF UploadAudit, Types, IsReq
        <5> QED
          BY <1>11, <5>1, <5>2, <5>3
      <4>4. pc = "flag" => req[r].pc \in {"store", "storing"}
        <5>1. CASE UploadAudit(r)
          BY <4>1, <5>1 DEF UploadAudit, Types, IsReq
        <5> QED
          BY <1>11, <5>1 DEF PutBegins, PutEnds
      <4> QED
        BY <4>2, <4>3, <4>4 DEF Follows
    <3>3. pc = "flag" => req[r].base[req[r].slot].val \in store'
      BY <2>1, <3>1 DEF Moved
    <3> QED
      BY <3>1, <3>2, <3>3, ProgressMoved
  <2> QED
    BY <2>2, <2>3
<1> QED
  BY <1>1, <1>2, <1>3, <1>4, <1>5, <1>6, <1>7, <1>8, <1>9, <1>10, <1>11 DEF Acts, Step

LEMMA NextFrame ==
  ASSUME Types, NEW r \in Requests, Acts(r) \/ Pull
  PROVE  setting' = setting /\ store \subseteq store'
  BY DEF Acts, Step, Begin, Crash, Undone, Open, Truncate, Write, Start, Read, Flush, FlushRaises,
         Commit, AuditCommit, PutBegins, PutEnds, Flag, UploadAudit, UploadCommit, Pull

LEMMA ProgressStep ==
  ASSUME Types, RowsInv, \A q \in Requests : Progress(q), Next, NEW q \in Requests
  PROVE  Progress(q)'
<1>1. CASE Pull
  BY <1>1, PullEffect, NextFrame, ProgressKept
<1>2. ASSUME NEW r \in Requests, Acts(r) PROVE Progress(q)'
  <2>1. setting' = setting /\ store \subseteq store' /\ Frame(r)
    BY <1>2, NextFrame, ActFrame
  <2>2. CASE q = r
    BY <1>2, <2>1, <2>2, ProgressOwn
  <2>3. CASE q # r
    BY <2>1, <2>3, ProgressKept DEF Frame
  <2> QED
    BY <2>2, <2>3
<1> QED
  BY <1>1, <1>2 DEF Next, Acts
---------------------------------------------------------------------------
(* The rows.                                                               *)

LEMMA NothingPlanned ==
  ASSUME NEW r \in Requests, Progress(r), req[r].pc \notin InTransaction
  PROVE  /\ req[r].base = NoRows /\ req[r].plan = NoRows /\ req[r].locked = NoRows
         /\ Plans(r) = {} /\ Locks(r) = {}
  BY NoRowsTable DEF Progress, Plans, Locks

\* An action writes rows, plans some, ends the session, or leaves what it holds.
LEMMA RowsAct ==
  ASSUME Types, RowsInv, NEW r \in Requests, Progress(r), Acts(r), Frame(r)
  PROVE  RowsInv'
<1>1. \A q \in Requests \ {r} : Undisturbed(q)
  BY SameUndisturbed DEF Types, Frame
<1>2. ASSUME rows' = rows, Undisturbed(r) \/ Cleared(r) PROVE RowsInv'
  BY <1>1, <1>2, RowsKeep
<1>3. ASSUME rows' = rows, NEW pc, Closed(r, pc) PROVE RowsInv'
  BY <1>2, <1>3 DEF Closed
<1>4. ASSUME rows' = rows, req[r].pc \notin InTransaction, SameRows(r) PROVE RowsInv'
  BY <1>2, <1>4, NothingPlanned DEF SameRows, Cleared
<1>5. CASE Begin(r)
  <2>1. CASE req'[r].pc = "store"
    <3>1. rows' = rows /\ req'[r].locked = req[r].locked
      BY <1>5, BeginEffect DEF Begin, Kept0
    <3> QED
      BY <1>1, <1>5, <2>1, <3>1, UploadBegins, RowsPlan
  <2>2. CASE req'[r].pc # "store"
    <3>1. req[r].pc \notin InTransaction /\ SameRows(r)
      BY <1>5, <2>2, BeginEffect DEF InTransaction
    <3> QED
      BY <1>4, <1>5, <3>1 DEF Begin
  <2> QED
    BY <2>1, <2>2
<1>6. CASE Open(r)
  <2>1. req[r].pc \notin InTransaction /\ rows' = rows
    BY <1>6 DEF Open, InTransaction
  <2> QED
    BY <1>3, <1>4, <1>6, <2>1, OpenEffect DEF Moved
<1>7. CASE Truncate(r) \/ Write(r)
  <2>1. req[r].pc \notin InTransaction /\ rows' = rows
    BY <1>7 DEF Truncate, Write, InTransaction
  <2> QED
    BY <1>4, <1>7, <2>1, EditEffect DEF Moved
<1>8. CASE Start(r)
  <2>1. req[r].pc \notin InTransaction /\ rows' = rows
    BY <1>8 DEF Start, InTransaction
  <2> QED
    BY <1>3, <1>4, <1>8, <2>1, StartEffect, RefusedEffect DEF Moved
<1>9. CASE Read(r)
  <2>1. rows' = rows
    BY <1>9 DEF Read
  <2>2. CASE Refused(r)
    BY <1>3, <2>1, <2>2, RefusedEffect
  <2>3. CASE ~ Refused(r)
    BY <1>9, <2>1, <2>3, ReadEffect, LoadRows
  <2> QED
    BY <2>2, <2>3
<1>10. CASE Flush(r) \/ Flag(r)
  <2>1. /\ rows' = rows /\ Blockers(r) = {} /\ req[r].pc \in {"flush", "flag"}
        /\ req[r].pc = "flush" => ~ Duplicates(r)
    BY <1>10 DEF Flush, Flag
  <2>2. /\ req'[r].base = req[r].base /\ req'[r].plan = req[r].plan
        /\ req'[r].locked = Overlay(req[r].locked, [s \in Dirty(r) |-> Merged(r, s)])
    BY <1>10, WriteEffect
  <2>3. /\ req'[r].pc \in Reloading => req[r].pc = "flush" /\ Past(r) \subseteq Past(r)'
        /\ req'[r].pc \in Uploading => req[r].pc = "flag"
    BY <1>10, WriteEffect DEF Reloading, Uploading
  <2> QED
    BY <1>1, <2>1, <2>2, <2>3, RowsWrite
<1>11. CASE FlushRaises(r) \/ AuditCommit(r) \/ Crash(r) \/ Undone(r)
  <2>1. rows' = rows
    BY <1>11 DEF FlushRaises, AuditCommit, Crash, Undone
  <2> QED
    BY <1>3, <1>11, <2>1, EndsEffect
<1>12. CASE Commit(r) \/ UploadCommit(r)
  <2>1. rows' = View(r) /\ Cleared(r)
    BY <1>12, CommitEffect DEF Closed
  <2> QED
    BY <1>1, <2>1, RowsCommitted
<1>13. CASE PutBegins(r) \/ PutEnds(r) \/ UploadAudit(r)
  <2>1. rows' = rows
    BY <1>13 DEF PutBegins, PutEnds, UploadAudit
  <2>2. CASE Closed(r, "failed")
    BY <1>3, <2>1, <2>2
  <2>3. CASE ~ Closed(r, "failed")
    <3>1. PICK pc \in {"storing", "flag", "commit last"} : Moved(r, pc)
      BY <1>13, <2>3, PutEffect
    <3>2. /\ req'[r].pc = pc /\ SameRows(r) /\ req[r].pc \in Uploading
          /\ pc = "commit last" => req[r].pc = "audit first"
      BY <1>13, <3>1, PutEffect DEF Moved
    <3>3. Undisturbed(r)
      BY <3>2 DEF Undisturbed, Reloading, Settled
    <3> QED
      BY <1>2, <2>1, <3>3
  <2> QED
    BY <2>2, <2>3
<1> QED
  BY <1>5, <1>6, <1>7, <1>8, <1>9, <1>10, <1>11, <1>12, <1>13 DEF Acts, Step

LEMMA RowsStep ==
  ASSUME Types, RowsInv, \A q \in Requests : Progress(q), Next
  PROVE  RowsInv'
<1>1. CASE Pull
  <2>1. rows' = rows /\ \A q \in Requests : Undisturbed(q)
    BY <1>1, PullEffect, SameUndisturbed DEF Pull, Types
  <2> QED
    BY <2>1, RowsKeep
<1>2. ASSUME NEW r \in Requests, Acts(r) PROVE RowsInv'
  BY <1>2, ActFrame, RowsAct
<1> QED
  BY <1>1, <1>2 DEF Next, Acts
---------------------------------------------------------------------------
(* Commits, audits and what fails a boot.                                  *)

\* A flush finds its key taken only when a reload has committed: a key that the tables
\* started with had one row, and this session took it.
LEMMA DuplicateBlames ==
  ASSUME Types, RowsInv, Unloaded, NEW r \in Requests, Duplicates(r)
  PROVE  ~ NoReload
<1> SUFFICES ASSUME NoReload PROVE FALSE
  OBVIOUS
<1>1. PICK s \in Dirty(r) : \E t \in Slots \ {s} : t[1] = s[1] /\ View(r)[t].live
  BY DEF Duplicates
<1>2. PICK t \in Slots \ {s} : t[1] = s[1] /\ View(r)[t].live
  BY <1>1
<1>3. s \in Plans(r) /\ s \in Slots
  BY MergedSound
<1>4. t \notin Plans(r)
  BY <1>2, <1>3 DEF RowsInv, PlanSound
<1>5. rows[t].live
  BY <1>2, <1>4, ViewType
<1>6. setting.rows[t].val # None
  <2>1. rows[t].val # None
    BY <1>2, <1>5, NoRowFacts DEF RowsInv, IsRowOf
  <2> QED
    BY <1>2, <2>1 DEF Unloaded
<1>7. setting.rows[s].val # None
  BY <1>2, <1>3, <1>6 DEF Unloaded
<1>8. \A x, y \in Slots : (setting.rows[x].val # None /\ setting.rows[y].val # None /\ x[1] = y[1]) => x = y
  BY ConstantsAssumption DEF Types, IsStart
<1> QED
  BY <1>2, <1>3, <1>6, <1>7, <1>8

LEMMA OpsKept ==
  ASSUME Types, RowsInv, NEW r \in Requests, Progress(r), Acts(r), AuditInv, NEW q \in committed
  PROVE  q \in Requests /\ req'[q].op = req[q].op /\ (Begin(r) => q # r)
<1>1. q \in Requests /\ req[q].pc \in Ended \cup {"audit"}
  BY DEF Types, AuditInv, AuditOf
<1>2. Frame(r)
  BY ActFrame
<1>3. CASE q # r
  BY <1>1, <1>2, <1>3, SameFacts DEF Frame, Types
<1>4. CASE q = r
  <2>1. AuditCommit(r) \/ Crash(r)
    BY <1>1, <1>4 DEF Acts, Step, Begin, Undone, Open, Truncate, Write, Start, Read, Flush, FlushRaises,
         Commit, PutBegins, PutEnds, Flag, UploadAudit, UploadCommit, Ended
  <2> QED
    BY <1>1, <1>4, <2>1, EndsEffect DEF Closed, Begin, AuditCommit, Crash, Ended
<1> QED
  BY <1>3, <1>4

\* What an action adds to the plans: the rows of look-ups, which are the rows of their
\* keys if these have any.
LEMMA PlansAct ==
  ASSUME Types, RowsInv, Unloaded, NoReload, NEW r \in Requests, Progress(r), Acts(r),
         NEW s \in Plans(r)', s \notin Plans(r), NEW t \in Slots, s[1] = t[1],
         setting.rows[t].val # None
  PROVE  setting.rows[s].val # None
<1>1. CASE Begin(r)
  <2>1. req'[r].pc = "store"
    BY <1>1, BeginEffect DEF SameRows, Plans
  <2>2. s \in Slots /\ rows[s].live
    <3>1. PICK x \in Slots : rows[x].live /\ req'[r].plan = [y \in {x} |-> [rows[y] EXCEPT !.blob = TRUE]]
      BY <1>1, <2>1, BeginEffect
    <3> QED
      BY <3>1 DEF Plans
  <2>3. rows[s].val # None
    BY <2>2, NoRowFacts DEF RowsInv, IsRowOf
  <2> QED
    BY <2>2, <2>3 DEF Unloaded
<1>2. CASE Read(r)
  <2>1. ~ Refused(r)
    BY RefusedEffect, NoRowsTable DEF Closed, Cleared, Plans
  <2>2. PICK kind, decl, copy, picked, stale :
          Looked(r, kind, decl, copy, picked, stale) /\ Loads(r, decl, picked, stale)
    BY <1>2, <2>1, ReadEffect
  <2>3. s \in picked \cup stale
    BY <2>2, LoadSession
  <2>4. /\ s \in Slots /\ KindOf(s[1]) = kind
        /\ s \in stale => rows[s].live
        /\ s \in picked => s[1] \in {d.key : d \in decl} /\ s[2] = copy[s[1]]
    BY <2>2, <2>3, PlannedFacts
  <2>5. CASE s \in stale
    <3>1. rows[s].val # None
      BY <2>4, <2>5, NoRowFacts DEF RowsInv, IsRowOf
    <3> QED
      BY <2>4, <3>1 DEF Unloaded
  <2>6. CASE s \in picked
    <3>1. s[2] \in Lookup(r, s[1])
      BY <2>2, <2>4, <2>6 DEF Looked
    <3>2. \A c \in Copies : <<s[1], c>> \in Slots /\ View(r)[<<s[1], c>>] = rows[<<s[1], c>>]
      <4> TAKE c \in Copies
      <4>1. <<s[1], c>> \in Slots /\ <<s[1], c>>[1] = s[1]
        BY <2>4 DEF Slots
      <4>2. KindOf(<<s[1], c>>[1]) = Kinds[req[r].k] /\ req[r].pc = "read"
        BY <2>2, <2>4, <4>1 DEF Looked
      <4> QED
        BY <2>2, <4>1, <4>2, UnplannedFacts
    <3>3. t = <<s[1], t[2]>> /\ t[2] \in Copies /\ s = <<s[1], s[2]>>
      BY <2>4 DEF Slots
    <3>4. rows[t].val # None
      BY DEF Unloaded
    <3>5. t[2] \in {c \in Copies : View(r)[<<s[1], c>>].val # None}
      BY <3>2, <3>3, <3>4
    <3>6. s[2] \in {c \in Copies : View(r)[<<s[1], c>>].val # None}
      BY <3>1, <3>5 DEF Lookup
    <3>7. rows[s].val # None
      BY <3>2, <3>3, <3>6
    <3> QED
      BY <2>4, <3>7 DEF Unloaded
  <2> QED
    BY <2>3, <2>5, <2>6
<1>3. CASE ~ (Begin(r) \/ Read(r))
  <2>1. Plans(r)' \subseteq Plans(r)
    <3>1. ASSUME Cleared(r) PROVE Plans(r)' = {}
      BY <3>1, NoRowsTable DEF Cleared, Plans
    <3>2. ASSUME SameRows(r) PROVE Plans(r)' = Plans(r)
      BY <3>2 DEF SameRows, Plans
    <3>3. CASE Open(r)
      BY <3>1, <3>2, <3>3, OpenEffect DEF Closed, Moved
    <3>4. CASE Truncate(r) \/ Write(r)
      BY <3>2, <3>4, EditEffect DEF Moved
    <3>5. CASE Start(r)
      BY <3>1, <3>2, <3>5, StartEffect, RefusedEffect DEF Closed, Moved
    <3>6. CASE Flush(r) \/ Flag(r)
      BY <3>6, WriteEffect DEF Plans
    <3>7. CASE FlushRaises(r) \/ AuditCommit(r) \/ Crash(r) \/ Undone(r)
      BY <3>1, <3>7, EndsEffect DEF Closed
    <3>8. CASE Commit(r) \/ UploadCommit(r)
      BY <3>1, <3>8, CommitEffect DEF Closed
    <3>9. CASE PutBegins(r) \/ PutEnds(r) \/ UploadAudit(r)
      BY <3>1, <3>2, <3>9, PutEffect DEF Closed, Moved
    <3> QED
      BY <1>3, <3>3, <3>4, <3>5, <3>6, <3>7, <3>8, <3>9 DEF Acts, Step
  <2> QED
    BY <2>1
<1> QED
  BY <1>1, <1>2, <1>3

LEMMA UnloadedAct ==
  ASSUME Types, RowsInv, AuditInv, NEW r \in Requests, Progress(r), Acts(r)
  PROVE  Unloaded'
<1> SUFFICES ASSUME NoReload'
             PROVE  /\ \A s \in Slots : /\ rows'[s].val = setting.rows[s].val
                                        /\ rows'[s].live = setting.rows[s].live
                    /\ \A q \in Requests : \A s \in Plans(q)', t \in Slots :
                         (s[1] = t[1] /\ setting.rows[t].val # None) => setting.rows[s].val # None
  BY NextFrame DEF Unloaded
<1>1. committed \subseteq committed' /\ Frame(r)
  BY ActFrame DEF Acts, Step, Begin, Crash, Undone, Open, Truncate, Write, Start, Read, Flush, FlushRaises,
         Commit, AuditCommit, PutBegins, PutEnds, Flag, UploadAudit, UploadCommit
<1>2. NoReload
  BY <1>1, OpsKept DEF NoReload
<1>3. /\ \A s \in Slots : rows[s].val = setting.rows[s].val /\ rows[s].live = setting.rows[s].live
      /\ \A q \in Requests : \A s \in Plans(q), t \in Slots :
           (s[1] = t[1] /\ setting.rows[t].val # None) => setting.rows[s].val # None
  BY <1>2 DEF AuditInv, Unloaded
<1>4. ~ Commit(r)
  <2> SUFFICES ASSUME Commit(r) PROVE FALSE
    OBVIOUS
  <2>1. r \in committed' /\ req'[r].op = req[r].op /\ req[r].op.kind # "upload"
    <3>1. req[r].pc = "commit" /\ committed' = committed \cup {r}
      BY DEF Commit
    <3> QED
      BY <3>1, CommitEffect DEF Closed, Progress, Reloading
  <2> QED
    BY <2>1 DEF NoReload
<1>5. \A s \in Slots : rows'[s].val = rows[s].val /\ rows'[s].live = rows[s].live
  <2>1. CASE UploadCommit(r)
    <3>1. rows' = View(r) /\ req[r].pc \in Uploading
      BY <2>1 DEF UploadCommit, Uploading
    <3>2. \A s \in Locks(r) : req[r].locked[s].val = rows[s].val /\ req[r].locked[s].live = rows[s].live
      BY <3>1 DEF RowsInv, WrittenSound
    <3> QED
      BY <3>1, <3>2, ViewType
  <2>2. CASE ~ UploadCommit(r)
    <3>1. rows' = rows
      BY <1>4, <2>2 DEF Acts, Step, Begin, Crash, Undone, Open, Truncate, Write, Start, Read, Flush,
           FlushRaises, AuditCommit, PutBegins, PutEnds, Flag, UploadAudit
    <3> QED
      BY <3>1
  <2> QED
    BY <2>1, <2>2
<1>6. ASSUME NEW q \in Requests, NEW s \in Plans(q)', NEW t \in Slots, s[1] = t[1],
             setting.rows[t].val # None
      PROVE  setting.rows[s].val # None
  <2>1. CASE s \in Plans(q)
    BY <1>3, <1>6, <2>1
  <2>2. CASE s \notin Plans(q)
    <3>1. q = r
      BY <1>1, <1>6, <2>2, SameUndisturbed DEF Frame, Types
    <3> QED
      BY <1>2, <1>6, <2>2, <3>1, PlansAct DEF AuditInv
  <2> QED
    BY <2>1, <2>2
<1> QED
  BY <1>3, <1>5, <1>6
\* What the audit log says of a session that a step does not end or commit.
LEMMA AuditKept ==
  ASSUME NEW q \in Requests, AuditOf(q),
         req'[q].pc = req[q].pc, req'[q].op = req[q].op, req'[q].failed = req[q].failed,
         q \in committed' <=> q \in committed,
         \A a : <<q, a>> \in audits' <=> <<q, a>> \in audits,
         \A p \in committed : p \in committed' /\ req'[p].op = req[p].op
  PROVE  AuditOf(q)'
  BY DEF AuditOf

\* Before its commit a session is in no log; it fails a boot only when a reload has
\* committed.
LEMMA AuditGoesOn ==
  ASSUME NEW r \in Requests, AuditOf(r), audits' = audits, committed' = committed,
         req[r].pc \notin Ended \cup {"audit"},
         req'[r].pc = "audit" => req'[r].failed,
         req[r].pc = "commit last" => req'[r].pc = "crashed",
         (req'[r].pc = "failed" /\ req'[r].op.kind = "boot") =>
           \E q \in committed : q # r /\ req'[q].op.kind # "upload"
  PROVE  AuditOf(r)'
  BY DEF AuditOf, Ended

LEMMA AuditActor ==
  ASSUME Types, RowsInv, AuditInv, NEW r \in Requests, Progress(r), Acts(r)
  PROVE  AuditOf(r)'
<1>0. AuditOf(r)
  BY DEF AuditInv
<1>1. ASSUME audits' = audits, committed' = committed, req[r].pc \notin Ended \cup {"audit", "commit last"},
             req'[r].pc = "audit" => req'[r].failed,
             ~ (req'[r].pc = "failed" /\ req'[r].op.kind = "boot")
      PROVE  AuditOf(r)'
  BY <1>0, <1>1, AuditGoesOn
<1>2. CASE Begin(r)
  <2>1. req[r].pc = "idle" /\ req'[r].pc \in {"rules", "open", "store"}
    BY <1>2, BeginEffect
  <2> QED
    BY <1>1, <1>2, <2>1 DEF Begin, Ended
<1>3. CASE Open(r)
  <2>1. req[r].pc = "open" /\ req[r].op.kind = "edit" /\ audits' = audits /\ committed' = committed
    BY <1>3 DEF Open, Progress, Editing
  <2>2. req'[r].pc \in {"failed", "truncate"} /\ req'[r].op = req[r].op
    BY <1>3, OpenEffect DEF Closed, Moved
  <2> QED
    BY <1>1, <2>1, <2>2 DEF Ended
<1>4. CASE Truncate(r) \/ Write(r)
  <2>1. req[r].pc \in {"truncate", "write"} /\ audits' = audits /\ committed' = committed
    BY <1>4 DEF Truncate, Write
  <2>2. req'[r].pc \in {"write", "rules", "done"}
    BY <1>4, EditEffect DEF Moved
  <2> QED
    BY <1>1, <2>1, <2>2 DEF Ended
<1>5. CASE Start(r) \/ Read(r)
  <2>1. req[r].pc \in {"rules", "read"} /\ audits' = audits /\ committed' = committed
    BY <1>5 DEF Start, Read
  <2>2. CASE Refused(r)
    BY <1>1, <2>1, <2>2, RefusedEffect DEF Closed, Ended
  <2>3. CASE ~ Refused(r)
    <3>1. req'[r].pc \in Reloading
      BY <1>5, <2>3, StartEffect, ReadEffect, LoadSession DEF Moved, Reloading
    <3> QED
      BY <1>1, <2>1, <3>1 DEF Ended, Reloading
  <2> QED
    BY <2>2, <2>3
<1>6. CASE Flush(r) \/ Flag(r)
  <2>1. audits' = audits /\ committed' = committed
    BY <1>6 DEF Flush, Flag
  <2>2. req[r].pc \in {"flush", "flag"} /\ req'[r].pc \in {"read", "commit", "audit first"}
    BY <1>6, WriteEffect
  <2> QED
    BY <1>1, <2>1, <2>2 DEF Ended
<1>7. CASE FlushRaises(r)
  <2>1. req[r].pc = "flush" /\ Duplicates(r) /\ audits' = audits /\ committed' = committed
    BY <1>7 DEF FlushRaises
  <2>2. req'[r].pc = "failed"
    BY <1>7, EndEffect DEF FlushRaises, Closed, Ended
  <2>3. PICK q \in committed : req[q].op.kind # "upload"
    BY <2>1, DuplicateBlames DEF AuditInv, NoReload
  <2>4. q # r
    BY <1>0, <2>1 DEF AuditOf, Ended
  <2>5. req'[q].op = req[q].op
    BY OpsKept
  <2> QED
    BY <1>0, <2>1, <2>2, <2>3, <2>4, <2>5, AuditGoesOn DEF Ended
<1>8. CASE AuditCommit(r)
  <2>1. /\ \/ req[r].pc = "audit" /\ req'[r].pc = "done"
           \/ req[r].pc = "audit lost" /\ req'[r].pc = "undone"
        /\ committed' = committed
        /\ audits' = audits \cup {<<r, IF req[r].failed THEN "reload_failed" ELSE "reloaded">>}
    BY <1>8, EndEffect DEF AuditCommit, Closed, Ended
  <2> QED
    BY <1>0, <2>1 DEF AuditOf, Ended
<1>9. CASE Crash(r)
  <2>1. req'[r].pc = "crashed" /\ committed' = committed /\ audits' = audits
    BY <1>9, EndEffect DEF Crash, Closed, Ended
  <2> QED
    BY <1>0, <1>9, <2>1 DEF AuditOf, Ended, Crash
<1>13. CASE Undone(r)
  <2>1. /\ req[r].pc = "commit" /\ req'[r].pc \in {"undone", "audit lost"}
        /\ committed' = committed /\ audits' = audits
    <3>1. {"undone", "audit lost"} \subseteq Pcs
      BY DEF Pcs, Ended
    <3> QED
      BY <1>13, <3>1, CloseEffect DEF Undone, Closed
  <2> QED
    BY <1>1, <2>1 DEF Ended
<1>10. CASE Commit(r) \/ UploadCommit(r)
  <2>1. /\ audits' = audits /\ committed' = committed \cup {r} /\ ~ req'[r].failed
        /\ \/ req[r].pc = "commit" /\ req'[r].pc = "audit"
           \/ req[r].pc = "commit last" /\ req'[r].pc = "done"
    BY <1>10, CommitEffect DEF Closed, Commit, UploadCommit
  <2> QED
    BY <1>0, <2>1 DEF AuditOf, Ended
<1>11. CASE PutBegins(r) \/ PutEnds(r)
  <2>1. /\ req[r].pc \in {"store", "storing"} /\ req[r].op.kind = "upload"
        /\ audits' = audits /\ committed' = committed
    BY <1>11 DEF PutBegins, PutEnds, Progress, Uploading
  <2>2. req'[r].pc \in {"failed", "storing", "flag", "commit last"} /\ req'[r].op = req[r].op
    BY <1>11, PutEffect DEF Closed, Moved
  <2> QED
    BY <1>1, <2>1, <2>2 DEF Ended
<1>12. CASE UploadAudit(r)
  <2>1. /\ req[r].pc = "audit first" /\ req'[r].pc = "commit last" /\ committed' = committed
        /\ audits' = audits \cup {<<r, "blob_stored">>}
    BY <1>12, MoveEffect DEF UploadAudit, Moved, Pcs, Uploading
  <2> QED
    BY <1>0, <2>1 DEF AuditOf, Ended
<1> QED
  BY <1>2, <1>3, <1>4, <1>5, <1>6, <1>7, <1>8, <1>9, <1>10, <1>11, <1>12, <1>13 DEF Acts, Step

LEMMA AuditStep ==
  ASSUME Types, RowsInv, AuditInv, \A q \in Requests : Progress(q), Next
  PROVE  AuditInv'
<1>1. CASE Pull
  <2>1. UNCHANGED <<rows, audits, committed, setting>>
    BY <1>1 DEF Pull
  <2>2. ASSUME NEW q \in Requests
        PROVE  /\ req'[q].pc = req[q].pc /\ req'[q].op = req[q].op /\ req'[q].failed = req[q].failed
               /\ Plans(q)' = Plans(q)
    BY <1>1, PullEffect, SameFacts, SameUndisturbed DEF Types
  <2>3. \A p \in committed : p \in committed' /\ req'[p].op = req[p].op
    BY <2>1, <2>2 DEF Types
  <2>4. \A q \in Requests : AuditOf(q)'
    BY <2>1, <2>2, <2>3, AuditKept DEF AuditInv
  <2>5. Unloaded'
    BY <2>1, <2>2, <2>3 DEF AuditInv, Unloaded, NoReload
  <2> QED
    BY <2>4, <2>5 DEF AuditInv
<1>2. ASSUME NEW r \in Requests, Acts(r) PROVE AuditInv'
  <2>1. Frame(r) /\ Unloaded'
    BY <1>2, ActFrame, UnloadedAct
  <2>2. committed' = committed \/ committed' = committed \cup {r}
    BY <1>2 DEF Acts, Step, Begin, Crash, Undone, Open, Truncate, Write, Start, Read, Flush, FlushRaises,
         Commit, AuditCommit, PutBegins, PutEnds, Flag, UploadAudit, UploadCommit
  <2>3. audits' = audits \/ \E a : audits' = audits \cup {<<r, a>>}
    BY <1>2 DEF Acts, Step, Begin, Crash, Undone, Open, Truncate, Write, Start, Read, Flush, FlushRaises,
         Commit, AuditCommit, PutBegins, PutEnds, Flag, UploadAudit, UploadCommit
  <2>4. \A p \in committed : p \in committed' /\ req'[p].op = req[p].op
    BY <1>2, <2>2, OpsKept
  <2>5. ASSUME NEW q \in Requests \ {r} PROVE AuditOf(q)'
    <3>1. req'[q].pc = req[q].pc /\ req'[q].op = req[q].op /\ req'[q].failed = req[q].failed
      BY <2>1, SameFacts DEF Frame, Types
    <3>2. \A a : <<q, a>> \in audits' <=> <<q, a>> \in audits
      BY <2>3
    <3> QED
      BY <2>2, <2>4, <3>1, <3>2, AuditKept DEF AuditInv
  <2>6. AuditOf(r)'
    BY <1>2, AuditActor
  <2> QED
    BY <2>1, <2>5, <2>6 DEF AuditInv
<1> QED
  BY <1>1, <1>2 DEF Next, Acts
---------------------------------------------------------------------------
(* Sessions that nobody disturbs.                                          *)

LEMMA QuietKept ==
  ASSUME NEW q \in Requests, QuietSound(q), SameRows(q),
         req'[q].pc = req[q].pc, req'[q].k = req[q].k, req'[q].deltas = req[q].deltas,
         req'[q].quiet => req[q].quiet,
         (req'[q].quiet /\ req[q].pc \in InTransaction) => rows' = rows /\ disk' = disk
  PROVE  QuietSound(q)'
<1>1. /\ Plans(q)' = Plans(q) /\ Locks(q)' = Locks(q) /\ Past(q)' = Past(q)
      /\ req'[q].base = req[q].base /\ req'[q].plan = req[q].plan /\ req'[q].locked = req[q].locked
  BY DEF SameRows, Plans, Locks, Past
<1>2. ASSUME req'[q].quiet, req[q].pc \in InTransaction
      PROVE  /\ \A s \in Plans(q) : req[q].base[s] = rows'[s]
             /\ \A s \in Locks(q) : req[q].locked[s] = req[q].plan[s]
  BY <1>2 DEF QuietSound
<1>3. ASSUME req[q].pc \in Reloading, req'[q].quiet, NEW kind \in Past(q) PROVE Serves(q, kind)'
  <2>1. rows' = rows /\ disk' = disk /\ Serves(q, kind)
    BY <1>3 DEF QuietSound, Reloading, InTransaction
  <2>2. Outcome(q)' = Outcome(q)
    BY <1>1, <2>1 DEF Outcome
  <2> QED
    BY <1>1, <2>1, <2>2 DEF Serves
<1>4. req[q].pc \in Reloading =>
        {d[1] : d \in req[q].deltas} = {s \in Plans(q) : req[q].plan[s] # req[q].base[s]}
  BY DEF QuietSound
<1> QED
  BY <1>1, <1>2, <1>3, <1>4 DEF QuietSound

LEMMA QuietOutside ==
  ASSUME NEW r \in Requests, req'[r].pc \notin InTransaction
  PROVE  QuietSound(r)'
  BY DEF QuietSound, Reloading, InTransaction

\* Nothing is planned and no kind is loaded when a reload starts.
LEMMA QuietStart ==
  ASSUME Types, NEW r \in Requests, Progress(r), req[r].pc = "rules", Moved(r, "read")
  PROVE  QuietSound(r)'
<1>1. /\ req[r].base = NoRows /\ req[r].plan = NoRows /\ req[r].locked = NoRows
      /\ Plans(r) = {} /\ Locks(r) = {} /\ req[r].k = 1 /\ req[r].deltas = {}
  BY NothingPlanned DEF Progress, InTransaction
<1>2. /\ req'[r].k = 1 /\ req'[r].pc = "read" /\ req'[r].deltas = {}
      /\ Plans(r)' = {} /\ Locks(r)' = {}
  BY <1>1, NoRowsTable DEF Moved, SameRows, Plans, Locks
<1>3. Past(r)' = {}
  BY <1>2 DEF Past
<1> QED
  BY <1>2, <1>3 DEF QuietSound

\* An undisturbed flush writes what was planned.
LEMMA QuietWrite ==
  ASSUME Types, RowsInv, NEW r \in Requests, QuietSound(r), Flush(r) \/ Flag(r)
  PROVE  QuietSound(r)'
<1>1. /\ req'[r].base = req[r].base /\ req'[r].plan = req[r].plan
      /\ req'[r].deltas = req[r].deltas /\ req'[r].quiet = req[r].quiet
      /\ req'[r].locked = Overlay(req[r].locked, [s \in Dirty(r) |-> Merged(r, s)])
      /\ \/ req[r].pc = "flush" /\ req'[r].pc \in {"read", "commit"} /\ Past(r)' = Past(r)
         \/ req[r].pc = "flag" /\ req'[r].pc = "audit first"
  BY WriteEffect
<1>2. rows' = rows /\ disk' = disk /\ req[r].pc \in InTransaction
  BY <1>1 DEF Flush, Flag, InTransaction
<1>3. Plans(r)' = Plans(r) /\ Outcome(r)' = Outcome(r)
  BY <1>1, <1>2 DEF Plans, Outcome
<1>4. ASSUME req[r].quiet
      PROVE  /\ \A s \in Plans(r) : req[r].base[s] = rows[s]
             /\ \A s \in Locks(r)' : req'[r].locked[s] = req[r].plan[s]
  <2>1. /\ \A s \in Plans(r) : req[r].base[s] = rows[s]
        /\ \A s \in Locks(r) : req[r].locked[s] = req[r].plan[s]
    BY <1>2, <1>4 DEF QuietSound
  <2>2. \A s \in Dirty(r) : Merged(r, s) = req[r].plan[s]
    BY <2>1, MergedSound
  <2>3. ASSUME NEW s \in Locks(r)' PROVE req'[r].locked[s] = req[r].plan[s]
    <3>1. CASE s \in Locks(r)
      BY <1>1, <2>1, <3>1 DEF Overlay, Locks
    <3>2. CASE s \notin Locks(r)
      BY <1>1, <2>2, <2>3, <3>2 DEF Overlay, Locks
    <3> QED
      BY <3>1, <3>2
  <2> QED
    BY <2>1, <2>3
<1>5. ASSUME req'[r].pc \in Reloading
      PROVE  /\ {d[1] : d \in req[r].deltas} = {s \in Plans(r) : req[r].plan[s] # req[r].base[s]}
             /\ req[r].quiet => \A kind \in Past(r)' : Serves(r, kind)'
  <2>1. req[r].pc \in Reloading /\ Past(r)' = Past(r)
    BY <1>1, <1>5 DEF Reloading
  <2>2. ASSUME req[r].quiet, NEW kind \in Past(r) PROVE Serves(r, kind)'
    <3>1. Serves(r, kind)
      BY <2>1, <2>2 DEF QuietSound
    <3>2. /\ disk' = disk /\ Outcome(r)' = Outcome(r) /\ Plans(r)' = Plans(r)
          /\ req'[r].plan = req[r].plan
      BY <1>1, <1>2, <1>3
    <3> QED
      BY <3>1, <3>2 DEF Serves
  <2> QED
    BY <2>1, <2>2 DEF QuietSound
<1> QED
  BY <1>1, <1>2, <1>3, <1>4, <1>5, ZenonT(60) DEF QuietSound

\* An upload begins with the committed row, and has written nothing.
LEMMA QuietBegins ==
  ASSUME Types, RowsInv, NEW r \in Requests, Progress(r), Begin(r)
  PROVE  QuietSound(r)'
<1>1. req'[r].pc \in {"rules", "open", "store"}
  BY BeginEffect
<1>2. CASE req'[r].pc = "store"
  <2>1. Locks(r) = {} /\ \A s \in Plans(r)' : req'[r].base[s] = rows[s]
    BY <1>2, UploadBegins
  <2>2. Locks(r)' = {} /\ rows' = rows
    BY <2>1, BeginEffect DEF Kept0, Locks, Begin
  <2> QED
    BY <1>2, <2>1, <2>2 DEF QuietSound, Reloading
<1>3. CASE req'[r].pc # "store"
  BY <1>1, <1>3, QuietOutside DEF InTransaction
<1> QED
  BY <1>2, <1>3

\* The steps of an upload before its commit.
LEMMA QuietUpload ==
  ASSUME Types, NEW r \in Requests, QuietSound(r), PutBegins(r) \/ PutEnds(r) \/ UploadAudit(r)
  PROVE  QuietSound(r)'
<1>1. CASE Closed(r, "failed")
  BY <1>1, QuietOutside DEF Closed, InTransaction
<1>2. CASE ~ Closed(r, "failed")
  <2>1. PICK pc \in {"storing", "flag", "commit last"} : Moved(r, pc)
    BY <1>2, PutEffect
  <2>2. req[r].pc \in Uploading /\ rows' = rows
    BY PutEffect DEF PutBegins, PutEnds, UploadAudit
  <2>3. /\ req'[r].pc = pc /\ Plans(r)' = Plans(r) /\ Locks(r)' = Locks(r)
        /\ req'[r].base = req[r].base /\ req'[r].plan = req[r].plan
        /\ req'[r].locked = req[r].locked /\ req'[r].quiet = req[r].quiet
    BY <2>1 DEF Moved, SameRows, Plans, Locks
  <2>4. req[r].pc \in InTransaction
    BY <2>2 DEF Uploading, InTransaction
  <2> QED
    BY <2>2, <2>3, <2>4 DEF QuietSound, Reloading
<1> QED
  BY <1>1, <1>2
\* What the look-ups of a kind plan serves its entries, whatever else is committed.
LEMMA LoadServes ==
  ASSUME Types, RowsInv, NEW r \in Requests, NEW kind, NEW decl, NEW copy, NEW picked, NEW stale,
         Looked(r, kind, decl, copy, picked, stale), Loads(r, decl, picked, stale),
         rows' = rows, disk' = disk
  PROVE  Serves(r, kind)'
<1>0. /\ req[r].pc = "read" /\ kind = Kinds[req[r].k] /\ decl = Declared(kind)
      /\ ~ Unloadable(kind, decl)
      /\ picked = {<<d.key, copy[d.key]>> : d \in decl}
      /\ stale = Stale(r, kind, decl)
  BY DEF Looked
<1>1. /\ Plans(r)' = Plans(r) \cup picked \cup stale
      /\ \A s \in picked \cup stale : req'[r].plan[s] = Planned(r, decl, picked, s)
  BY LoadSession
<1>2. ASSUME NEW s \in picked
      PROVE  /\ s \in Slots /\ EntryFor(decl, s[1]) \in decl /\ EntryFor(decl, s[1]).key = s[1]
             /\ Outcome(r)'[s].live /\ Outcome(r)'[s].val = EntryFor(decl, s[1]).val
             /\ Outcome(r)'[s].file = EntryFor(decl, s[1]).file
             /\ req'[r].plan[s].live
  <2> DEFINE d == EntryFor(decl, s[1])
  <2>1. /\ d \in decl /\ d.key = s[1] /\ s \in Slots
        /\ Planned(r, decl, picked, s) = Loaded(rows[s], d)
    BY PlannedFacts
  <2> HIDE DEF d
  <2>2. rows[s] \in Row /\ d.val \in Vals /\ d.file \in FilesOf(kind)
    BY <1>0, <2>1, DeclaredFacts DEF Types
  <2>3. d.file \in Files
    BY <2>2 DEF FilesOf
  <2>4. /\ Loaded(rows[s], d).live /\ Loaded(rows[s], d).val = d.val
        /\ Loaded(rows[s], d).file = d.file
    BY <2>2, <2>3, LoadedRow
  <2>5. Outcome(r)'[s] = req'[r].plan[s] /\ req'[r].plan[s] = Loaded(rows[s], d)
    BY <1>1, <2>1 DEF Outcome
  <2> QED
    BY <2>1, <2>4, <2>5 DEF d
<1>3. ASSUME NEW d \in decl
      PROVE  /\ <<d.key, copy[d.key]>> \in picked /\ EntryFor(decl, d.key) = d
             /\ disk[d.file] # Absent /\ d.key \in {e.key : e \in disk[d.file].entries}
  <2>1. EntryFor(decl, d.key) = d /\ [key |-> d.key, val |-> d.val] \in disk[d.file].entries
    BY <1>0, DeclaredFacts, EntryFacts
  <2>2. disk[d.file] # Absent
    BY <2>1 DEF Absent
  <2>3. [key |-> d.key, val |-> d.val].key = d.key
    OBVIOUS
  <2> QED
    BY <1>0, <2>1, <2>2, <2>3
<1>4. ASSUME NEW f \in FilesOf(kind), NEW e \in disk[f].entries
      PROVE  \E s \in Slots : /\ s[1] = e.key /\ Outcome(r)'[s].live
                              /\ Outcome(r)'[s].val = e.val /\ Outcome(r)'[s].file = f
  <2>1. PICK d \in decl : d.key = e.key /\ d.val = e.val /\ d.file = f
    BY <1>0, DeclaredFacts
  <2> DEFINE s == <<d.key, copy[d.key]>>
  <2>2. s \in picked /\ s[1] = d.key /\ EntryFor(decl, s[1]) = d
    BY <1>3
  <2> HIDE DEF s
  <2> QED
    BY <1>2, <2>1, <2>2
<1>5. ASSUME NEW s \in Slots, KindOf(s[1]) = kind, Outcome(r)'[s].live
      PROVE  \/ /\ disk[Outcome(r)'[s].file] # Absent
                /\ kind = "edge" => s[1] \in {e.key : e \in disk[Outcome(r)'[s].file].entries}
             \/ \E t \in Plans(r)' : t # s /\ t[1] = s[1] /\ req'[r].plan[t].live
  <2>1. s \notin Plans(r) /\ View(r)[s] = rows[s]
    BY <1>0, <1>5, UnplannedFacts
  <2>2. CASE s \in picked
    <3> DEFINE d == EntryFor(decl, s[1])
    <3>1. d \in decl /\ d.key = s[1] /\ Outcome(r)'[s].file = d.file
      BY <1>2, <2>2
    <3>2. disk[d.file] # Absent /\ d.key \in {e.key : e \in disk[d.file].entries}
      BY <1>3, <3>1
    <3> HIDE DEF d
    <3> QED
      BY <3>1, <3>2
  <2>3. CASE s \in stale
    <3>0. Planned(r, decl, picked, s) = [rows[s] EXCEPT !.live = FALSE]
      BY <2>3, PlannedFacts
    <3>1. Outcome(r)'[s] = [rows[s] EXCEPT !.live = FALSE]
      <4>1. Outcome(r)'[s] = req'[r].plan[s]
        BY <1>1, <2>3 DEF Outcome
      <4> QED
        BY <1>1, <2>3, <3>0, <4>1
    <3>2. rows[s] \in Row
      BY DEF Types
    <3> QED
      BY <1>5, <3>1, <3>2, RemovedRow
  <2>4. CASE s \notin picked \cup stale
    <3>1. Outcome(r)'[s] = rows[s]
      BY <1>1, <2>1, <2>4 DEF Outcome
    <3>2. CASE \E d \in decl : d.key = s[1]
      <4>1. PICK d \in decl : d.key = s[1]
        BY <3>2
      <4> DEFINE t == <<d.key, copy[d.key]>>
      <4>2. t \in picked /\ t[1] = s[1]
        BY <1>3, <4>1
      <4> HIDE DEF t
      <4> QED
        BY <1>1, <1>2, <2>4, <4>2
    <3>3. CASE ~ \E d \in decl : d.key = s[1]
      <4>1. s[1] \notin {d.key : d \in decl}
        BY <3>3
      <4>2. ~ (kind = "edge" \/ disk[rows[s].file] = Absent)
        BY <1>0, <1>5, <2>1, <2>4, <3>1, <4>1 DEF Stale
      <4> QED
        BY <3>1, <4>2
    <3> QED
      BY <3>2, <3>3
  <2> QED
    BY <2>2, <2>3, <2>4
<1> QED
  BY <1>4, <1>5 DEF Serves

\* The kinds loaded before are served as they were.
LEMMA LoadStillServes ==
  ASSUME Types, RowsInv, NEW r \in Requests, NEW kind, NEW decl, NEW copy, NEW picked, NEW stale,
         Looked(r, kind, decl, copy, picked, stale), Loads(r, decl, picked, stale),
         rows' = rows, disk' = disk, NEW other \in Past(r), Serves(r, other)
  PROVE  Serves(r, other)'
<1>1. /\ Plans(r)' = Plans(r) \cup picked \cup stale
      /\ \A s \in Plans(r) : req'[r].plan[s] = req[r].plan[s]
  BY LoadSession
<1>2. other # kind
  <2>1. req[r].pc = "read" /\ kind = Kinds[req[r].k] /\ req[r].k \in 1..4
    BY KindsFacts DEF Looked, Types, IsReq
  <2>2. PICK i \in 1..(req[r].k - 1) : other = Kinds[i]
    BY <2>1 DEF Past
  <2> QED
    BY <2>1, <2>2, KindsFacts
<1>3. \A s \in picked \cup stale : KindOf(s[1]) = kind
  BY PlannedFacts
<1>4. ASSUME NEW s \in Slots, KindOf(s[1]) = other PROVE Outcome(r)'[s] = Outcome(r)[s]
  BY <1>1, <1>2, <1>3, <1>4 DEF Outcome
<1>5. ASSUME NEW f \in FilesOf(other), NEW e \in disk[f].entries
      PROVE  \E s \in Slots : /\ s[1] = e.key /\ Outcome(r)'[s].live
                              /\ Outcome(r)'[s].val = e.val /\ Outcome(r)'[s].file = f
  <2>1. PICK s \in Slots : /\ s[1] = e.key /\ Outcome(r)[s].live
                           /\ Outcome(r)[s].val = e.val /\ Outcome(r)[s].file = f
    BY DEF Serves
  <2>2. KindOf(e.key) = other
    BY DEF Types, IsTree, FilesOf
  <2> QED
    BY <1>4, <2>1, <2>2
<1>6. ASSUME NEW s \in Slots, KindOf(s[1]) = other, Outcome(r)'[s].live
      PROVE  \/ /\ disk[Outcome(r)'[s].file] # Absent
                /\ other = "edge" => s[1] \in {e.key : e \in disk[Outcome(r)'[s].file].entries}
             \/ \E t \in Plans(r)' : t # s /\ t[1] = s[1] /\ req'[r].plan[t].live
  <2>1. Outcome(r)'[s] = Outcome(r)[s]
    BY <1>4, <1>6
  <2>2. \/ /\ disk[Outcome(r)[s].file] # Absent
           /\ other = "edge" => s[1] \in {e.key : e \in disk[Outcome(r)[s].file].entries}
        \/ \E t \in Plans(r) : t # s /\ t[1] = s[1] /\ req[r].plan[t].live
    BY <1>6, <2>1 DEF Serves
  <2> QED
    BY <1>1, <2>1, <2>2
<1> QED
  BY <1>5, <1>6 DEF Serves

\* What is to be audited is what is planned to change.
LEMMA LoadDeltas ==
  ASSUME Types, RowsInv, NEW r \in Requests, NEW kind, NEW decl, NEW copy, NEW picked, NEW stale,
         Looked(r, kind, decl, copy, picked, stale), Loads(r, decl, picked, stale),
         {d[1] : d \in req[r].deltas} = {s \in Plans(r) : req[r].plan[s] # req[r].base[s]}
  PROVE  {d[1] : d \in req'[r].deltas} = {s \in Plans(r)' : req'[r].plan[s] # req'[r].base[s]}
<1> DEFINE loaded == {t \in picked : Changed(View(r)[t], EntryFor(decl, t[1]))}
<1>1. /\ Plans(r)' = Plans(r) \cup picked \cup stale
      /\ \A s \in Plans(r) : req'[r].plan[s] = req[r].plan[s] /\ req'[r].base[s] = req[r].base[s]
      /\ \A s \in picked \cup stale : /\ req'[r].plan[s] = Planned(r, decl, picked, s)
                                      /\ req'[r].base[s] = rows[s]
      /\ req'[r].deltas = req[r].deltas \cup {<<s, "loaded">> : s \in loaded}
                                        \cup {<<s, "removed">> : s \in stale}
  BY LoadSession
<1>2. ASSUME NEW s \in picked PROVE s \in loaded <=> Planned(r, decl, picked, s) # rows[s]
  <2> DEFINE d == EntryFor(decl, s[1])
  <2>0. decl = Declared(kind) /\ s \in picked \cup stale
    BY DEF Looked
  <2>3. d \in decl /\ Planned(r, decl, picked, s) = Loaded(rows[s], d)
    BY PlannedFacts
  <2>4. s \in Slots /\ View(r)[s] = rows[s]
    BY <2>0, PlannedFacts
  <2> HIDE DEF d
  <2>5. rows[s] \in Row /\ d.val \in Vals /\ d.file \in Files
    BY <2>0, <2>3, <2>4, DeclaredFacts DEF Types, FilesOf
  <2>6. Loaded(rows[s], d) # rows[s] <=> Changed(rows[s], d)
    BY <2>5, LoadedRow
  <2> QED
    BY <2>3, <2>4, <2>6 DEF d
<1>3. ASSUME NEW s \in stale PROVE Planned(r, decl, picked, s) # rows[s]
  <2>1. rows[s].live /\ s \in Slots /\ Planned(r, decl, picked, s) = [rows[s] EXCEPT !.live = FALSE]
    BY PlannedFacts
  <2>2. rows[s] \in Row
    BY <2>1 DEF Types
  <2> QED
    BY <2>1, <2>2, RemovedRow
<1>4. {d[1] : d \in req'[r].deltas} = {d[1] : d \in req[r].deltas} \cup loaded \cup stale
  <2> HIDE DEF loaded
  <2> DEFINE a == req[r].deltas
             b == {<<s, "loaded">> : s \in loaded}
             c == {<<s, "removed">> : s \in stale}
  <2>0. (\A s \in loaded : \E d \in b : d[1] = s) /\ \A d \in b : d[1] \in loaded
    <3>1. ASSUME NEW s \in loaded PROVE \E d \in b : d[1] = s
      <4>1. <<s, "loaded">> \in b /\ <<s, "loaded">>[1] = s
        OBVIOUS
      <4> HIDE DEF b
      <4> QED
        BY <4>1
    <3>2. ASSUME NEW d \in b PROVE d[1] \in loaded
      OBVIOUS
    <3> QED
      BY <3>1, <3>2
  <2>4. (\A s \in stale : \E d \in c : d[1] = s) /\ \A d \in c : d[1] \in stale
    <3>1. ASSUME NEW s \in stale PROVE \E d \in c : d[1] = s
      <4>1. <<s, "removed">> \in c /\ <<s, "removed">>[1] = s
        OBVIOUS
      <4> HIDE DEF c
      <4> QED
        BY <4>1
    <3>2. ASSUME NEW d \in c PROVE d[1] \in stale
      OBVIOUS
    <3> QED
      BY <3>1, <3>2
  <2>2. req'[r].deltas = a \cup b \cup c
    BY <1>1
  <2> HIDE DEF a, b, c
  <2>1. {d[1] : d \in b} = loaded
    BY <2>0
  <2>5. {d[1] : d \in c} = stale
    BY <2>4
  <2>3. {d[1] : d \in a \cup b \cup c} = {d[1] : d \in a} \cup {d[1] : d \in b} \cup {d[1] : d \in c}
    OBVIOUS
  <2> QED
    BY <2>1, <2>2, <2>3, <2>5 DEF a
<1>5. loaded \subseteq picked
  OBVIOUS
<1> HIDE DEF loaded
<1> QED
  BY <1>1, <1>2, <1>3, <1>4, <1>5, PlannedFacts

LEMMA QuietLoad ==
  ASSUME Types, RowsInv, NEW r \in Requests, QuietSound(r),
         NEW kind, NEW decl, NEW copy, NEW picked, NEW stale,
         Looked(r, kind, decl, copy, picked, stale), Loads(r, decl, picked, stale),
         rows' = rows, disk' = disk
  PROVE  QuietSound(r)'
<1>1. /\ req'[r].locked = req[r].locked /\ req'[r].quiet = req[r].quiet
      /\ req'[r].pc \in Reloading /\ Past(r)' = Past(r) \cup {kind}
      /\ Plans(r)' = Plans(r) \cup picked \cup stale
      /\ \A s \in Plans(r) : req'[r].plan[s] = req[r].plan[s] /\ req'[r].base[s] = req[r].base[s]
      /\ \A s \in picked \cup stale : req'[r].base[s] = rows[s]
  BY LoadSession
<1>2. req[r].pc = "read" /\ Locks(r) \subseteq Plans(r) /\ Locks(r)' = Locks(r)
  BY <1>1, ViewType DEF Looked, Locks
<1>3. {d[1] : d \in req'[r].deltas} = {s \in Plans(r)' : req'[r].plan[s] # req'[r].base[s]}
  BY <1>2, LoadDeltas DEF QuietSound, Reloading
<1>4. ASSUME req[r].quiet
      PROVE  /\ \A s \in Plans(r)' : req'[r].base[s] = rows[s]
             /\ \A s \in Locks(r)' : req'[r].locked[s] = req'[r].plan[s]
             /\ \A other \in Past(r)' : Serves(r, other)'
  <2>1. /\ \A s \in Plans(r) : req[r].base[s] = rows[s]
        /\ \A s \in Locks(r) : req[r].locked[s] = req[r].plan[s]
        /\ \A other \in Past(r) : Serves(r, other)
    BY <1>2, <1>4 DEF QuietSound, InTransaction, Reloading
  <2>2. \A other \in Past(r)' : Serves(r, other)'
    BY <1>1, <2>1, LoadServes, LoadStillServes
  <2> QED
    BY <1>1, <1>2, <2>1, <2>2
<1> QED
  BY <1>1, <1>3, <1>4 DEF QuietSound
LEMMA QuietActor ==
  ASSUME Types, RowsInv, NEW r \in Requests, Progress(r), QuietSound(r), Acts(r)
  PROVE  QuietSound(r)'
<1>1. ASSUME NEW pc, pc \notin InTransaction, req'[r].pc = pc PROVE QuietSound(r)'
  BY <1>1, QuietOutside
<1>2. CASE Begin(r)
  BY <1>2, QuietBegins
<1>3. CASE Open(r)
  <2>1. req'[r].pc \in {"failed", "truncate"}
    BY <1>3, OpenEffect DEF Closed, Moved
  <2> QED
    BY <1>1, <2>1 DEF InTransaction
<1>4. CASE Truncate(r) \/ Write(r)
  <2>1. req'[r].pc \in {"write", "rules", "done"}
    BY <1>4, EditEffect DEF Moved
  <2> QED
    BY <1>1, <2>1 DEF InTransaction
<1>5. CASE Start(r) \/ Read(r)
  <2>1. CASE Refused(r)
    <3>1. req'[r].pc \in {"audit", "failed"}
      BY <2>1, RefusedEffect DEF Closed
    <3> QED
      BY <1>1, <3>1 DEF InTransaction
  <2>2. CASE Start(r) /\ ~ Refused(r)
    BY <2>2, StartEffect, QuietStart
  <2>3. CASE Read(r) /\ ~ Refused(r)
    <3>1. rows' = rows /\ disk' = disk
      BY <2>3 DEF Read
    <3> QED
      BY <2>3, <3>1, ReadEffect, QuietLoad
  <2> QED
    BY <1>5, <2>1, <2>2, <2>3
<1>6. CASE Flush(r) \/ Flag(r)
  BY <1>6, QuietWrite
<1>7. CASE FlushRaises(r) \/ AuditCommit(r) \/ Crash(r) \/ Undone(r)
  <2>1. req'[r].pc \in {"failed", "done", "undone", "crashed", "audit lost"}
    BY <1>7, EndsEffect DEF Closed
  <2> QED
    BY <1>1, <2>1 DEF InTransaction
<1>8. CASE Commit(r) \/ UploadCommit(r)
  <2>1. req'[r].pc \in {"audit", "done"}
    BY <1>8, CommitEffect DEF Closed
  <2> QED
    BY <1>1, <2>1 DEF InTransaction
<1>9. CASE PutBegins(r) \/ PutEnds(r) \/ UploadAudit(r)
  BY <1>9, QuietUpload
<1> QED
  BY <1>2, <1>3, <1>4, <1>5, <1>6, <1>7, <1>8, <1>9 DEF Acts, Step

LEMMA QuietStep ==
  ASSUME Types, RowsInv, \A q \in Requests : Progress(q) /\ QuietSound(q), Next, NEW q \in Requests
  PROVE  QuietSound(q)'
<1>1. ASSUME Same(q), (req'[q].quiet /\ req[q].pc \in InTransaction) => rows' = rows /\ disk' = disk
      PROVE  QuietSound(q)'
  BY <1>1, SameFacts, QuietKept DEF Types
<1>2. CASE Pull
  BY <1>1, <1>2, PullEffect
<1>3. ASSUME NEW r \in Requests, Acts(r) PROVE QuietSound(q)'
  <2>1. CASE q = r
    BY <1>3, <2>1, QuietActor
  <2>2. CASE q # r
    <3>1. Same(q)
      BY <1>3, <2>2, ActFrame DEF Frame
    <3>2. CASE Truncate(r) \/ Write(r)
      BY <1>1, <2>2, <3>1, <3>2, EditEffect
    <3>3. CASE Commit(r) \/ UploadCommit(r)
      BY <1>1, <2>2, <3>1, <3>3, CommitEffect
    <3>4. CASE ~ (Truncate(r) \/ Write(r) \/ Commit(r) \/ UploadCommit(r))
      <4>1. rows' = rows /\ disk' = disk
        BY <1>3, <3>4 DEF Acts, Step, Begin, Crash, Undone, Open, Start, Read, Flush, FlushRaises,
             AuditCommit, PutBegins, PutEnds, Flag, UploadAudit
      <4> QED
        BY <1>1, <3>1, <4>1
    <3> QED
      BY <3>2, <3>3, <3>4
  <2> QED
    BY <2>1, <2>2
<1> QED
  BY <1>2, <1>3 DEF Next, Acts
---------------------------------------------------------------------------
(* The invariant.                                                          *)

LEMMA InitIInv == Init => IInv
<1> SUFFICES ASSUME Init PROVE IInv
  OBVIOUS
<1>0. /\ setting \in Starts /\ disk = setting.tree /\ head = setting.tree /\ rows = setting.rows
      /\ store = setting.store /\ req = [r \in Requests |-> Idle] /\ rules = Nobody
      /\ audits = {} /\ committed = {} /\ spent = [requests |-> 0, pulls |-> 0, faults |-> 0]
  BY DEF Init
<1>1. IsStart(setting) /\ IsTree(setting.tree)
  BY <1>0, ConstantsAssumption DEF IsStart
<1>2. /\ Idle.pc = "idle" /\ Idle.op = NoOp /\ Idle.k = 1 /\ Idle.base = NoRows
      /\ Idle.plan = NoRows /\ Idle.locked = NoRows /\ Idle.deltas = {}
  BY DEF Idle
<1>3. \A r \in Requests : req[r] = Idle
  BY <1>0
<1>4. IsReq(Idle)
  <2>1. "idle" \in Pcs /\ Absent \in Content /\ 1 \in 1..Len(Kinds)
    BY KindsFacts DEF Pcs, Absent, Content
  <2> QED
    BY <2>1, NoRowsTable DEF IsReq, Idle
<1>5. \A r \in Requests : Plans(r) = {} /\ Locks(r) = {} /\ Dirty(r) = {} /\ View(r) = rows
  <2> TAKE r \in Requests
  <2>1. Plans(r) = {} /\ Locks(r) = {} /\ Dirty(r) = {}
    BY <1>2, <1>3, NoRowsTable DEF Plans, Locks, Dirty
  <2>2. rows = [s \in Slots |-> rows[s]]
    BY <1>0, <1>1 DEF IsStart
  <2> QED
    BY <2>1, <2>2 DEF View, Locks
<1> HIDE DEF Idle
<1>6. Types
  <2>1. spent \in [Kept -> Nat] /\ \A what \in Kept : spent[what] \in 0..setting.bound[what]
    BY <1>0, <1>1 DEF Kept, IsStart
  <2> QED
    BY <1>0, <1>1, <1>3, <1>4, <2>1 DEF Types, IsStart
<1>7. RowsInv
  <2>1. \A s \in Slots : IsRowOf(s, rows[s])
    BY <1>0, <1>1 DEF IsStart
  <2>2. OneLive(rows)
    BY <1>0, <1>1, <2>1, NoRowFacts DEF IsStart, OneLive, IsRowOf
  <2>3. \A r \in Requests : PlanSound(r) /\ WrittenSound(r)
    BY <1>5, <2>2 DEF PlanSound, WrittenSound
  <2> QED
    BY <1>5, <2>1, <2>2, <2>3 DEF RowsInv, LocksApart
<1>8. AuditInv
  BY <1>0, <1>2, <1>3, <1>5 DEF AuditInv, Unloaded, AuditOf
<1>9. \A r \in Requests : Progress(r) /\ QuietSound(r)
  BY <1>2, <1>3 DEF Progress, QuietSound, Editing, Reloading, Uploading, InTransaction
<1> QED
  BY <1>6, <1>7, <1>8, <1>9 DEF IInv

LEMMA StutterIInv == IInv /\ UNCHANGED vars => IInv'
<1> SUFFICES ASSUME IInv, UNCHANGED vars PROVE IInv'
  OBVIOUS
<1>1. /\ disk' = disk /\ head' = head /\ rows' = rows /\ store' = store /\ req' = req
      /\ rules' = rules /\ audits' = audits /\ committed' = committed /\ setting' = setting
      /\ spent' = spent
  BY DEF vars
<1>2. Types' <=> Types
  BY <1>1 DEF Types
<1>3. \A r \in Requests : View(r)' = View(r) /\ Dirty(r)' = Dirty(r) /\ Past(r)' = Past(r)
                          /\ Plans(r)' = Plans(r) /\ Locks(r)' = Locks(r) /\ Outcome(r)' = Outcome(r)
  BY <1>1 DEF View, Dirty, Past, Plans, Locks, Outcome
<1>4. RowsInv'
  <2>1. \A r \in Requests : Undisturbed(r)
    BY <1>1, <1>3 DEF Undisturbed, SameRows
  <2> QED
    BY <1>1, <2>1, RowsKeep DEF IInv
<1>5. AuditInv'
  <2>1. \A p \in committed : p \in committed' /\ req'[p].op = req[p].op
    BY <1>1
  <2>2. \A r \in Requests : AuditOf(r)'
    BY <1>1, <2>1, AuditKept DEF IInv, AuditInv
  <2>3. NoReload' <=> NoReload
    BY <1>1 DEF NoReload
  <2>4. Unloaded'
    BY <1>1, <1>3, <2>3 DEF IInv, AuditInv, Unloaded
  <2> QED
    BY <2>2, <2>4 DEF AuditInv
<1>6. \A r \in Requests : Progress(r)'
  BY <1>1, <1>3, ZenonT(60) DEF IInv, Progress
<1>7. \A r \in Requests : QuietSound(r)'
  <2> TAKE r \in Requests
  <2> QED
    BY <1>1, <1>3, QuietKept DEF IInv, SameRows
<1> QED
  BY <1>2, <1>4, <1>5, <1>6, <1>7 DEF IInv

LEMMA NextIInv == IInv /\ [Next]_vars => IInv'
<1>1. IInv /\ Next => IInv'
  BY TypesStep, ProgressStep, RowsStep, AuditStep, QuietStep DEF IInv
<1> QED
  BY <1>1, StutterIInv

\* The inductive invariant holds always.
THEOREM Invariance == Spec => []IInv
  BY InitIInv, NextIInv, PTL DEF Spec
---------------------------------------------------------------------------
(* The properties.                                                         *)

\* A reload leaves "commit" for "audit", and an upload ends, by committing.
LEMMA CommitsOnly ==
  ASSUME IInv, [Next]_vars, NEW r \in Requests
  PROVE  /\ Reloads(r) => Commit(r)
         /\ (req[r].pc = "commit last" /\ req'[r].pc = "done") => UploadCommit(r)
<1>1. ASSUME req[r].pc # req'[r].pc PROVE Acts(r)
  <2>1. ASSUME Same(r) PROVE FALSE
    BY <1>1, <2>1, SameFacts DEF IInv, Types
  <2>2. CASE Pull
    BY <2>1, <2>2, PullEffect DEF IInv
  <2>3. ASSUME NEW p \in Requests, Acts(p) PROVE Acts(r)
    BY <2>1, <2>3, ActFrame DEF IInv, Frame
  <2>4. CASE UNCHANGED vars
    BY <1>1, <2>4 DEF vars
  <2> QED
    BY <2>2, <2>3, <2>4 DEF Next, Acts
<1>2. CASE req[r].pc = "commit" /\ req'[r].pc = "audit"
  <2>1. Commit(r) \/ Crash(r) \/ Undone(r)
    BY <1>1, <1>2 DEF Acts, Step, Begin, Undone, Open, Truncate, Write, Start, Read, Flush, FlushRaises,
         AuditCommit, PutBegins, PutEnds, Flag, UploadAudit, UploadCommit
  <2>2. ~ (Crash(r) \/ Undone(r))
    BY <1>2, EndsEffect DEF IInv, FlushRaises, AuditCommit, Closed
  <2> QED
    BY <1>2, <2>1, <2>2
<1>3. CASE req[r].pc = "commit last" /\ req'[r].pc = "done"
  <2>1. UploadCommit(r) \/ Crash(r)
    BY <1>1, <1>3 DEF Acts, Step, Begin, Undone, Open, Truncate, Write, Start, Read, Flush, FlushRaises,
         Commit, AuditCommit, PutBegins, PutEnds, Flag, UploadAudit
  <2>2. ~ Crash(r)
    BY <1>3, EndsEffect DEF IInv, FlushRaises, AuditCommit, Undone, Closed
  <2> QED
    BY <1>3, <2>1, <2>2 DEF Reloads
<1> QED
  BY <1>2, <1>3 DEF Reloads

\* A session that was not disturbed commits what it planned.
LEMMA QuietCommits ==
  ASSUME IInv, NEW r \in Requests, req[r].quiet, req[r].pc \in {"commit", "commit last"}
  PROVE  /\ View(r) = Outcome(r)
         /\ \A s \in Plans(r) : s \in Slots /\ req[r].base[s] = rows[s]
<1>1. /\ \A s \in Plans(r) : req[r].base[s] = rows[s]
      /\ \A s \in Locks(r) : req[r].locked[s] = req[r].plan[s]
  BY DEF IInv, QuietSound, InTransaction
<1>2. Dirty(r) = {}
  BY DEF IInv, RowsInv, PlanSound
<1>3. /\ Locks(r) \subseteq Plans(r) /\ Plans(r) \subseteq Slots
      /\ \A s \in Locks(r) : View(r)[s] = req[r].locked[s]
      /\ \A s \in Slots \ Locks(r) : View(r)[s] = rows[s]
  BY ViewType DEF IInv
<1>4. \A s \in Plans(r) \ Locks(r) : req[r].plan[s] = req[r].base[s]
  BY <1>2 DEF Dirty, Plans, Locks
<1>5. \A s \in Slots : View(r)[s] = Outcome(r)[s]
  BY <1>1, <1>3, <1>4 DEF Outcome
<1>6. View(r) = Outcome(r)
  BY <1>5 DEF View, Outcome
<1> QED
  BY <1>1, <1>3, <1>6

\* Whatever reloads and uploads overlap, the tables keep their shape and one live row
\* for a natural key.
THEOREM TypeCorrect == Spec => []TypeOK
<1>1. IInv => TypeOK
  <2> SUFFICES ASSUME IInv PROVE TypeOK
    OBVIOUS
  <2>1. \A f \in Files : disk[f] \in Content /\ head[f] \in Content
    BY DEF IInv, Types, IsTree
  <2>2. \A s \in Slots : rows[s].live => rows[s].val # None /\ KindOfFile(rows[s].file) = KindOf(s[1])
    BY NoRowFacts DEF IInv, RowsInv, IsRowOf
  <2>3. \A s, t \in Slots : (s # t /\ rows[s].live /\ rows[t].live) => s[1] # t[1]
    BY DEF IInv, RowsInv, OneLive
  <2>4. \A r \in Requests : /\ req[r].pc \in InTransaction \cup Ended
                                 \cup {"idle", "open", "truncate", "write", "rules", "audit", "audit lost"}
                            /\ DOMAIN req[r].plan = DOMAIN req[r].base
                            /\ DOMAIN req[r].locked \subseteq Slots
    BY DEF IInv, Types, IsReq, IsTable, Pcs, Editing, Reloading, Uploading, Ended, InTransaction
  <2>5. \A what \in DOMAIN spent : spent[what] \in 0..setting.bound[what]
    BY DEF IInv, Types
  <2> QED
    BY <2>1, <2>2, <2>3, <2>4, <2>5 DEF IInv, Types, TypeOK
<1> QED
  BY <1>1, Invariance, PTL

\* The audit log says of every request what became of its transaction, unless a database
\* error after the load undid it, and a boot that fails without a row in it was failed by
\* another's reload.
THEOREM AuditTells == Spec => []AuditTellsOutcome
<1>1. IInv => AuditTellsOutcome
  BY DEF IInv, AuditInv, AuditOf, AuditTellsOutcome
<1> QED
  BY <1>1, Invariance, PTL

\* A reload that nothing overlapped gives no live package another checksum.
THEOREM ChecksumKept == Spec => ChecksumChangesByRemoval
<1>1. ASSUME IInv, [Next]_vars, NEW r \in Requests, Reloads(r), req[r].quiet,
             NEW s \in Slots, KindOf(s[1]) = "package", rows[s].live
      PROVE  rows'[s].val = rows[s].val
  <2>1. rows' = View(r) /\ req[r].pc = "commit"
    BY <1>1, CommitsOnly DEF Commit
  <2>2. View(r) = Outcome(r) /\ \A x \in Plans(r) : req[r].base[x] = rows[x]
    BY <1>1, <2>1, QuietCommits
  <2>3. s \in Plans(r) => req[r].plan[s].val = rows[s].val
    BY <1>1, <2>2 DEF IInv, RowsInv, PlanSound
  <2> QED
    BY <2>1, <2>2, <2>3 DEF Outcome
<1>2. IInv /\ [Next]_vars =>
        \A r \in Requests : (Reloads(r) /\ req[r].quiet) =>
          \A s \in Slots : (KindOf(s[1]) = "package" /\ rows[s].live) => rows'[s].val = rows[s].val
  BY <1>1
<1> QED
  BY <1>2, Invariance, PTL DEF Spec, ChecksumChangesByRemoval

\* Such a reload audits the rows that its commit changes, and no other.
THEOREM ReloadAudited == Spec => QuietReloadAudited
<1>1. ASSUME IInv, [Next]_vars, NEW r \in Requests, Reloads(r), req[r].quiet
      PROVE  {d[1] : d \in req[r].deltas} = {s \in Slots : rows'[s] # rows[s]}
  <2>1. rows' = View(r) /\ req[r].pc = "commit"
    BY <1>1, CommitsOnly DEF Commit
  <2>2. View(r) = Outcome(r) /\ \A s \in Plans(r) : s \in Slots /\ req[r].base[s] = rows[s]
    BY <1>1, <2>1, QuietCommits
  <2>3. {d[1] : d \in req[r].deltas} = {s \in Plans(r) : req[r].plan[s] # req[r].base[s]}
    BY <1>1, <2>1 DEF IInv, QuietSound, Reloading
  <2>4. \A s \in Slots : rows'[s] = IF s \in Plans(r) THEN req[r].plan[s] ELSE rows[s]
    BY <2>1, <2>2 DEF Outcome
  <2> QED
    BY <2>2, <2>3, <2>4
<1>2. IInv /\ [Next]_vars =>
        \A r \in Requests : (Reloads(r) /\ req[r].quiet) =>
          {d[1] : d \in req[r].deltas} = {s \in Slots : rows'[s] # rows[s]}
  BY <1>1
<1> QED
  BY <1>2, Invariance, PTL DEF Spec, QuietReloadAudited

\* Such a reload leaves the tables serving the tree: every entry, and nothing that no
\* file, or for an edge no entry, stands for.
THEOREM ReloadServes == Spec => QuietReloadServesTree
<1>1. ASSUME IInv, [Next]_vars, NEW r \in Requests, Reloads(r), req[r].quiet
      PROVE  /\ \A f \in Files : \A e \in disk[f].entries :
                  \E s \in Slots : /\ s[1] = e.key /\ rows'[s].live
                                   /\ rows'[s].val = e.val /\ rows'[s].file = f
             /\ \A s \in Slots : rows'[s].live =>
                  /\ disk[rows'[s].file] # Absent
                  /\ KindOf(s[1]) = "edge" => s[1] \in {e.key : e \in disk[rows'[s].file].entries}
  <2>1. rows' = View(r) /\ req[r].pc = "commit"
    BY <1>1, CommitsOnly DEF Commit
  <2>2. rows' = Outcome(r)
    BY <1>1, <2>1, QuietCommits
  <2>3. ASSUME NEW key \in Keys PROVE Serves(r, KindOf(key))
    <3>1. req[r].k = Len(Kinds)
      BY <1>1, <2>1 DEF IInv, Progress
    <3>2. KindOf(key) \in Past(r)
      BY <2>1, <3>1, KindsFacts, ConstantsAssumption DEF Past
    <3> QED
      BY <1>1, <2>1, <3>2 DEF IInv, QuietSound, Reloading
  <2>4. ASSUME NEW f \in Files, NEW e \in disk[f].entries
        PROVE  \E s \in Slots : /\ s[1] = e.key /\ rows'[s].live
                                /\ rows'[s].val = e.val /\ rows'[s].file = f
    <3>1. IsTree(disk) /\ disk[f] \in Content
      BY <1>1 DEF IInv, Types, IsTree
    <3>2. KindOf(e.key) = KindOfFile(f)
      BY <3>1 DEF IsTree
    <3>3. e.key \in Keys
      BY <3>1 DEF Content
    <3>4. f \in FilesOf(KindOf(e.key)) /\ Serves(r, KindOf(e.key))
      BY <2>3, <3>2, <3>3 DEF FilesOf
    <3> QED
      BY <2>2, <3>4 DEF Serves
  <2>5. ASSUME NEW s \in Slots, rows'[s].live
        PROVE  /\ disk[rows'[s].file] # Absent
               /\ KindOf(s[1]) = "edge" => s[1] \in {e.key : e \in disk[rows'[s].file].entries}
    <3>1. Serves(r, KindOf(s[1])) /\ Outcome(r)[s].live
      BY <2>2, <2>3, <2>5 DEF Slots
    <3>2. ~ \E t \in Plans(r) : t # s /\ t[1] = s[1] /\ req[r].plan[t].live
      <4> SUFFICES ASSUME NEW t \in Plans(r), t # s, t[1] = s[1], req[r].plan[t].live PROVE FALSE
        OBVIOUS
      <4>1. t \in Slots
        BY <1>1, ViewType DEF IInv
      <4>2. rows'[t].live
        BY <2>2, <4>1 DEF Outcome
      <4>3. OneLive(View(r))
        BY <1>1 DEF IInv, RowsInv, WrittenSound
      <4> QED
        BY <2>1, <2>5, <4>1, <4>2, <4>3 DEF OneLive
    <3> QED
      BY <2>2, <3>1, <3>2 DEF Serves
  <2> QED
    BY <2>4, <2>5
<1>2. IInv /\ [Next]_vars =>
        \A r \in Requests : (Reloads(r) /\ req[r].quiet) =>
          /\ \A f \in Files : \A e \in disk[f].entries :
               \E s \in Slots : /\ s[1] = e.key /\ rows'[s].live
                                /\ rows'[s].val = e.val /\ rows'[s].file = f
          /\ \A s \in Slots : rows'[s].live =>
               /\ disk[rows'[s].file] # Absent
               /\ KindOf(s[1]) = "edge" => s[1] \in {e.key : e \in disk[rows'[s].file].entries}
  BY <1>1
<1> QED
  BY <1>2, Invariance, PTL DEF Spec, QuietReloadServesTree

\* An upload that nothing overlapped commits a live package whose bytes are on disk.
THEOREM UploadServes == Spec => QuietUploadServable
<1>1. ASSUME IInv, [Next]_vars, NEW r \in Requests,
             req[r].pc = "commit last", req'[r].pc = "done", req[r].quiet
      PROVE  LET row == rows'[req[r].slot] IN row.live /\ row.blob /\ row.val \in store
  <2> DEFINE s == req[r].slot
             b == req[r].base[s]
  <2>1. rows' = View(r) /\ View(r) = Outcome(r)
    BY <1>1, CommitsOnly, QuietCommits DEF UploadCommit
  <2>2. /\ s \in Slots /\ Plans(r) = {s} /\ b.live /\ b.val \in store
        /\ req[r].plan[s] = [b EXCEPT !.blob = TRUE]
    BY <1>1 DEF IInv, Progress, Uploading, Plans
  <2>3. b \in Row
    BY <1>1, <2>2, QuietCommits, ZenonT(60) DEF IInv, Types
  <2>4. rows'[s] = [b EXCEPT !.blob = TRUE]
    BY <2>1, <2>2 DEF Outcome
  <2> HIDE DEF b, s
  <2>5. rows'[s].live /\ rows'[s].blob /\ rows'[s].val \in store
    BY <2>2, <2>3, <2>4 DEF Row
  <2> QED
    BY <2>5 DEF s
<1>2. IInv /\ [Next]_vars =>
        \A r \in Requests : (req[r].pc = "commit last" /\ req'[r].pc = "done" /\ req[r].quiet) =>
          LET row == rows'[req[r].slot] IN row.live /\ row.blob /\ row.val \in store
  BY <1>1
<1> QED
  BY <1>2, Invariance, PTL DEF Spec, QuietUploadServable
=============================================================================
