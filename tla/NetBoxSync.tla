------------------------------ MODULE NetBoxSync ------------------------------
(***************************************************************************)
(* NetBox synchronisation: POST /integrations/netbox/sync pulls the devices *)
(* of NetBox page by page, reconciles them with the rows of the devices     *)
(* table, aligns their IPAM facts, mirrors the lifecycle back to NetBox and *)
(* commits (src/gard/core/netbox_sync_controller.py, the alignment          *)
(* controller, the write-back publisher, the NetBox clients and the         *)
(* router).  Two requests may overlap; operators change NetBox, devices are *)
(* re-evaluated and requests fail or crash at any step.                     *)
(*                                                                         *)
(* PostgreSQL at READ COMMITTED and SQLAlchemy are modelled from how the    *)
(* source uses them: a query flushes pending changes, an UPDATE writes the  *)
(* columns that differ from the values loaded, rows and unique keys written *)
(* stay locked until the transaction ends, a duplicate key or a deadlock    *)
(* aborts the request with both sessions rolled back.                       *)
(***************************************************************************)
EXTENDS NetworkAlignment, LifecycleMirror, Sequences

CONSTANTS
  Rows,         \* ids of rows of the devices table, naturals
  Ids,          \* NetBox device ids, positive naturals
  Syncs,        \* sync requests
  Serials, Places,
  Verdicts,     \* postures evaluations can give, Unknown excluded
  Nets,         \* kinds of network facts a NetBox device can have
  Snap(_),      \* the snapshot each of them gives
  SiteVlans,    \* VLAN group -> VLANs NetBox has in it
  Manifests,    \* contents the alignment manifest file can have
  MgmtIp,       \* row -> management address imported with the device
  Starts,       \* initial estates: [nb, dev, edits], edits the kinds of
                \* changes operators make in the behaviours from there
  Settings,     \* [align, writeback]: alignment on, write-back active and confirmed
  PageSize, MaxDevices,
  MaxEdits, MaxEvaluations, MaxFaults,    \* bounds of the checked instance
  MaxDisturbances                         \* bound of the three together

Unnamed == "unnamed"
Edited == "edited"        \* a value only an operator writes
Foreign == "edge"         \* a tag GARD does not manage
NoRow == [exists |-> FALSE, serial |-> None, place |-> None, nbid |-> 0, align |-> Unknown]
NoRows == [r \in {} |-> NoRow]

NetBoxDevice ==
  [present : BOOLEAN, serial : Serials \cup {None}, place : Places \cup {Unnamed}, net : Nets,
   cf : [Fields -> Verdicts \cup {Empty, Unknown, Edited, "aligned", "mismatch"}],
   tags : SUBSET (ManagedTags(Verdicts) \cup {Foreign})]

DeviceRow ==
  [exists : BOOLEAN, serial : Serials \cup {None}, place : Places \cup {None},
   nbid : Ids \cup {0}, align : {Unknown, "aligned", "mismatch"}]

EditKinds == {"mirror", "serial", "place", "network", "presence"}

\* An estate the models can begin in: a row that is not there has no values.
IsStart(x) ==
  /\ x.nb \in [Ids -> NetBoxDevice]
  /\ x.dev \in [Rows -> DeviceRow] /\ \A r \in Rows : ~ x.dev[r].exists => x.dev[r] = NoRow
  /\ x.edits \subseteq EditKinds

ASSUME ConstantsAssumption ==
  /\ IsFiniteSet(Ids) /\ Ids \subseteq Nat \ {0}
  /\ None \notin Serials \cup Places /\ Unnamed \notin Places
  /\ Foreign \notin Verdicts
  /\ Settings \subseteq [align : BOOLEAN, writeback : BOOLEAN]
  /\ PageSize \in Nat \ {0} /\ MaxDevices \in Nat
  /\ MaxEdits \in Nat /\ MaxEvaluations \in Nat /\ MaxFaults \in Nat
  /\ \A x \in Starts : IsStart(x)

VARIABLES
  nb,        \* NetBox: id -> device
  dev,       \* committed rows of the devices table
  verdict,   \* row -> posture of its latest evaluation
  sync,      \* request -> its progress, session and report
  audits,    \* <<request, action>> rows committed to the audit log
  edits,     \* the kinds of changes operators make
  spent      \* how much of each bound was used

vars == <<nb, dev, verdict, sync, audits, edits, spent>>

\* f with v at x.
Put(f, x, v) == [y \in DOMAIN f \cup {x} |-> IF y = x THEN v ELSE f[y]]

Active == {"pull", "look", "flush", "align", "write", "patch", "commit"}
Ended == {"done", "failed", "crashed"}

Fresh(pc, setting) ==
  [pc |-> pc, setting |-> setting, offset |-> 0, recs |-> <<>>, k |-> 1,
   base |-> NoRows, plan |-> NoRows, locked |-> NoRows, row |-> 0,
   ipam |-> "none", drafts |-> [r \in {} |-> {}],
   todo |-> {}, told |-> [r \in {} |-> Unknown], entries |-> [r \in {} |-> "none"],
   body |-> [cf |-> <<>>, tags |-> {}], seen |-> {}, overlapped |-> FALSE]

\* The request ends; unless it was "done", both sessions are rolled back.
End(s, pc) == sync' = [sync EXCEPT ![s] = Fresh(pc, sync[s].setting)]

TypeOK ==
  /\ nb \in [Ids -> NetBoxDevice]
  /\ dev \in [Rows -> DeviceRow]
  /\ verdict \in [Rows -> Verdicts \cup {Unknown}]
  /\ \A s \in Syncs : /\ sync[s].pc \in Active \cup Ended \cup {"idle", "audit"}
                      /\ DOMAIN sync[s].plan = DOMAIN sync[s].base
                      /\ DOMAIN sync[s].locked \subseteq DOMAIN sync[s].plan
  /\ audits \subseteq Syncs \X {"completed", "failed"}
  /\ edits \subseteq EditKinds
  /\ spent \in [edits : 0..MaxEdits, evaluations : 0..MaxEvaluations, faults : 0..MaxFaults]

Init ==
  /\ \E start \in Starts : nb = start.nb /\ dev = start.dev /\ edits = start.edits
  /\ verdict = [r \in Rows |-> Unknown]
  /\ \E x \in Settings : sync = [s \in Syncs |-> Fresh("idle", x)]
  /\ audits = {}
  /\ spent = [edits |-> 0, evaluations |-> 0, faults |-> 0]

\* One more edit, evaluation or fault, within the bounds.
MaySpend(what, bound) ==
  /\ spent[what] < bound
  /\ spent.edits + spent.evaluations + spent.faults < MaxDisturbances
Spend(what, bound) == MaySpend(what, bound) /\ spent' = [spent EXCEPT ![what] = @ + 1]

-----------------------------------------------------------------------------
(* What a session sees and what blocks it.                                 *)

\* The table as s's transaction reads it.
View(s) == [r \in Rows |-> IF r \in DOMAIN sync[s].locked THEN sync[s].locked[r] ELSE dev[r]]

SameKey(a, b) ==
  /\ a.exists /\ b.exists
  /\ \/ a.serial # None /\ a.serial = b.serial
     \/ a.serial = None /\ b.serial = None /\ a.place = b.place
     \/ a.nbid # 0 /\ a.nbid = b.nbid

\* Mutant: an existing row keeps its serial.
MergedWithoutSerial(s, r) ==
  LET old == sync[s].base[r]
      new == sync[s].plan[r]
  IN [c \in DOMAIN new |-> IF new[c] # old[c] /\ (c = "serial" => ~ old.exists)
                           THEN new[c] ELSE View(s)[r][c]]

\* The row an UPDATE or INSERT leaves: changed columns over the committed row.
Merged(s, r) ==
  LET old == sync[s].base[r]
      new == sync[s].plan[r]
  IN [c \in DOMAIN new |-> IF new[c] # old[c] THEN new[c] ELSE View(s)[r][c]]

\* Mutant: nothing is locked.
NoBlockers(s) == {}

\* The requests whose uncommitted rows or keys s must wait for.
Blockers(s) ==
  IF sync[s].pc # "flush" THEN {} ELSE
  {t \in Syncs \ {s} : \E q \in DOMAIN sync[t].locked :
      \/ q = sync[s].row
      \/ SameKey(sync[t].locked[q], Merged(s, sync[s].row))
      \/ SameKey(dev[q], Merged(s, sync[s].row)) /\ sync[t].locked[q] # dev[q]}

Duplicates(s) ==
  \E q \in Rows \ {sync[s].row} : SameKey(View(s)[q], Merged(s, sync[s].row))

\* One transaction ended with a commit while another was under way.
Overlap(s) ==
  [t \in Syncs |-> IF t # s /\ sync[t].pc \in Active
                   THEN [sync[t] EXCEPT !.overlapped = TRUE] ELSE sync[t]]

-----------------------------------------------------------------------------
(* The request: trigger and pull.                                          *)

\* trigger_sync, under the settings of the deployment.
Trigger(s) ==
  /\ sync[s].pc = "idle"
  /\ sync' = [sync EXCEPT ![s].pc = "pull"]
  /\ UNCHANGED <<nb, dev, verdict, audits, edits, spent>>

\* NetBox lists its devices in the order of their ids.
Listed == {i \in Ids : nb[i].present}
Rank(i) == Cardinality({x \in Listed : x <= i})

Record(i) == [id |-> i, serial |-> nb[i].serial, place |-> nb[i].place]

\* list_devices reads one page at an offset into the list as it is now; a
\* device without a name raises a ValueError nothing catches.
PullPage(s) ==
  /\ sync[s].pc = "pull"
  /\ LET from  == sync[s].offset
         end   == Cardinality(Listed)
         last  == IF from + PageSize < end THEN from + PageSize ELSE end
     IN \E page \in [1..(last - from) -> Listed] :
          /\ \A j \in DOMAIN page : Rank(page[j]) = from + j
          /\ IF \E j \in DOMAIN page : nb[page[j]].place = Unnamed
             THEN End(s, "failed")
             ELSE LET room == MaxDevices - Len(sync[s].recs)
                      kept == IF last - from < room THEN last - from ELSE room
                      recs == sync[s].recs \o [j \in 1..kept |-> Record(page[j])]
                      over == Len(recs) >= MaxDevices \/ last <= from \/ last >= end
                  IN sync' = [sync EXCEPT ![s].recs = recs, ![s].offset = last,
                                          ![s].pc = IF ~ over THEN "pull"
                                                    ELSE IF recs = <<>> THEN "align" ELSE "look"]
  /\ UNCHANGED <<nb, dev, verdict, audits, edits, spent>>

\* NetBox does not answer: 502, the session rolled back, the failure audited.
PullFails(s) ==
  /\ sync[s].pc = "pull"
  /\ Spend("faults", MaxFaults)
  /\ End(s, "failed")
  /\ audits' = audits \cup {<<s, "failed">>}
  /\ UNCHANGED <<nb, dev, verdict, edits>>

-----------------------------------------------------------------------------
(* Reconciliation, record by record.                                       *)

\* _find_gard_device: the row linked to the record, else the row of its
\* identity: the serial, or hostname and site among rows without a serial.
\* Equality stands for the code's ILIKE: no serial or name here is a pattern.
FindRows(s, rec) ==
  LET v == View(s)
      linked == {r \in Rows : v[r].exists /\ v[r].nbid = rec.id}
      same   == {r \in Rows : v[r].exists /\ v[r].serial = rec.serial
                              /\ (rec.serial = None => v[r].place = rec.place)}
  IN IF linked # {} THEN linked ELSE same

FreeRows(s) == {r \in Rows : ~ dev[r].exists
                             /\ \A t \in Syncs : r \notin DOMAIN sync[t].plan}

AmbiguousPayload(recs) ==
  \E j, k \in DOMAIN recs : j # k /\ recs[j].serial # None /\ recs[j].serial = recs[k].serial

\* Two NetBox devices for one serial, one id or one row: 409, audited.
Ambiguous(s) ==
  /\ sync[s].pc = "look"
  /\ LET recs == sync[s].recs
         k == sync[s].k
     IN \/ AmbiguousPayload(recs)
        \/ \E j \in 1..(k - 1) : recs[j].id = recs[k].id
        \/ FindRows(s, recs[k]) \cap DOMAIN sync[s].plan # {}
  /\ End(s, "failed")
  /\ audits' = audits \cup {<<s, "failed">>}
  /\ UNCHANGED <<nb, dev, verdict, edits, spent>>

\* Loads the record's row, or prepares a new one, and copies the record.
Look(s) ==
  /\ sync[s].pc = "look"
  /\ ~ AmbiguousPayload(sync[s].recs)
  /\ LET rec   == sync[s].recs[sync[s].k]
         found == FindRows(s, rec)
     IN /\ \A j \in 1..(sync[s].k - 1) : sync[s].recs[j].id # rec.id
        /\ found \cap DOMAIN sync[s].plan = {}
        /\ \E r \in IF found # {} THEN found ELSE {x \in FreeRows(s) : \A y \in FreeRows(s) : x <= y} :
             LET old == IF found # {} THEN View(s)[r] ELSE NoRow
                 new == [old EXCEPT !.exists = TRUE, !.serial = rec.serial,
                                    !.place = rec.place, !.nbid = rec.id]
             IN sync' = [sync EXCEPT ![s].pc = "flush", ![s].row = r,
                                     ![s].base = Put(@, r, old),
                                     ![s].plan = Put(@, r, new)]
  /\ UNCHANGED <<nb, dev, verdict, audits, edits, spent>>

\* The next query flushes the row: an UPDATE of what changed, an INSERT.
Flush(s) ==
  /\ sync[s].pc = "flush"
  /\ Blockers(s) = {}
  /\ ~ Duplicates(s)
  /\ sync' = [sync EXCEPT ![s].pc = IF sync[s].k = Len(sync[s].recs) THEN "align" ELSE "look",
                          ![s].k = @ + 1, ![s].row = 0,
                          ![s].locked = Put(@, sync[s].row, Merged(s, sync[s].row))]
  /\ UNCHANGED <<nb, dev, verdict, audits, edits, spent>>

\* A duplicate key, or a deadlock PostgreSQL resolves against s: an error
\* nothing catches, both sessions rolled back.
FlushRaises(s) ==
  /\ sync[s].pc = "flush"
  /\ \/ Blockers(s) = {} /\ Duplicates(s)
     \/ \E t \in Blockers(s) : s \in Blockers(t)
  /\ End(s, "failed")
  /\ UNCHANGED <<nb, dev, verdict, audits, edits, spent>>

-----------------------------------------------------------------------------
(* IPAM alignment.                                                         *)

PulledIds(s) == {sync[s].recs[j].id : j \in DOMAIN sync[s].recs}

\* linked_devices: the rows of the batch linked to a pulled record.
Linked(s) == {r \in DOMAIN sync[s].plan : View(s)[r].nbid \in PulledIds(s)}

NbIds(s) == {sync[s].plan[r].nbid : r \in Linked(s)}

\* The devices s writes back though another request has linked their rows
\* elsewhere since s read them: s holds these rows, not these links.
Relinked(s) ==
  {sync[s].plan[r].nbid : r \in {x \in Linked(s) : /\ sync[s].overlapped
                                                  /\ View(s)[x].nbid # sync[s].plan[x].nbid}}

\* collect_device_snapshots: every device of the batch as NetBox has it now; all must answer.
Snapshots(s) == [i \in NbIds(s) |-> Snap(nb[i].net)]

\* The findings of every device.
Drafts(s, m) ==
  LET snaps == Snapshots(s)
  IN [r \in Linked(s) |-> DeviceFindings(sync[s].plan[r].nbid, MgmtIp[r], m, snaps, SiteVlans)]

\* Alignment is over; write-back follows unless it is off, not confirmed, or
\* there is no device.
Aligned(s, ipam) ==
  LET todo == IF sync[s].setting.writeback THEN Linked(s) ELSE {}
  IN [sync[s] EXCEPT !.pc = IF todo = {} THEN "commit" ELSE "write", !.todo = todo, !.ipam = ipam]

\* The session after alignment gave the rows of `drafts` their status; a
\* status equal to the one loaded is not written.
Restated(s, drafts) ==
  LET status(r) == AlignmentStatus(drafts[r])
      plan   == [r \in DOMAIN sync[s].plan |->
                   IF r \in DOMAIN drafts THEN [sync[s].plan[r] EXCEPT !.align = status(r)]
                   ELSE sync[s].plan[r]]
      locked == [r \in DOMAIN sync[s].locked |->
                   IF r \in DOMAIN drafts /\ status(r) # sync[s].base[r].align
                   THEN [sync[s].locked[r] EXCEPT !.align = status(r)] ELSE sync[s].locked[r]]
  IN [Aligned(s, "unfinished") EXCEPT !.plan = plan, !.locked = locked, !.drafts = drafts]

AlignWith(s, m) ==
  IF Linked(s) = {} THEN Aligned(s, "skipped")
  ELSE IF ~ ManifestLoads(m, Kinds) THEN Aligned(s, "failed")
  ELSE LET drafts == Drafts(s, m)
       IN [Restated(s, drafts) EXCEPT !.ipam = RunStatus(UNION {drafts[r] : r \in Linked(s)}, m)]

\* run_alignment to its end, with the manifest file of now; skipped when
\* switched off.
Align(s) ==
  /\ sync[s].pc = "align"
  /\ IF sync[s].setting.align
     THEN /\ \A i \in NbIds(s) : nb[i].present
          /\ \E m \in Manifests : sync' = [sync EXCEPT ![s] = AlignWith(s, m)]
     ELSE sync' = [sync EXCEPT ![s] = Aligned(s, "skipped")]
  /\ UNCHANGED <<nb, dev, verdict, audits, edits, spent>>

\* A NetBox read fails in the middle: run_sync reports the alignment skipped
\* and goes on, with the statuses of the devices already evaluated set, the
\* run row unfinished and no finding stored.
AlignFails(s) ==
  /\ sync[s].pc = "align"
  /\ sync[s].setting.align
  /\ Linked(s) # {}
  /\ LET gone == \E i \in NbIds(s) : ~ nb[i].present
     IN /\ IF gone THEN UNCHANGED spent ELSE Spend("faults", MaxFaults)
        /\ \E m \in {x \in Manifests : ManifestLoads(x, Kinds)} :
           \E evaluated \in IF gone THEN {{}} ELSE SUBSET Linked(s) :
             LET set == [r \in evaluated |-> Drafts(s, m)[r]]
             IN sync' = [sync EXCEPT ![s] = [Restated(s, set) EXCEPT !.drafts = [r \in {} |-> {}]]]
  /\ UNCHANGED <<nb, dev, verdict, audits, edits>>

-----------------------------------------------------------------------------
(* Write-back, one device after the other in any order.                     *)

\* Mutant: a device whose publication failed is tried again.
EntryRetried(s, r, status) ==
  IF status = "failed"
  THEN [sync[s] EXCEPT !.pc = "write", !.row = 0, !.body = [cf |-> <<>>, tags |-> {}]]
  ELSE [sync[s] EXCEPT !.pc = IF sync[s].todo = {r} THEN "commit" ELSE "write",
                       !.todo = @ \ {r}, !.entries = Put(@, r, status), !.row = 0,
                       !.body = [cf |-> <<>>, tags |-> {}]]

Entry(s, r, status) ==
  [sync[s] EXCEPT !.pc = IF sync[s].todo = {r} THEN "commit" ELSE "write",
                  !.todo = @ \ {r}, !.entries = Put(@, r, status), !.row = 0,
                  !.body = [cf |-> <<>>, tags |-> {}]]

\* The latest evaluations are read, then NetBox's values (GET); conflicting
\* and matching devices are done.
Get(s) ==
  /\ sync[s].pc = "write"
  /\ \E r \in sync[s].todo :
       LET i    == sync[s].plan[r].nbid
           want == DesiredFields(verdict[r], sync[s].plan[r].align)
           tags == ReconciledTags(nb[i].tags, DesiredTags(verdict[r], sync[s].plan[r].align), Verdicts)
           todo == EntryDecision(nb[i].cf, nb[i].tags, want, tags)
           read == [IF todo = "patch"
                    THEN [sync[s] EXCEPT !.pc = "patch", !.row = r,
                                         !.body = [cf |-> IF nb[i].cf = want THEN <<>> ELSE want,
                                                   tags |-> IF nb[i].tags = tags THEN {} ELSE tags]]
                    ELSE Entry(s, r, todo)
                    EXCEPT !.told = Put(@, r, verdict[r]), !.seen = @ \cup {i}]
       IN sync' = [sync EXCEPT ![s] = IF nb[i].present THEN read ELSE Entry(s, r, "failed")]
  /\ UNCHANGED <<nb, dev, verdict, audits, edits, spent>>

\* Mutant: the fields are sent even when only tags changed.
PatchedEmpty(s) ==
  LET i == sync[s].plan[sync[s].row].nbid
      b == sync[s].body
  IN [nb EXCEPT ![i].cf = b.cf, ![i].tags = IF b.tags = {} THEN @ ELSE b.tags]

\* What NetBox holds after the PATCH: all the fields or none, the whole list
\* of tags or none.
Patched(s) ==
  LET i == sync[s].plan[sync[s].row].nbid
      b == sync[s].body
  IN [nb EXCEPT ![i].cf = IF b.cf = <<>> THEN @ ELSE b.cf,
                ![i].tags = IF b.tags = {} THEN @ ELSE b.tags]

\* The request s after the publication of its device; two requests that
\* write to one device because a link was lost outdate what they saw of it.
Published(s, status) ==
  LET i == sync[s].plan[sync[s].row].nbid
  IN [t \in Syncs |-> IF t = s THEN Entry(s, sync[s].row, status)
                      ELSE IF i \in Relinked(s) \cup Relinked(t)
                           THEN [sync[t] EXCEPT !.seen = @ \ {i}] ELSE sync[t]]

Patch(s) ==
  /\ sync[s].pc = "patch"
  /\ LET ok == nb[sync[s].plan[sync[s].row].nbid].present
     IN /\ nb' = IF ok THEN Patched(s) ELSE nb
        /\ sync' = Published(s, IF ok THEN "updated" ELSE "failed")
  /\ UNCHANGED <<dev, verdict, audits, edits, spent>>

\* The PATCH or its answer is lost: the entry fails, NetBox may have changed.
PatchFails(s) ==
  /\ sync[s].pc = "patch"
  /\ Spend("faults", MaxFaults)
  /\ nb[sync[s].plan[sync[s].row].nbid].present
  /\ nb' \in {nb, Patched(s)}
  /\ sync' = Published(s, "failed")
  /\ UNCHANGED <<dev, verdict, audits, edits>>

\* session.commit() publishes the rows; audit_session.commit() follows.
Commit(s) ==
  /\ sync[s].pc = "commit"
  /\ dev' = View(s)
  /\ sync' = [Overlap(s) EXCEPT ![s] = Fresh("audit", sync[s].setting)]
  /\ UNCHANGED <<nb, verdict, audits, edits, spent>>

AuditCommit(s) ==
  /\ sync[s].pc = "audit"
  /\ audits' = audits \cup {<<s, "completed">>}
  /\ End(s, "done")
  /\ UNCHANGED <<nb, dev, verdict, edits, spent>>

\* The process or its database connection dies.
Crash(s) ==
  /\ sync[s].pc \in Active \cup {"audit"}
  /\ Spend("faults", MaxFaults)
  /\ End(s, "crashed")
  /\ UNCHANGED <<nb, dev, verdict, audits, edits>>

-----------------------------------------------------------------------------
(* The environment.                                                        *)

\* Whatever an operator changes on a device outdates what requests saw of it.
Unseen(i) == [s \in Syncs |-> [sync[s] EXCEPT !.seen = @ \ {i}]]

EditsOf(i, kind) ==
  CASE kind = "mirror" ->
         {[nb[i] EXCEPT !.cf[f] = v] : f \in Fields, v \in {Edited, Empty}}
           \cup {[nb[i] EXCEPT !.tags = @ \cup {Foreign}], [nb[i] EXCEPT !.tags = {}]}
    [] kind = "serial"  -> {[nb[i] EXCEPT !.serial = x] : x \in Serials \cup {None}}
    [] kind = "place"   -> {[nb[i] EXCEPT !.place = x] : x \in Places \cup {Unnamed}}
    [] kind = "network" -> {[nb[i] EXCEPT !.net = x] : x \in Nets}
    [] kind = "presence" -> {[nb[i] EXCEPT !.present = ~ @]}

\* An operator edits, removes or adds a NetBox device.
Operator ==
  /\ Spend("edits", MaxEdits)
  /\ \E i \in Ids, kind \in edits :
       /\ nb[i].present \/ kind = "presence"
       /\ \E x \in EditsOf(i, kind) \ {nb[i]} : nb' = [nb EXCEPT ![i] = x]
       /\ sync' = Unseen(i)
  /\ UNCHANGED <<dev, verdict, audits, edits>>

\* A compliance or readiness evaluation gives a device another posture.
Evaluate ==
  /\ Spend("evaluations", MaxEvaluations)
  /\ \E r \in Rows, v \in Verdicts :
       /\ dev[r].exists /\ verdict[r] # v
       /\ verdict' = [verdict EXCEPT ![r] = v]
  /\ UNCHANGED <<nb, dev, sync, audits, edits>>

SyncStep(s) ==
  \/ PullPage(s) \/ Ambiguous(s) \/ Look(s) \/ Flush(s) \/ FlushRaises(s)
  \/ Align(s) \/ AlignFails(s) \/ Get(s) \/ Patch(s) \/ Commit(s) \/ AuditCommit(s)

Next ==
  \/ \E s \in Syncs : Trigger(s) \/ SyncStep(s) \/ PullFails(s) \/ PatchFails(s) \/ Crash(s)
  \/ Operator
  \/ Evaluate

\* Every request runs on a thread of its own and every call it makes has a
\* timeout; nothing obliges anybody to trigger one.
Spec == Init /\ [][Next]_vars /\ WF_vars(\E s \in Syncs : SyncStep(s))

-----------------------------------------------------------------------------
(* Properties.                                                             *)

\* Every NetBox device a request pulled is linked to exactly one row that
\* carries its serial and place once the request commits, whatever rows were
\* matched, created or relinked on the way, provided no other request
\* committed while it ran.
QuietSyncLinksRecords ==
  [][\A s \in Syncs :
       (sync[s].pc = "commit" /\ sync'[s].pc = "audit" /\ ~ sync[s].overlapped) =>
         \A j \in DOMAIN sync[s].recs :
           LET rec == sync[s].recs[j]
               of  == {r \in Rows : dev'[r].nbid = rec.id}
           IN /\ Cardinality(of) = 1
              /\ \A r \in of : dev'[r].serial = rec.serial /\ dev'[r].place = rec.place]_vars

\* The status a finished alignment commits is the one its stored findings
\* give: a device is a mismatch exactly when an open finding says so.
QuietRunBacksStatus ==
  [][\A s \in Syncs :
       (/\ sync[s].pc = "commit" /\ sync'[s].pc = "audit" /\ ~ sync[s].overlapped
        /\ sync[s].ipam \in {"completed", "partial"}) =>
         \A r \in DOMAIN sync[s].drafts :
           (dev'[r].align = "mismatch") <=> \E f \in sync[s].drafts[r] : f.open]_vars

\* Write-back loses an operator's field value or foreign tag only when the
\* edit came after the GET of that request: never one it could have seen.
OperatorEditsSurvive ==
  [][\A i \in Ids :
       (/\ spent'.edits = spent.edits
        /\ \/ \E f \in Fields : nb[i].cf[f] = Edited /\ nb'[i].cf[f] # Edited
           \/ Foreign \in nb[i].tags \ nb'[i].tags) =>
         \E s \in Syncs : sync[s].pc = "patch" /\ i \notin sync[s].seen]_vars

\* The locks on the reconciled rows keep two requests from writing back the
\* same NetBox device at the same time, unless other requests committed
\* meanwhile and linked the row of one of them to another device.
OneWriterPerDevice ==
  \A s, t \in Syncs :
    (s # t /\ {sync[s].pc, sync[t].pc} \subseteq {"write", "patch", "commit"}) =>
      NbIds(s) \cap NbIds(t) \subseteq Relinked(s) \cup Relinked(t)

\* A device reported updated or unchanged shows in NetBox the posture read
\* and the alignment decided, and its managed tags follow them, until an
\* operator touches it, or a request that lost its link to the device.
MirroredEntriesHold ==
  \A s \in Syncs : \A r \in DOMAIN sync[s].entries :
    LET i == sync[s].plan[r].nbid
        align == sync[s].plan[r].align
    IN (sync[s].entries[r] \in {"updated", "unchanged"} /\ i \in sync[s].seen) =>
         /\ nb[i].cf = DesiredFields(sync[s].told[r], align)
         /\ nb[i].tags \cap ManagedTags(Verdicts) = DesiredTags(sync[s].told[r], align)

\* Every request ends, also when two of them wait for each other's rows.
SyncEnds == []<>(\A s \in Syncs : sync[s].pc \in Ended \cup {"idle"})

=============================================================================
