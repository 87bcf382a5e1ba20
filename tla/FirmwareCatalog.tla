---------------------------- MODULE FirmwareCatalog ----------------------------
(***************************************************************************)
(* The firmware catalogue between three stores: YAML files in a git work    *)
(* tree, the catalogue tables, and the package blobs on disk                *)
(* (src/gard/catalog/firmware_loader.py, core/firmware_catalog_controller,  *)
(* core/catalog_editor, core/blob_store and their routers).  Processes boot *)
(* and reload, operators edit files through the API and upload packages,    *)
(* the tree is pulled, processes die; any of these may overlap.             *)
(*                                                                         *)
(* An entry of a file is its natural key and one value that stands for all  *)
(* its other fields, for a package its checksum.  A file is broken when it  *)
(* lacks a schema version, as an empty one does.  The look-ups of a reload   *)
(* for one kind of entry are one step, its writes another; of the           *)
(* evaluation of devices that follows, which is DeviceEvaluation's, only the *)
(* database errors are kept.  PostgreSQL at READ COMMITTED: rows and keys    *)
(* written stay locked until the transaction ends, an UPDATE writes the      *)
(* columns that differ from the values loaded.                               *)
(***************************************************************************)
EXTENDS Integers, Sequences, FiniteSets

CONSTANTS
  Requests,      \* 1..n, numbered in the order in which they begin
  Keys,          \* natural keys of catalogue entries
  KindOf(_),     \* the kind of an entry with that key
  Vals,          \* what an entry can say
  Files,         \* relative paths
  KindOfFile(_),
  EditedFile(_), \* where the editor writes an entry of that key
  Starts,        \* [tree, rows, store, prod, editor, ops, trees, bound]: an
                 \* initial state, the deployment, what requests ask for there,
                 \* which commits are checked out, and how many requests,
                 \* checkouts and faults the checked instance has at most
  Copies         \* 1..m, numbers of the rows of one natural key

VARIABLES
  disk,      \* file -> content in the work tree
  head,      \* file -> content in the commit checked out
  rows,      \* <<key, copy>> -> committed row
  store,     \* checksums whose blob is on disk
  req,       \* request -> progress and session
  rules,     \* the request that holds the rows of the normalization rules
  audits,    \* <<request, action>> rows committed to the audit log
  committed, \* requests whose transaction has committed
  setting,   \* the start this behaviour has
  spent      \* how much of each bound was used

vars == <<disk, head, rows, store, req, rules, audits, committed, setting, spent>>

None == "none"
Nobody == 0
Kinds == <<"target", "package", "edge", "prerequisite">>
Slots == Keys \X Copies
NoRow == [val |-> None, live |-> FALSE, file |-> None, blob |-> FALSE]
NoRows == [s \in {} |-> NoRow]
Absent == [state |-> "absent", entries |-> {}]
Broken == [state |-> "broken", entries |-> {}]

NoOp == [kind |-> None, key |-> None, val |-> None, reload |-> FALSE]
Idle == [pc |-> "idle", op |-> NoOp, doc |-> Absent, k |-> 1, slot |-> None,
         base |-> NoRows, plan |-> NoRows, locked |-> NoRows,
         deltas |-> {}, failed |-> FALSE, quiet |-> TRUE]

Ended == {"done", "failed", "undone", "crashed"}
InTransaction == {"read", "flush", "commit", "store", "storing", "flag", "audit first", "commit last"}

Content == [state : {"absent", "broken", "sound"},
            entries : SUBSET [key : Keys, val : Vals]]
Row == [val : Vals \cup {None}, live : BOOLEAN, file : Files \cup {None}, blob : BOOLEAN]
Op == [kind : {"boot", "reload", "edit", "upload"}, key : Keys \cup {None},
       val : Vals \cup {None}, reload : BOOLEAN]
Kept == {"requests", "pulls", "faults"}

\* A file declares entries of its own kind.
IsTree(t) ==
  /\ t \in [Files -> Content]
  /\ \A f \in Files : t[f].state = "absent" => t[f] = Absent
  /\ \A f \in Files : \A e \in t[f].entries : KindOf(e.key) = KindOfFile(f)

\* The row of an entry names a file of its kind.
IsRowOf(s, row) ==
  /\ row.val = None => row = NoRow
  /\ row.val # None => row.file \in Files /\ KindOfFile(row.file) = KindOf(s[1])

\* The editor writes targets and edges; bytes belong to packages.  Tables
\* start with at most one row for a key, as reloads that did not race leave
\* them.
IsStart(x) ==
  /\ \A t \in x.trees \cup {x.tree} : IsTree(t)
  /\ x.rows \in [Slots -> Row] /\ \A s \in Slots : IsRowOf(s, x.rows[s])
  /\ \A s, t \in Slots : (x.rows[s].val # None /\ x.rows[t].val # None /\ s[1] = t[1]) => s = t
  /\ x.store \subseteq Vals /\ x.prod \in BOOLEAN /\ x.editor \in BOOLEAN
  /\ x.ops \subseteq Op /\ x.bound \in [Kept -> Nat]
  /\ \A op \in x.ops :
       /\ op.kind \in {"edit", "upload"} => op.key \in Keys /\ op.val \in Vals
       /\ op.kind = "edit" => /\ EditedFile(op.key) \in Files
                              /\ KindOfFile(EditedFile(op.key)) = KindOf(op.key)
       /\ op.kind = "upload" => KindOf(op.key) = "package"

ASSUME ConstantsAssumption ==
  /\ Requests \subseteq Nat \ {Nobody} /\ Copies \subseteq Nat
  /\ None \notin Vals \cup Files
  /\ \A key \in Keys : \E i \in DOMAIN Kinds : KindOf(key) = Kinds[i]
  /\ \A x \in Starts : IsStart(x)

TypeOK ==
  /\ \A f \in Files : disk[f] \in Content /\ head[f] \in Content
  /\ rows \in [Slots -> Row]
  /\ \A s \in Slots : rows[s].live => rows[s].val # None /\ KindOfFile(rows[s].file) = KindOf(s[1])
  /\ \A s, t \in Slots : (s # t /\ rows[s].live /\ rows[t].live) => s[1] # t[1]
  /\ store \subseteq Vals
  /\ \A r \in Requests : /\ req[r].pc \in InTransaction \cup Ended
                              \cup {"idle", "open", "truncate", "write", "rules", "audit", "audit lost"}
                         /\ DOMAIN req[r].plan = DOMAIN req[r].base
                         /\ DOMAIN req[r].locked \subseteq Slots
  /\ rules \in Requests \cup {Nobody}
  /\ audits \subseteq Requests \X {"reloaded", "reload_failed", "blob_stored"}
  /\ committed \subseteq Requests
  /\ setting \in Starts
  /\ \A what \in DOMAIN spent : spent[what] \in 0..setting.bound[what]

Init ==
  /\ setting \in Starts
  /\ head = setting.tree /\ disk = setting.tree
  /\ rows = setting.rows
  /\ store = setting.store
  /\ req = [r \in Requests |-> Idle]
  /\ rules = Nobody /\ audits = {} /\ committed = {}
  /\ spent = [requests |-> 0, pulls |-> 0, faults |-> 0]

Spend(what) ==
  /\ spent[what] < setting.bound[what]
  /\ spent' = [spent EXCEPT ![what] = @ + 1]

\* Mutant: a request that fails keeps the rows of the rules.
ReleasedOnSuccess(r) == IF rules = r /\ req[r].pc = "commit" THEN Nobody ELSE rules
\* The end of r's transaction releases what it locked.
Released(r) == IF rules = r THEN Nobody ELSE rules

\* r's transaction is over; nothing of its session is left.
End(r, pc) ==
  /\ req' = [req EXCEPT ![r] = [Idle EXCEPT !.pc = pc, !.op = req[r].op]]
  /\ rules' = Released(r)

\* The others, after a commit or a change of files that they did not see.
Disturbed(r) ==
  [q \in Requests |-> IF q # r /\ req[q].pc \in InTransaction
                      THEN [req[q] EXCEPT !.quiet = FALSE] ELSE req[q]]

-----------------------------------------------------------------------------
(* What a session sees and what blocks it.                                 *)

View(r) == [s \in Slots |-> IF s \in DOMAIN req[r].locked THEN req[r].locked[s] ELSE rows[s]]

\* Two sets of rows, where the first has precedence.
Overlay(f, g) == [s \in DOMAIN f \cup DOMAIN g |-> IF s \in DOMAIN f THEN f[s] ELSE g[s]]

\* The row that an UPDATE of the changed columns, or an INSERT, leaves.
Merged(r, s) ==
  [c \in DOMAIN NoRow |-> IF req[r].plan[s][c] # req[r].base[s][c]
                          THEN req[r].plan[s][c] ELSE View(r)[s][c]]

\* The rows a flush writes: those planned and changed, not yet written.
Dirty(r) == {s \in DOMAIN req[r].plan \ DOMAIN req[r].locked :
               req[r].plan[s] # req[r].base[s]}

\* Others that hold one of these rows or one of their unique keys.
Blockers(r) ==
  {q \in Requests \ {r} : \E s \in Dirty(r), t \in DOMAIN req[q].locked :
     s = t \/ (s[1] = t[1] /\ (rows[t].live \/ req[q].locked[t].live))}

\* Mutant: nothing keeps the live rows of a key apart.
NoDuplicates(r) == FALSE
\* The partial unique index of each table: one live row for a natural key.
Duplicates(r) ==
  \E s \in Dirty(r) : /\ Merged(r, s).live
                      /\ \E t \in Slots \ {s} : t[1] = s[1] /\ View(r)[t].live

-----------------------------------------------------------------------------
(* The editor: files are read, truncated and written.                       *)

\* A request arrives; an upload looks its package up.
Begin(r) ==
  /\ req[r].pc = "idle"
  /\ r = spent.requests + 1
  /\ Spend("requests")
  /\ \E op \in setting.ops :
       \/ /\ op.kind = "boot"
          /\ req' = [req EXCEPT ![r].op = op, ![r].pc = "rules"]
       \/ /\ op.kind = "reload" /\ setting.editor
          /\ req' = [req EXCEPT ![r].op = op, ![r].pc = "rules"]
       \/ /\ op.kind = "edit" /\ setting.editor
          /\ req' = [req EXCEPT ![r].op = op, ![r].pc = "open"]
       \/ /\ op.kind = "upload"
          /\ \E s \in Slots :
               /\ s[1] = op.key /\ rows[s].live
               /\ req' = [req EXCEPT ![r].op = op, ![r].pc = "store", ![r].slot = s,
                                     ![r].base = [x \in {s} |-> rows[x]],
                                     ![r].plan = [x \in {s} |-> [rows[x] EXCEPT !.blob = TRUE]]]
  /\ UNCHANGED <<disk, head, rows, store, rules, audits, committed, setting>>

Entry(op) == [key |-> op.key, val |-> op.val]

\* The document to write: one target, or the edges read and one more.  What
\* lacks a schema version still does afterwards.
NewDoc(op, old) ==
  IF KindOf(op.key) = "edge" /\ old # Absent
  THEN [old EXCEPT !.entries = @ \cup {Entry(op)}]
  ELSE [state |-> "sound", entries |-> {Entry(op)}]

\* upsert_firmware_target, add_upgrade_path_edge up to opening the file for
\* writing; an edge declared already is refused with 400.
Open(r) ==
  /\ req[r].pc = "open"
  /\ LET op  == req[r].op
         old == disk[EditedFile(op.key)]
     IN IF KindOf(op.key) = "edge" /\ \E e \in old.entries : e.key = op.key
        THEN End(r, "failed")
        ELSE /\ req' = [req EXCEPT ![r].doc = NewDoc(op, old), ![r].pc = "truncate"]
             /\ UNCHANGED rules
  /\ UNCHANGED <<disk, head, rows, store, audits, committed, setting, spent>>

\* write_text empties the file first.
Truncate(r) ==
  /\ req[r].pc = "truncate"
  /\ disk' = [disk EXCEPT ![EditedFile(req[r].op.key)] = Broken]
  /\ req' = [Disturbed(r) EXCEPT ![r].pc = "write"]
  /\ UNCHANGED <<head, rows, store, rules, audits, committed, setting, spent>>

Write(r) ==
  /\ req[r].pc = "write"
  /\ disk' = [disk EXCEPT ![EditedFile(req[r].op.key)] = req[r].doc]
  /\ req' = [Disturbed(r) EXCEPT ![r].doc = Absent,
                                 ![r].pc = IF req[r].op.reload THEN "rules" ELSE "done"]
  /\ UNCHANGED <<head, rows, store, rules, audits, committed, setting, spent>>

-----------------------------------------------------------------------------
(* The reload.                                                             *)

\* A tracked file differs from its commit.
Modified == \E f \in Files : head[f] # Absent /\ disk[f] # head[f]

\* Mutant: a boot gives up like a request.
RefusedSilently(r) == End(r, "failed")

\* A load that fails: the request rolls both sessions back and answers 400;
\* a boot rolls the catalogue back and commits the reload_failed row.
Refused(r) ==
  IF req[r].op.kind = "boot"
  THEN /\ req' = [req EXCEPT ![r] = [Idle EXCEPT !.pc = "audit", !.op = req[r].op, !.failed = TRUE]]
       /\ UNCHANGED rules
  ELSE End(r, "failed")

\* load_catalog writes the rows of all normalization rules, which serialises
\* requests; a boot commits them before it loads.  Production refuses a
\* modified tree.
Start(r) ==
  /\ req[r].pc = "rules"
  /\ rules = Nobody
  /\ IF setting.prod /\ Modified THEN Refused(r)
     ELSE /\ req' = [req EXCEPT ![r].pc = "read"]
          /\ rules' = IF req[r].op.kind = "boot" THEN Nobody ELSE r
  /\ UNCHANGED <<disk, head, rows, store, audits, committed, setting, spent>>

FilesOf(kind) == {f \in Files : KindOfFile(f) = kind}

\* Every entry the files of a kind declare, with its file.
Declared(kind) ==
  UNION {{[key |-> e.key, val |-> e.val, file |-> f] : e \in disk[f].entries} : f \in FilesOf(kind)}

\* The rows a look-up by natural key may return, removed ones included, or
\* the row to insert.
Lookup(r, key) ==
  LET known == {c \in Copies : View(r)[<<key, c>>].val # None}
      taken == {c \in Copies : \E q \in Requests : <<key, c>> \in DOMAIN req[q].plan}
      free  == Copies \ (known \cup taken)
  IN IF known # {} THEN known ELSE {c \in free : \A d \in free : c <= d}

\* Mutant: a package may change its checksum.
AnyChecksum(old, d) == FALSE
\* A live package is not given another checksum.
Conflict(old, d) == KindOf(d.key) = "package" /\ old.live /\ old.val # d.val

Loaded(old, d) == [old EXCEPT !.val = d.val, !.live = TRUE, !.file = d.file]

\* Mutant: a row that comes back unaltered counts as unchanged.
ChangedFields(old, d) == old.val # d.val \/ old.file # d.file
Changed(old, d) == ~ old.live \/ old.val # d.val \/ old.file # d.file

\* Mutant: edges, too, are kept as long as their file is there.
StaleByFile(r, kind, decl) ==
  {s \in Slots : /\ KindOf(s[1]) = kind /\ View(r)[s].live
                 /\ s[1] \notin {d.key : d \in decl} /\ disk[View(r)[s].file] = Absent}

\* Live rows to remove: those of files that are gone; an edge also when no
\* file declares it any more.
Stale(r, kind, decl) ==
  {s \in Slots : /\ KindOf(s[1]) = kind /\ View(r)[s].live
                 /\ s[1] \notin {d.key : d \in decl}
                 /\ kind = "edge" \/ disk[View(r)[s].file] = Absent}

\* The kinds are loaded in a fixed order.
Onward(q) == IF q.k < Len(Kinds) THEN [q EXCEPT !.pc = "read", !.k = @ + 1]
             ELSE [q EXCEPT !.pc = "commit"]

EntryFor(decl, key) == CHOOSE d \in decl : d.key = key

\* What a look-up's row is to become: what its entry says, or removed.
Planned(r, decl, picked, s) ==
  IF s \in picked THEN Loaded(View(r)[s], EntryFor(decl, s[1]))
  ELSE [View(r)[s] EXCEPT !.live = FALSE]

\* The session with the rows of a kind, as they are and as they are to
\* become, and with what will be audited.
WithPlan(r, decl, picked, stale) ==
  LET loaded == {s \in picked : Changed(View(r)[s], EntryFor(decl, s[1]))}
  IN [req[r] EXCEPT
        !.base = Overlay(@, [s \in picked \cup stale |-> View(r)[s]]),
        !.plan = Overlay(@, [s \in picked \cup stale |-> Planned(r, decl, picked, s)]),
        !.deltas = @ \cup {<<s, "loaded">> : s \in loaded} \cup {<<s, "removed">> : s \in stale}]

\* An empty or repeated declaration makes the whole kind fail.
Unloadable(kind, decl) ==
  \/ \E d, e \in decl : d # e /\ d.key = e.key
  \/ \E f \in FilesOf(kind) : disk[f].state = "broken"

\* One of _load_targets, _load_packages, _load_upgrade_paths and
\* _load_prerequisites: files in, look-ups, planned rows and deltas out.
Load(r, kind, decl) ==
  \E copy \in [{d.key : d \in decl} -> Copies] :
    LET picked == {<<d.key, copy[d.key]>> : d \in decl}
        stale  == Stale(r, kind, decl)
        same   == \A s \in picked \cup stale : Planned(r, decl, picked, s) = View(r)[s]
        q      == WithPlan(r, decl, picked, stale)
    IN /\ \A d \in decl : copy[d.key] \in Lookup(r, d.key)
       /\ IF \E s \in picked : Conflict(View(r)[s], EntryFor(decl, s[1])) THEN Refused(r)
          ELSE /\ req' = [req EXCEPT ![r] = IF same THEN Onward(q) ELSE [q EXCEPT !.pc = "flush"]]
               /\ UNCHANGED rules

Read(r) ==
  /\ req[r].pc = "read"
  /\ LET kind == Kinds[req[r].k]
         decl == Declared(kind)
     IN IF Unloadable(kind, decl) THEN Refused(r) ELSE Load(r, kind, decl)
  /\ UNCHANGED <<disk, head, rows, store, audits, committed, setting, spent>>

\* The session after its changed rows are written.
Written(r) ==
  [req[r] EXCEPT !.locked = Overlay(@, [s \in Dirty(r) |-> Merged(r, s)])]

\* The rows of the kind are written, once nobody else holds them.
Flush(r) ==
  /\ req[r].pc = "flush"
  /\ Blockers(r) = {}
  /\ ~ Duplicates(r)
  /\ req' = [req EXCEPT ![r] = Onward(Written(r))]
  /\ UNCHANGED <<disk, head, rows, store, rules, audits, committed, setting, spent>>

\* Another reload has inserted the row: an error nothing catches.
FlushRaises(r) ==
  /\ req[r].pc = "flush"
  /\ Blockers(r) = {}
  /\ Duplicates(r)
  /\ End(r, "failed")
  /\ UNCHANGED <<disk, head, rows, store, audits, committed, setting, spent>>

\* session.commit(), then audit_session.commit().
Commit(r) ==
  /\ req[r].pc = "commit"
  /\ rows' = View(r)
  /\ committed' = committed \cup {r}
  /\ req' = [Disturbed(r) EXCEPT ![r] = [Idle EXCEPT !.pc = "audit", !.op = req[r].op]]
  /\ rules' = Released(r)
  /\ UNCHANGED <<disk, head, store, audits, setting, spent>>

AuditCommit(r) ==
  /\ req[r].pc \in {"audit", "audit lost"}
  /\ audits' = audits \cup {<<r, IF req[r].failed THEN "reload_failed" ELSE "reloaded">>}
  /\ End(r, IF req[r].pc = "audit" THEN "done" ELSE "undone")
  /\ UNCHANGED <<disk, head, rows, store, committed, setting, spent>>

-----------------------------------------------------------------------------
(* The upload of a package's bytes.  Its op.val is the checksum of what the *)
(* client sends.                                                           *)

Checksum(r) == req[r].base[req[r].slot].val

\* LocalFsBlobStore.put: bytes that are there already are not looked at;
\* another writer of the same checksum means 409.
PutBegins(r) ==
  /\ req[r].pc = "store"
  /\ IF Checksum(r) \in store
     THEN req' = [req EXCEPT ![r].pc = "flag"] /\ UNCHANGED rules
     ELSE IF \E q \in Requests : req[q].pc = "storing" /\ Checksum(q) = Checksum(r)
     THEN End(r, "failed")
     ELSE req' = [req EXCEPT ![r].pc = "storing"] /\ UNCHANGED rules
  /\ UNCHANGED <<disk, head, rows, store, audits, committed, setting, spent>>

\* Mutant: the bytes are not compared with the checksum.
AnyBytes(r) == TRUE
Verified(r) == req[r].op.val = Checksum(r)

\* The temporary file is renamed when its digest is right; else 422.
PutEnds(r) ==
  /\ req[r].pc = "storing"
  /\ IF Verified(r)
     THEN /\ store' = store \cup {req[r].op.val}
          /\ req' = [req EXCEPT ![r].pc = "flag"]
          /\ UNCHANGED rules
     ELSE End(r, "failed") /\ UNCHANGED store
  /\ UNCHANGED <<disk, head, rows, audits, committed, setting, spent>>

Flag(r) ==
  /\ req[r].pc = "flag"
  /\ Blockers(r) = {}
  /\ req' = [req EXCEPT ![r] = [Written(r) EXCEPT !.pc = "audit first"]]
  /\ UNCHANGED <<disk, head, rows, store, rules, audits, committed, setting, spent>>

\* The dependencies end in reverse order: the audit session commits first.
UploadAudit(r) ==
  /\ req[r].pc = "audit first"
  /\ audits' = audits \cup {<<r, "blob_stored">>}
  /\ req' = [req EXCEPT ![r].pc = "commit last"]
  /\ UNCHANGED <<disk, head, rows, store, rules, committed, setting, spent>>

UploadCommit(r) ==
  /\ req[r].pc = "commit last"
  /\ rows' = View(r)
  /\ committed' = committed \cup {r}
  /\ req' = [Disturbed(r) EXCEPT ![r] = [Idle EXCEPT !.pc = "done", !.op = req[r].op]]
  /\ UNCHANGED <<disk, head, store, rules, audits, setting, spent>>

-----------------------------------------------------------------------------
(* The environment.                                                        *)

\* Another commit is checked out, unless it changes files modified here.
Pull ==
  /\ Spend("pulls")
  /\ \E t \in setting.trees \ {head} :
       /\ \A f \in Files : t[f] # head[f] => disk[f] = head[f]
       /\ head' = t
       /\ disk' = [f \in Files |-> IF t[f] # head[f] THEN t[f] ELSE disk[f]]
  /\ req' = Disturbed(Nobody)
  /\ UNCHANGED <<rows, store, rules, audits, committed, setting>>

\* The process dies; what it wrote to disk stays.
Crash(r) ==
  /\ req[r].pc \notin Ended \cup {"idle"}
  /\ Spend("faults")
  /\ End(r, "crashed")
  /\ UNCHANGED <<disk, head, rows, store, audits, committed, setting>>

\* A database error after the load, whose audit rows are in the audit session
\* by then, or at the commit.  A request gives up both sessions; a boot gives up
\* the catalogue and commits the audit session, which has a row if a row of the
\* catalogue changed.  An error that the evaluation swallows turns the COMMIT
\* into a ROLLBACK that nobody notices.
Undone(r) ==
  /\ req[r].pc = "commit"
  /\ Spend("faults")
  /\ \/ /\ req[r].op.kind = "boot" => req[r].deltas = {}
        /\ End(r, "undone")
     \/ End(r, "audit lost")
  /\ UNCHANGED <<disk, head, rows, store, audits, committed, setting>>

Step(r) ==
  \/ Open(r) \/ Truncate(r) \/ Write(r)
  \/ Start(r) \/ Read(r) \/ Flush(r) \/ FlushRaises(r) \/ Commit(r) \/ AuditCommit(r)
  \/ PutBegins(r) \/ PutEnds(r) \/ Flag(r) \/ UploadAudit(r) \/ UploadCommit(r)

Next ==
  \/ \E r \in Requests : Begin(r) \/ Step(r) \/ Crash(r) \/ Undone(r)
  \/ Pull

\* Every request runs on a thread of its own; nobody has to send one.
Spec == Init /\ [][Next]_vars /\ WF_vars(\E r \in Requests : Step(r))

-----------------------------------------------------------------------------
(* Properties.                                                             *)

Reloads(r) == req[r].pc = "commit" /\ req'[r].pc = "audit"

\* A reload during which nobody committed and no file changed leaves the
\* tables serving the tree: one live row for every entry, saying what the
\* entry says, no live edge without an entry, no live row without a file.
\* A target renamed inside its file keeps its old row, which is why live
\* rows are compared with files and not with entries.
QuietReloadServesTree ==
  [][\A r \in Requests : (Reloads(r) /\ req[r].quiet) =>
       /\ \A f \in Files : \A e \in disk[f].entries :
            \E s \in Slots : /\ s[1] = e.key /\ rows'[s].live
                             /\ rows'[s].val = e.val /\ rows'[s].file = f
       /\ \A s \in Slots : rows'[s].live =>
            /\ disk[rows'[s].file] # Absent
            /\ KindOf(s[1]) = "edge" => s[1] \in {e.key : e \in disk[rows'[s].file].entries}]_vars

\* Such a reload audits exactly the rows it changes: one that finds nothing
\* new is silent.
QuietReloadAudited ==
  [][\A r \in Requests : (Reloads(r) /\ req[r].quiet) =>
       {d[1] : d \in req[r].deltas} = {s \in Slots : rows'[s] # rows[s]}]_vars

\* Without an overlapping commit the checksum of a package changes only
\* across its removal, whichever files declare it.
ChecksumChangesByRemoval ==
  [][\A r \in Requests : (Reloads(r) /\ req[r].quiet) =>
       \A s \in Slots : (KindOf(s[1]) = "package" /\ rows[s].live) => rows'[s].val = rows[s].val]_vars

\* What the audit log says of a request is what became of its transaction,
\* up to a crash between the two commits of an upload and to a database error
\* after the load of a reload; a boot that ended by itself left a row, unless
\* a concurrent insert or such an error made it fail.
AuditTellsOutcome ==
  \A r \in Requests :
    /\ <<r, "reloaded">> \in audits => r \in committed \/ req[r].pc = "undone"
    /\ req[r].pc = "undone" => r \notin committed
    /\ <<r, "reload_failed">> \in audits => r \notin committed
    /\ <<r, "blob_stored">> \in audits => r \in committed \/ req[r].pc \in {"commit last", "crashed"}
    /\ (req[r].pc = "failed" /\ req[r].op.kind = "boot") =>
         \E q \in committed : q # r /\ req[q].op.kind # "upload"

\* An upload that nothing overlapped leaves a package whose bytes can be
\* downloaded.
QuietUploadServable ==
  [][\A r \in Requests : (req[r].pc = "commit last" /\ req'[r].pc = "done" /\ req[r].quiet) =>
       LET row == rows'[req[r].slot] IN row.live /\ row.blob /\ row.val \in store]_vars

\* Every request ends: no reload or upload waits for ever for another's
\* rows, keys or rules.
RequestsEnd == []<>(\A r \in Requests : req[r].pc \in Ended \cup {"idle"})

=============================================================================
