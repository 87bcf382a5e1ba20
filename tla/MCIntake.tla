------------------------------- MODULE MCIntake -------------------------------
(* Values for model checking Intake: six files, of which one is no CSV, up to *)
(* four devices, one or two processes.                                      *)
EXTENDS Intake, TLC

\* "_" is a hostname in which ILIKE sees a wildcard.
MCLike(pattern, value) == value # None /\ pattern \in {value, "_"}

ARow(serial, place, raw, fact) ==
  [valid |-> TRUE, serial |-> serial, place |-> place, raw |-> raw, fact |-> fact]
Bad == [ARow(None, "p", "A", None) EXCEPT !.valid = FALSE]

MCRowsOf(f) ==
  CASE f = "twice"   -> <<ARow(None, "p", "A", "x"), Bad, ARow(None, "p", "B", None)>>
    [] f = "p then q" -> <<ARow(None, "p", "A", None), ARow(None, "q", "B", "y")>>
    [] f = "q then p" -> <<ARow(None, "q", "A", "x"), ARow(None, "p", "A", "y")>>
    [] f = "serial"  -> <<ARow("S", "p", "B", "x"), ARow("S", "q", "A", None)>>
    [] f = "wildcard" -> <<ARow(None, "_", "B", "y")>>
    [] OTHER -> <<>>

MCNewId(r) == ToString(r)
Upload(f, again) == [NoOp EXCEPT !.kind = "upload", !.file = f, !.override = again]
Judge(s) == [NoOp EXCEPT !.kind = "judge", !.slot = s]
Load == [NoOp EXCEPT !.kind = "load"]

\* Rules of files, as they are and as they were; overrides have a priority of their own.
ARule(tier, matches, family, priority, specificity) ==
  [NoRule EXCEPT !.tier = tier, !.matches = matches, !.family = family,
                 !.priority = priority, !.specificity = specificity]
OnA == [ARule("file", {"A"}, "ios", 100, 1) EXCEPT !.id = "on a"]
MCFileRules == {OnA, [ARule("file", {"A", "B"}, "nxos", 100, 2) EXCEPT !.id = "on both"]}
\* A rule of a vendor, without a family, and one whose confidence asks for review.
Vendor == [ARule("file", {"A", "B"}, None, 50, 1) EXCEPT !.id = "vendor"]
Unsure == [ARule("file", {"B"}, "nxos", 100, 1) EXCEPT !.id = "unsure", !.review = TRUE]
NewRule(matches, priority) ==
  [NoOp EXCEPT !.kind = "rule", !.rule = ARule("db", matches, "eos", priority, 1)]
Renormalize == [NoOp EXCEPT !.kind = "renormalize"]

Known(place, raw, fact, life) ==
  [serial |-> None, place |-> place, raw |-> raw, fact |-> fact,
   family |-> IF life = "imported" THEN None ELSE "ios", life |-> life]
Estate(ds) == [s \in Slots |-> IF s \in DOMAIN ds THEN ds[s] ELSE NoDevice]
Empty == Estate(<<>>)
Two == Estate(<<Known("p", "A", None, "classified"), Known("q", "B", "x", "imported")>>)

Start(ds, ops, procs, requests, midnights, seals, crashes) ==
  [dev |-> ds, rules |-> {OnA}, ops |-> ops, procs |-> procs,
   bound |-> [requests |-> requests, midnights |-> midnights, seals |-> seals, crashes |-> crashes]]
With(rule, start) == [start EXCEPT !.rules = @ \cup {rule}]
One == [r \in Requests |-> 1]
Each == [r \in Requests |-> IF r = 2 THEN 2 ELSE 1]

\* One process that gets a file several times; two that get it; files whose
\* devices are written in different orders; rules and evaluations next to
\* uploads, in one process and in two, with a rule that has no family and one that asks for
\* review; the catalogue of rules loaded; days that end and are sealed.
MCStarts ==
  {Start(Empty, {Upload("twice", FALSE), Upload("twice", TRUE), Upload("broken", FALSE)}, One, 3, 0, 0, 1),
   Start(Empty, {Upload("twice", FALSE), Upload("serial", FALSE), Upload("p then q", TRUE)}, Each, 3, 0, 0, 1),
   With(Unsure, Start(Two, {Upload("p then q", FALSE), Upload("q then p", FALSE), Renormalize}, Each, 3, 0, 0, 0)),
   With(Vendor, Start(Two, {Upload("wildcard", FALSE), Upload("twice", FALSE), Judge(1), NewRule({"B"}, 200)}, One, 3, 0, 0, 1)),
   Start(Two, {Upload("serial", FALSE), Judge(2), NewRule({"B"}, 200), Renormalize}, Each, 3, 0, 0, 0),
   Start(Two, {Load, Upload("p then q", FALSE), NewRule({"A"}, 50)}, Each, 3, 0, 0, 0),
   Start(Two, {Upload("broken", FALSE), Upload("p then q", FALSE)}, Each, 2, 2, 2, 1)}

\* One process, as `gard serve' runs it, and two uploads of one file.
MCOneProcess == {Start(Empty, {Upload("twice", FALSE)}, One, 2, 0, 0, 0)}
=============================================================================
