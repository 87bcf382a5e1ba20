--------------------------- MODULE MCFirmwareCatalog ---------------------------
(* Values for model checking FirmwareCatalog: two targets, a package, two    *)
(* edges, four files, three commits.                                        *)
EXTENDS FirmwareCatalog, TLC

MCKindOf(k) == CASE k \in {"T1", "T2"} -> "target" [] k = "P" -> "package" [] OTHER -> "edge"
MCKindOfFile(f) == CASE f \in {"t1", "site"} -> "target" [] f = "p" -> "package"
                     [] f = "e" -> "edge" [] OTHER -> "edge"
MCEditedFile(k) == IF MCKindOf(k) = "edge" THEN "e" ELSE "t1"

Entries(es) == [state |-> "sound", entries |-> {[key |-> e[1], val |-> e[2]] : e \in es}]
Tree(t1, site, p, e) ==
  [f \in Files |-> LET es == CASE f = "t1" -> t1 [] f = "site" -> site [] f = "p" -> p [] f = "e" -> e
                   IN IF es = {} THEN Absent ELSE Entries(es)]

\* A first tree; one in which site.yaml declares T1 instead of T2, the
\* package is gone and an edge is replaced; one with another checksum.
Tree1 == Tree({}, {<<"T2", "a">>}, {<<"P", "a">>}, {<<"E1", "a">>})
Tree2 == Tree({}, {<<"T1", "a">>}, {}, {<<"E2", "a">>})
Tree3 == Tree({<<"T1", "a">>}, {}, {<<"P", "b">>}, {<<"E1", "b">>})

Ask(kind, key, val, again) == [kind |-> kind, key |-> key, val |-> val, reload |-> again]
Boot == Ask("boot", None, None, TRUE)
Reload == Ask("reload", None, None, TRUE)
Edit(key, val, again) == Ask("edit", key, val, again)
Upload(sum) == Ask("upload", "P", sum, FALSE)

\* The rows a first load of a tree leaves.
Fresh == [s \in Slots |-> NoRow]
RowsOf(tree, live) ==
  [s \in Slots |->
     IF \E f \in Files, v \in Vals : s[2] = 1 /\ [key |-> s[1], val |-> v] \in tree[f].entries
     THEN LET f == CHOOSE f \in Files : s[1] \in {e.key : e \in tree[f].entries}
              e == CHOOSE e \in tree[f].entries : e.key = s[1]
          IN [val |-> e.val, live |-> live, file |-> f, blob |-> FALSE]
     ELSE NoRow]

Bound(requests, pulls, faults) == [requests |-> requests, pulls |-> pulls, faults |-> faults]
Lab(tree, rs, ops, trees, bound) ==
  [tree |-> tree, rows |-> rs, store |-> {}, prod |-> FALSE, editor |-> TRUE,
   ops |-> ops, trees |-> trees, bound |-> bound]
Prod(start) == [start EXCEPT !.prod = TRUE]

\* Processes that boot together on empty tables; an editor at work, without and
\* with faults; packages that are replaced and uploaded, likewise; production
\* with the editor enabled; tables whose entries were all removed once.
MCStarts ==
  LET all == RowsOf(Tree1, TRUE)
  IN {Lab(Tree1, Fresh, {Boot, Reload}, {Tree2}, Bound(3, 1, 0)),
      Lab(Tree1, all, {Boot, Edit("T1", "b", TRUE), Edit("E2", "a", FALSE)}, {}, Bound(3, 0, 0)),
      Lab(Tree1, all, {Reload, Edit("T1", "b", TRUE), Edit("E2", "a", TRUE)}, {Tree2}, Bound(2, 1, 1)),
      Lab(Tree1, all, {Reload, Upload("a"), Upload("b")}, {Tree2}, Bound(3, 1, 0)),
      Lab(Tree1, all, {Boot, Upload("a")}, {Tree3}, Bound(2, 1, 1)),
      Prod(Lab(Tree1, all, {Boot, Reload, Edit("T1", "b", FALSE)}, {Tree2}, Bound(2, 1, 1))),
      Lab(Tree2, RowsOf(Tree1, FALSE), {Reload, Upload("a")}, {Tree1, Tree3}, Bound(3, 1, 1))}
=============================================================================
