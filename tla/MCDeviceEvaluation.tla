---------------------------- MODULE MCDeviceEvaluation ----------------------------
(* A small instance of DeviceEvaluation: two versions, one rule, three catalogues. *)
EXTENDS DeviceEvaluation, TLC

CONSTANTS v1, v2, p1

ToV2 == [live |-> TRUE, covers |-> TRUE, version |-> v2, applicable |-> 1,
         failing |-> {}, reached |-> {v2}, paths |-> {<<v1, v2>>}]

\* The upgrade wanted; the same turned round, with no path back; the device not covered,
\* and failing a rule.
ThreeCatalogues == {ToV2,
                    [ToV2 EXCEPT !.version = v1],
                    [ToV2 EXCEPT !.covers = FALSE, !.failing = {p1}]}

\* The runs start with the upgrade wanted and a device that was not normalized.
MCInit == Init /\ cat = ToV2 /\ obs.firmware = v1 /\ life = "imported"
MCSpec == MCInit /\ [][Next]_vars

Symmetry == Permutations(Requests)
===================================================================================
