---------------------------- MODULE LifecycleMirror ----------------------------
(***************************************************************************)
(* What write-back wants NetBox to show of a device, and what one device's  *)
(* publication decides from the NetBox values it read                       *)
(* (src/gard/integrations/netbox/writeback_publisher.py).  No state:        *)
(* NetBoxSync applies these operators.                                      *)
(*                                                                         *)
(* The seven custom fields of the manifest are two: "posture" stands for    *)
(* the six that follow the device's latest evaluations, "alignment" is      *)
(* gard_ipam_alignment_status.  Empty is a field never written.             *)
(***************************************************************************)
EXTENDS FiniteSets

Empty == "empty"
Fields == {"posture", "alignment"}
Unknown == "unknown"

DesiredFields(verdict, align) == [posture |-> verdict, alignment |-> align]

\* The rules "always", those on a verdict, and "ipam_mismatch".
DesiredTags(verdict, align) ==
  {"managed"} \cup ({verdict} \ {Unknown}) \cup {t \in {"ipam-mismatch"} : align = "mismatch"}

\* The tags the manifest declares; every other tag of a device is preserved.
ManagedTags(verdicts) == {"managed", "ipam-mismatch"} \cup (verdicts \ {Unknown})

ReconciledTags(tags, desired, verdicts) == (tags \ ManagedTags(verdicts)) \cup desired

\* Mutant: whatever NetBox holds is overwritten.
NeverConflicts(cf, desired) == {}

\* A field that holds another value than the desired one was edited by an
\* operator, as far as the publisher can tell.
Conflicts(cf, desired) == {f \in Fields : cf[f] # Empty /\ cf[f] # desired[f]}

\* Mutant: equal fields make a device unchanged, whatever its tags are.
FieldsDecide(cf, tags, desired, reconciled) ==
  IF Conflicts(cf, desired) # {} THEN "conflict"
  ELSE IF cf = desired THEN "unchanged" ELSE "patch"

\* What the publication of one device does after its GET.
EntryDecision(cf, tags, desired, reconciled) ==
  IF Conflicts(cf, desired) # {} THEN "conflict"
  ELSE IF cf = desired /\ tags = reconciled THEN "unchanged"
  ELSE "patch"
=============================================================================
