---------------------------- MODULE UpliftStateMachine ----------------------------
(***************************************************************************)
(* The two finite state machines of gard/core/uplift_state_machine.py:     *)
(* uplift waves (ADR-0016 A) and uplift exceptions (ADR-0016 C).           *)
(*                                                                         *)
(* An edge table maps a pair <<from, to>> to the actor kinds that may      *)
(* drive the edge.  A decision function looks the edge up, checks the      *)
(* actor kind and, on approval edges, separation of duties; its outcome is *)
(* "ok" or the name of the error the Python function raises.               *)
(***************************************************************************)

WaveState == {"draft", "submitted", "approved", "rejected", "cancelled", "invalidated"}
WaveTerminal == {"approved", "rejected", "cancelled", "invalidated"}

\* The legal wave edges, each with its actor kinds.
WaveEdges ==
    {<<"draft", "submitted">>, <<"draft", "cancelled">>, <<"draft", "invalidated">>,
     <<"submitted", "approved">>, <<"submitted", "rejected">>,
     <<"submitted", "cancelled">>, <<"submitted", "invalidated">>}

WaveActorKinds(from, to) ==
    CASE to = "invalidated" -> {"system"}
      [] to = "approved"    -> {"approver"}
      [] to = "rejected"    -> {"approver", "drafter"}
      [] OTHER              -> {"drafter"}

WaveSodEdges == {<<"submitted", "approved">>}

ExceptionState == {"pending_review", "approved", "rejected", "expired", "withdrawn"}

ExceptionEdges ==
    {<<"pending_review", "approved">>, <<"pending_review", "rejected">>,
     <<"pending_review", "withdrawn">>,
     <<"approved", "expired">>, <<"approved", "withdrawn">>}

ExceptionActorKinds(from, to) ==
    CASE to = "expired"   -> {"system"}
      [] to = "withdrawn" -> {"filer"}
      [] OTHER            -> {"approver"}

ExceptionSodEdges == {<<"pending_review", "approved">>}

-----------------------------------------------------------------------------
(* wave_decide and exception_decide: the checks in the order the code makes *)
(* them, and the name of the first error or "ok".                          *)

\* Mutant: wave_decide without its separation-of-duties check.
WaveDecideNoSod(from, to, kind, actor, drafter) ==
    IF <<from, to>> \notin WaveEdges THEN "TransitionForbidden"
    ELSE IF kind \notin WaveActorKinds(from, to) THEN "ActorKindForbidden"
    ELSE "ok"

WaveDecide(from, to, kind, actor, drafter) ==
    IF <<from, to>> \notin WaveEdges THEN "TransitionForbidden"
    ELSE IF kind \notin WaveActorKinds(from, to) THEN "ActorKindForbidden"
    ELSE IF <<from, to>> \in WaveSodEdges /\ actor = drafter THEN "SelfApprovalForbidden"
    ELSE "ok"

ExceptionDecide(from, to, kind, actor, filer) ==
    IF <<from, to>> \notin ExceptionEdges THEN "TransitionForbidden"
    ELSE IF kind \notin ExceptionActorKinds(from, to) THEN "ActorKindForbidden"
    ELSE IF <<from, to>> \in ExceptionSodEdges /\ actor = filer THEN "SelfApprovalForbidden"
    ELSE "ok"
===================================================================================
