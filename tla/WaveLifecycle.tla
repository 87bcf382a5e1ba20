------------------------------- MODULE WaveLifecycle -------------------------------
(***************************************************************************)
(* What the uplift-wave controller promises, without requests, locks or    *)
(* devices (ADR-0016 A and B): waves move along the legal edges only, each *)
(* decision is taken once, and the approver of a wave is not its drafter.  *)
(* One step may move several waves: a catalogue reload invalidates all the *)
(* waves it affects in one transaction.                                    *)
(***************************************************************************)
EXTENDS UpliftStateMachine

CONSTANTS Waves, Users, None

VARIABLES
    state,      \* state[w]
    drafter,    \* drafter[w]
    approver    \* approver[w], None until the wave is approved

vars == <<state, drafter, approver>>

Init ==
    /\ state = [w \in Waves |-> "none"]
    /\ drafter = [w \in Waves |-> None]
    /\ approver = [w \in Waves |-> None]

Draft(w, u) ==
    /\ state[w] = "none"
    /\ state' = [state EXCEPT ![w] = "draft"]
    /\ drafter' = [drafter EXCEPT ![w] = u]
    /\ UNCHANGED approver

Approve(w, u) ==
    /\ <<state[w], "approved">> \in WaveEdges
    /\ u # drafter[w]
    /\ state' = [state EXCEPT ![w] = "approved"]
    /\ approver' = [approver EXCEPT ![w] = u]
    /\ UNCHANGED drafter

Move(w, to) ==
    /\ to # "approved"
    /\ <<state[w], to>> \in WaveEdges
    /\ state' = [state EXCEPT ![w] = to]
    /\ UNCHANGED <<drafter, approver>>

Invalidate(S) ==
    /\ \A w \in S : <<state[w], "invalidated">> \in WaveEdges
    /\ state' = [w \in Waves |-> IF w \in S THEN "invalidated" ELSE state[w]]
    /\ UNCHANGED <<drafter, approver>>

Next ==
    \/ \E w \in Waves, u \in Users : Draft(w, u) \/ Approve(w, u)
    \/ \E w \in Waves, to \in WaveState : Move(w, to)
    \/ \E S \in SUBSET Waves : Invalidate(S)

Spec == Init /\ [][Next]_vars
====================================================================================
