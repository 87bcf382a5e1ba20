----------------------------- MODULE ExceptionLifecycle -----------------------------
(***************************************************************************)
(* What the uplift-exception controller promises, without requests, locks  *)
(* or devices (ADR-0016 C): exceptions move along the legal edges, nobody  *)
(* approves the exception they filed, one blocker of a device has at most  *)
(* one approved exception, and only an overdue exception expires.  One     *)
(* evaluation may expire several exceptions in one transaction.            *)
(***************************************************************************)
EXTENDS UpliftStateMachine, Naturals

CONSTANTS Exceptions, Users, Keys, Times, None

VARIABLES
    clock,
    state,      \* state[e]
    key,        \* key[e]: the device and the blocker it excuses
    filer,      \* filer[e]
    approver,   \* approver[e], None until approved
    deadline    \* deadline[e]

vars == <<clock, state, key, filer, approver, deadline>>

Init ==
    /\ clock = 0
    /\ state = [e \in Exceptions |-> "none"]
    /\ key = [e \in Exceptions |-> None]
    /\ filer = [e \in Exceptions |-> None]
    /\ approver = [e \in Exceptions |-> None]
    /\ deadline = [e \in Exceptions |-> 0]

Tick == clock' = clock + 1 /\ UNCHANGED <<state, key, filer, approver, deadline>>

File(e, k, u, t) ==
    /\ state[e] = "none"
    /\ state' = [state EXCEPT ![e] = "pending_review"]
    /\ key' = [key EXCEPT ![e] = k]
    /\ filer' = [filer EXCEPT ![e] = u]
    /\ deadline' = [deadline EXCEPT ![e] = t]
    /\ UNCHANGED <<clock, approver>>

Approve(e, u) ==
    /\ <<state[e], "approved">> \in ExceptionEdges
    /\ u # filer[e]
    /\ \A f \in Exceptions : state[f] = "approved" => key[f] # key[e]
    /\ state' = [state EXCEPT ![e] = "approved"]
    /\ approver' = [approver EXCEPT ![e] = u]
    /\ UNCHANGED <<clock, key, filer, deadline>>

Close(e, to) ==
    /\ to \in {"rejected", "withdrawn"}
    /\ <<state[e], to>> \in ExceptionEdges
    /\ state' = [state EXCEPT ![e] = to]
    /\ UNCHANGED <<clock, key, filer, approver, deadline>>

Expire(S) ==
    /\ \A e \in S : <<state[e], "expired">> \in ExceptionEdges /\ deadline[e] < clock
    /\ state' = [e \in Exceptions |-> IF e \in S THEN "expired" ELSE state[e]]
    /\ UNCHANGED <<clock, key, filer, approver, deadline>>

Next ==
    \/ Tick
    \/ \E S \in SUBSET Exceptions : Expire(S)
    \/ \E e \in Exceptions, u \in Users :
          Approve(e, u) \/ \E k \in Keys, t \in Times : File(e, k, u, t)
    \/ \E e \in Exceptions, to \in ExceptionState : Close(e, to)

Spec == Init /\ [][Next]_vars
=====================================================================================
