----------------------------- MODULE StateStore -----------------------------
(***************************************************************************)
(* What callers of the private-state store may rely on: each call that     *)
(* returns took effect at one moment between its invocation and its        *)
(* return, and nothing that took effect is ever forgotten.  A call may     *)
(* instead return an error without effect, and a crash of the calling      *)
(* process may cut calls off before or after they took effect.             *)
(***************************************************************************)
EXTENDS PrivateState

CONSTANT Callers

VARIABLES
    state,          \* what the store keeps
    pending,        \* caller -> the call it waits for, or None
    answer          \* caller -> the answer it is about to get, or None

Init ==
    /\ state = NoState
    /\ pending = [c \in Callers |-> None]
    /\ answer = [c \in Callers |-> None]

Invoke(c, call) ==
    /\ pending[c] = None
    /\ pending' = [pending EXCEPT ![c] = call]
    /\ UNCHANGED <<state, answer>>

Serve(c) ==
    /\ pending[c] # None
    /\ answer[c] = None
    /\ answer' = [answer EXCEPT ![c] = Answer(state, pending[c])]
    /\ state' = IF Answer(state, pending[c]) = "nil" THEN After(state, pending[c]) ELSE state
    /\ UNCHANGED pending

FailCall(c) ==
    /\ pending[c] # None
    /\ answer[c] = None
    /\ answer' = [answer EXCEPT ![c] = "error"]
    /\ UNCHANGED <<state, pending>>

Return(c) ==
    /\ answer[c] # None
    /\ pending' = [pending EXCEPT ![c] = None]
    /\ answer' = [answer EXCEPT ![c] = None]
    /\ UNCHANGED state

CutOff(C) ==
    /\ pending' = [c \in Callers |-> IF c \in C THEN None ELSE pending[c]]
    /\ answer' = [c \in Callers |-> IF c \in C THEN None ELSE answer[c]]
    /\ UNCHANGED state

Next ==
    \/ \E c \in Callers :
        \/ \E call \in Calls : Invoke(c, call)
        \/ Serve(c) \/ FailCall(c) \/ Return(c)
    \/ \E C \in SUBSET Callers : CutOff(C)

Spec == Init /\ [][Next]_<<state, pending, answer>>
=============================================================================
