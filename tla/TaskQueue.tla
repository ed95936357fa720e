------------------------------ MODULE TaskQueue ------------------------------
(***************************************************************************)
(* What a thread pool promises its clients: a bounded queue.  A task that  *)
(* is accepted is begun in its turn, by one worker and once, and ends      *)
(* before the queue is gone; a task is refused only when the queue is full. *)
(***************************************************************************)
EXTENDS Naturals, Sequences, FiniteSets

CONSTANTS
    Task,     \* tasks, each submitted at most once
    Capacity, \* how many may be waiting
    Slots     \* how many may be under way at once

VARIABLES
    waiting, \* accepted tasks that have not begun, in their order
    state,   \* task -> "new", "waiting", "begun", "ended" or "refused"
    open     \* the queue still exists

queueVars == << waiting, state, open >>

Begun == { t \in Task : state[t] = "begun" }

Init ==
    /\ waiting = << >>
    /\ state = [t \in Task |-> "new"]
    /\ open = TRUE

Accept(t) ==
    /\ open /\ state[t] = "new" /\ Len(waiting) < Capacity
    /\ waiting' = Append(waiting, t)
    /\ state' = [state EXCEPT ![t] = "waiting"]
    /\ UNCHANGED open

Refuse(t) ==
    /\ open /\ state[t] = "new" /\ Len(waiting) = Capacity
    /\ state' = [state EXCEPT ![t] = "refused"]
    /\ UNCHANGED << waiting, open >>

Begin ==
    /\ waiting # << >> /\ Cardinality(Begun) < Slots
    /\ waiting' = Tail(waiting)
    /\ state' = [state EXCEPT ![Head(waiting)] = "begun"]
    /\ UNCHANGED open

End(t) ==
    /\ state[t] = "begun"
    /\ state' = [state EXCEPT ![t] = "ended"]
    /\ UNCHANGED << waiting, open >>

Close ==
    /\ open /\ waiting = << >> /\ Begun = {}
    /\ open' = FALSE
    /\ UNCHANGED << waiting, state >>

Next ==
    \/ Begin \/ Close
    \/ \E t \in Task : Accept(t) \/ Refuse(t) \/ End(t)

Spec == Init /\ [][Next]_queueVars /\ WF_queueVars(Begin) /\ \A t \in Task : WF_queueVars(End(t))
=============================================================================
