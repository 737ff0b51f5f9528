------------------------------ MODULE AtMostOnce ------------------------------
(***************************************************************************)
(* What a caller of the store may rely on, whatever lies between: a call   *)
(* changes the store at most once, an answer that says it did is true, an  *)
(* answer that says it did not stays true, and a caller left without an    *)
(* answer can conclude nothing.                                            *)
(***************************************************************************)
EXTENDS Naturals

CONSTANT Calls

VARIABLES
    applied,  \* how often each call changed the store
    answer    \* what its caller was told

Answers == {"none", "done", "refused", "unknown"}

Init ==
    /\ applied = [c \in Calls |-> 0]
    /\ answer = [c \in Calls |-> "none"]

\* A change may come after its caller gave up, never after a refusal.
Apply(c) ==
    /\ applied[c] = 0
    /\ answer[c] \in {"none", "unknown"}
    /\ applied' = [applied EXCEPT ![c] = 1]

Answer(c) ==
    /\ answer[c] = "none"
    /\ \E a \in Answers \ {"none"} :
          /\ a = "done" => applied'[c] = 1
          /\ a = "refused" => applied'[c] = 0
          /\ answer' = [answer EXCEPT ![c] = a]

\* The change and its answer may be one step.
Next == \E c \in Calls :
    \/ Apply(c) /\ UNCHANGED answer
    \/ UNCHANGED applied /\ Answer(c)
    \/ Apply(c) /\ Answer(c)

Spec == Init /\ [][Next]_<<applied, answer>>
=============================================================================
