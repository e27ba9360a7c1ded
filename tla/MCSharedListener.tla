-------------------------- MODULE MCSharedListener --------------------------
(* SharedListener for TLC. *)
EXTENDS SharedListener

CONSTANTS c1, c2, q1, t1, t2

SameQueue == [c \in Consumer |-> q1]

\* More ids than the channel holds, and one past the cap.
Batch == [queue |-> q1, id |-> NoOne, ids |-> <<t1, t2, t1>>]

Payloads == {Batch}

\* Errors are taken by the consumers they were published to, and a listener
\* nobody uses gives its thread and its connection back.
ListenerProgress == ErrorObserved /\ IdleListenerEnds

=============================================================================
