------------------------------ MODULE MCRouter ------------------------------
(* Constants for model checking AIRouter: a task that lists one provider with *)
(* two models, as config/models.yaml does, a task with two providers, and one *)
(* without configuration.                                                     *)
EXTENDS AIRouter

CONSTANTS p1, p2, m1, m2, r1

MCTasks == {"chat", "coding", "unknown"}
MCOneTask == {"coding"}

MCCandidatesOf ==
    [t \in Tasks |-> CASE t = "chat" -> << <<p1, m1>>, <<p1, m2>> >>
                       [] t = "coding" -> << <<p1, m1>>, <<p2, m1>> >>
                       [] t = "unknown" -> <<>>]

MCVariants == {<<p2, m1>>}
=============================================================================
