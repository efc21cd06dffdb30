--------------------------- MODULE MCRunLifecycle ---------------------------
(* Instances of RunLifecycle small enough for TLC. *)
EXTENDS RunLifecycle

MCTask == 1 .. 2
\* Task 2 needs task 1.
MCChain == [t \in MCTask |-> {u \in MCTask : u < t}]
MCNone  == [t \in MCTask |-> {}]
MCChannel == [t \in MCTask |-> t]
\* Task 2 needs task 1, and task 3 follows it.
MCThree == 1 .. 3
MCNeeds == [t \in MCThree |-> IF t = 2 THEN {1} ELSE {}]
MCFollows == [t \in MCThree |-> IF t = 3 THEN {1} ELSE {}]
MCThreeChannel == [t \in MCThree |-> t]
\* A single task.
MCOne == {1}
MCOneNone == [t \in MCOne |-> {}]
MCOneChannel == [t \in MCOne |-> t]
=============================================================================
