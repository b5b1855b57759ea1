---------------------------- MODULE MCCrewRunner ----------------------------
(* Small crews for CrewRunner: the graphs a DAG crew may have.             *)
EXTENDS CrewRunner

\* Two chains side by side, the crew of the 2.1.6 fix; two branches and their
\* join; a cycle behind a task that runs; a dependency on an id the spec does
\* not hold, in front of another task.
FourGraphs ==
    {<<{}, {}, {1}, {2}>>, <<{}, {1}, {1}, {2, 3}>>, <<{}, {1, 4}, {2}, {3}>>,
     <<{}, {1}, {Ghost}, {3}>>}
=============================================================================
