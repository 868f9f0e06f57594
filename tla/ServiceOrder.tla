----------------------------- MODULE ServiceOrder -----------------------------
(***************************************************************************)
(* The two walks over the services' dependencies: the one that validates   *)
(* the configuration and the one that fixes the order of a shutdown.  A    *)
(* configuration is a sequence of services and, in deps, the set of names  *)
(* each depends on; unknown and repeated names are refused before either   *)
(* walk.                                                                   *)
(***************************************************************************)
EXTENDS Naturals, Sequences, FiniteSets, SequencesExt

CONSTANTS
    configured  \* the services, in the order the configuration lists them

Service == ToSet(configured)

-----------------------------------------------------------------------------
(* validate_service_dependency_graph                                       *)

\* The names already checked, and whether no cycle was met.  Neither answer depends
\* on the order within depends_on, which is walked in that of configured.
Checked == [visited : SUBSET Service, ok : BOOLEAN]

\* A call: the name, what is known, and the names the call is for.
Checks == [name : Service, st : Checked, visiting : SUBSET Service]

CheckEach(visit, names, st, visiting) ==
    FoldLeft(LAMBDA acc, d : IF acc.ok /\ d \in names
                               THEN visit[[name |-> d, st |-> acc, visiting |-> visiting]] ELSE acc,
             st, configured)

VisitDependency(deps) ==
    LET visit[at \in Checks] ==
            IF at.name \in at.st.visited THEN at.st
            ELSE IF at.name \in at.visiting THEN [at.st EXCEPT !.ok = FALSE]
            ELSE LET after == CheckEach(visit, deps[at.name], at.st, at.visiting \cup {at.name})
                 IN  IF after.ok THEN [after EXCEPT !.visited = @ \cup {at.name}] ELSE after
    IN  visit

ValidGraph(deps) ==
    CheckEach(VisitDependency(deps), Service, [visited |-> {}, ok |-> TRUE], {}).ok

-----------------------------------------------------------------------------
(* service_stop_order                                                      *)

\* The names already visited, and the order so far.
Ordered == [visited : SUBSET Service, ordered : Seq(Service)]

Walks == [name : Service, st : Ordered]

WalkEach(visit, names, st) ==
    FoldLeft(LAMBDA acc, s : IF s \in names THEN visit[[name |-> s, st |-> acc]] ELSE acc, st, configured)

Dependents(deps, name) == {s \in Service : name \in deps[s]}

\* (mistake: a service goes into the order before its dependents)
VisitDependents_SelfFirst(deps) ==
    LET visit[at \in Walks] ==
            IF at.name \in at.st.visited THEN at.st
            ELSE WalkEach(visit, Dependents(deps, at.name),
                          [visited |-> at.st.visited \cup {at.name},
                           ordered |-> Append(at.st.ordered, at.name)])
    IN  visit

VisitDependents(deps) ==
    LET visit[at \in Walks] ==
            IF at.name \in at.st.visited THEN at.st
            ELSE LET after == WalkEach(visit, Dependents(deps, at.name),
                                       [at.st EXCEPT !.visited = @ \cup {at.name}])
                 IN  [after EXCEPT !.ordered = Append(@, at.name)]
    IN  visit

service_stop_order(deps) ==
    WalkEach(VisitDependents(deps), Service, [visited |-> {}, ordered |-> <<>>]).ordered

=============================================================================
