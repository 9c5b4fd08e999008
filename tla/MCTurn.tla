------------------------------- MODULE MCTurn -------------------------------
(* Small instances of Turn for TLC.                                        *)
EXTENDS TurnRefinement

CONSTANTS t1, t2

S(route, task, src) == [route |-> route, task |-> task, src |-> src]

UpTo(steps, n) == UNION {[1..k -> steps] : k \in 0..n}

\* Charts: two sql steps, charts of each source, a step in between.
ChartWorkflows ==
    UpTo({S("sql", t1, "none"), S("sql", t2, "none"), S("visu", t1, "database"),
          S("visu", t1, "none"), S("visu", t2, "inline"), S("rag", t1, "none")}, 3)

\* Around the cap of three: repeated steps, blank tasks, a clarification among
\* other steps.
CapWorkflows ==
    UpTo({S("sql", t1, "none"), S("rag", t1, "none"), S("visu", t1, "none")}, 4)
    \cup UpTo({S("clarification", Blank, "none"), S("clarification", t1, "none"),
               S("sql", Blank, "none"), S("research", t1, "none"),
               S("convo", t1, "none"), S("convo", t2, "none")}, 3)

CaseWorkflows == ChartWorkflows \cup CapWorkflows

\* A handful, for runs over several turns.
ShortWorkflows ==
    {<<S("sql", t1, "none"), S("visu", t1, "none")>>,
     <<S("convo", t1, "none"), S("rag", t1, "none")>>,
     <<S("research", t1, "none")>>,
     <<S("visu", t1, "inline")>>,
     <<S("clarification", t1, "none")>>}

AllRequests   == Request
ChartRequests == {r \in Request : ~r.sensitive}
OneRequest    == {[chart |-> TRUE, numbers |-> TRUE, sensitive |-> FALSE]}
=============================================================================
