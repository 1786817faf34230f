------------------------------ MODULE MCFront -------------------------------
EXTENDS Front

(* Every command, one that no entity has and an entity that is not there.    *)
AllCommands == {<<e, a>> : e \in DOMAIN Handlers, a \in {"help", "typo"}} \cup
               UNION {{<<e, a>> : a \in DOMAIN Handlers[e]} : e \in DOMAIN Handlers} \cup
               {<<"typo", "list">>}
Plain(f) == [f |-> f, eq |-> FALSE]
Inline(f) == [f |-> f, eq |-> TRUE]
ForeignTokens == {Plain("out"), Plain("help"), Plain("count"), Plain("status"), Plain("typo"),
                  Plain("raw_out"), Inline("deleted")}
LeadingTokens == {Plain("out"), Inline("out"), Plain("version"), Plain("tools"),
                  Plain("include_deleted"), Inline("verbose")}
=============================================================================
