------------------------------ MODULE MCSocial ------------------------------
(* A small instance of the social scenario for TLC. *)
EXTENDS Social

\* The square, the road and the bridge beyond it; the guard on the road.
MCHome == [a \in {"hugh", "thomas", "stranger"} |-> IF a = "hugh" THEN "road" ELSE "square"]
MCFragile == {<<"road", "bridge">>, <<"bridge", "road">>}
MCRoutes == MCFragile \union {<<"square", "road">>, <<"road", "square">>}

MCCondition == <<"bridge", "condition">>
MCReturn == <<"road", "npc_return_route">>
MCInquiry == <<"bridge", "npc_inquiry">>
MCTopics == {MCCondition, MCReturn, MCInquiry}

\* social_initial_knowledge, and an opinion of the stranger that it has changed.
MCAuthored(name, actor, topic, value) ==
    Record(<<0, "initial", name>>, actor, topic, value, "INITIAL", 0)
MCInitial ==
    {MCAuthored("hugh-return", "hugh", MCReturn, "square"),
     MCAuthored("thomas-inquiry", "thomas", MCInquiry, "hugh"),
     MCAuthored("thomas-stale", "thomas", MCCondition, "intact"),
     MCAuthored("stranger-first", "stranger", MCCondition, "shaky"),
     [MCAuthored("stranger-second", "stranger", MCCondition, "intact")
        EXCEPT !.supersedes = <<0, "initial", "stranger-first">>]}

\* NPC_ACTIVATIONS, gone through more often.
MCActivations == [i \in 1..13 |-> IF i % 2 = 1 THEN "hugh" ELSE "thomas"]
=============================================================================
