------------------------------ MODULE MCWorld ------------------------------
(* A small instance of the Alderwick world for TLC. *)
EXTENDS World

\* A road, a bridge beyond it and a bakery beside it.
MCRoute(from, to, cost) ==
    [origin |-> from, destination |-> to, traversal_cost |-> cost, passable |-> TRUE]
MCRoads ==
    [id \in {"out", "back", "shop", "street"} |->
        CASE id = "out" -> MCRoute("road", "bridge", 2)
          [] id = "back" -> MCRoute("bridge", "road", 2)
          [] id = "shop" -> MCRoute("road", "bakery", 1)
          [] id = "street" -> MCRoute("bakery", "road", 1)]

MCMove(a, route) == [actor |-> a, kind |-> "MOVE", route |-> route]
MCRest(a, d) == [actor |-> a, kind |-> "REST", duration |-> d]
MCWait(a, d) == [actor |-> a, kind |-> "WAIT", duration |-> d]
MCEat(a, n) == [actor |-> a, kind |-> "CONSUME", item |-> "bread", quantity |-> n]
MCBuy(a, n) == [actor |-> a, kind |-> "BUY", offer |-> "loaf", quantity |-> n]

MCTick(due) == [due |-> due, priority |-> 10, kind |-> "SurvivalTick"]
MCCollapse(due) == [due |-> due, priority |-> 0, kind |-> "CollapseEastBridge"]
MCOffer(seller, price, active) ==
    [seller |-> seller, item |-> "bread", unit_price |-> price, active |-> active]
MCReplace(due, offer) ==
    [due |-> due, priority |-> 20, kind |-> "TestReplace", offers |-> [id \in {"loaf"} |-> offer]]

\* A guard across the bridge, a baker, and a stranger who travels and buys.
MCHome ==
    [a \in {"hugh", "edwin", "stranger"} |->
        CASE a = "hugh" -> "bridge" [] a = "edwin" -> "bakery" [] OTHER -> "road"]
MCRequests ==
    {MCMove(a, id) : a \in {"hugh", "stranger"}, id \in {"out", "back"}}
    \union {MCMove("stranger", "shop"), MCMove("stranger", "street"), MCWait("hugh", 1)}
    \union {MCBuy("stranger", 1), MCBuy("stranger", 2), MCBuy("edwin", 1),
            MCEat("stranger", 1), MCEat("edwin", 1), MCRest("stranger", 2)}

\* The bridge falls twice, the offer changes its price and is withdrawn, and
\* ticks are due in between and at the same instants.
MCPlan ==
    <<MCTick(1), MCReplace(3, MCOffer("edwin", 3, TRUE)), MCTick(3), MCCollapse(3), MCTick(4),
      MCReplace(5, MCOffer("edwin", 3, FALSE)), MCTick(6), MCCollapse(7)>>

\* The stranger is hungry to the limit, the baker is tired to the limit.
MCLarder == [a \in Actors |-> [i \in Items |-> IF a = "edwin" THEN 3 ELSE 0]]
MCPurses == [a \in Actors |-> IF a = "stranger" THEN 5 ELSE 1]
MCListings == [id \in {"loaf"} |-> MCOffer("edwin", 2, TRUE)]
MCCondition ==
    [a \in Actors |-> IF a = "stranger" THEN [hunger |-> 97, fatigue |-> 4]
                      ELSE [hunger |-> 5, fatigue |-> 99]]
MCRecovery == [i \in {"bread"} |-> 10]
=============================================================================
