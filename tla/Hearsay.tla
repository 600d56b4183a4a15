------------------------------ MODULE Hearsay ------------------------------
(***************************************************************************)
(* What Alderwick promises about news.  Something happens once at a place; *)
(* who is in sight of it then or comes in sight later holds the news, and  *)
(* whoever holds a claim can pass it on to somebody at the same place.     *)
(* There is no other way to hold a claim: nobody knows from afar, before   *)
(* it happened or out of nowhere, and nothing is forgotten.                *)
(***************************************************************************)
CONSTANTS Actors, Places, Lookouts,
          News,          \* the claim that what happened, happened
          Home,          \* where everybody is at first
          Told           \* the claims everybody holds at first

VARIABLES place,         \* where everybody is
          happened,      \* whether it has happened
          holds          \* the claims everybody holds

vars == <<place, happened, holds>>

Init ==
    /\ place = Home
    /\ happened = FALSE
    /\ holds = Told

Happen ==
    /\ ~happened
    /\ happened' = TRUE
    /\ holds' = [a \in Actors |->
                    IF place[a] \in Lookouts THEN holds[a] \union {News} ELSE holds[a]]
    /\ UNCHANGED place

Go(a, p) ==
    /\ place' = [place EXCEPT ![a] = p]
    /\ holds' = [holds EXCEPT ![a] =
                    IF happened /\ p \in Lookouts THEN @ \union {News} ELSE @]
    /\ UNCHANGED happened

Tell(a, b, claim) ==
    /\ a # b
    /\ place[a] = place[b]
    /\ claim \in holds[a]
    /\ holds' = [holds EXCEPT ![b] = @ \union {claim}]
    /\ UNCHANGED <<place, happened>>

Next ==
    \/ Happen
    \/ \E a \in Actors, p \in Places : Go(a, p)
    \/ \E a, b \in Actors : \E claim \in holds[a] : Tell(a, b, claim)

Spec == Init /\ [][Next]_vars
=============================================================================
