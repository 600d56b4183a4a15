------------------------------ MODULE MCPlaces ------------------------------
(***************************************************************************)
(* Two targets around the square.  Two answers share the id "a", one of    *)
(* them from another model; one has the empty id, and one is nested too    *)
(* deep for its audit.                                                     *)
(***************************************************************************)
EXTENDS PlacesAudit

CONSTANTS square, inn, bakery

MCTargets == {inn, bakery}
MCRoutes == {<<square, p>> : p \in {inn, bakery}}
            \union {<<p, square>> : p \in {inn, bakery}}

\* The two targets are alike.
MCSymmetry == Permutations(MCTargets)

\* Answers without an id, as most fixtures give them.
Plain == {Answer(Anonymous, TRUE, says, FALSE) :
            says \in {Move(r[1], r[2]) : r \in MCRoutes}
                     \union {Wait(1), Wait(2), Social}}

\* Answers that the trial and the audit have to tell apart by their ids.
Named == {Answer("a", FALSE, Wait(1), FALSE), Answer("a", TRUE, Wait(1), FALSE),
          Answer("", TRUE, Wait(1), FALSE)}

ShallowAnswers == {Silence} \union Plain \union Named

MCAnswers == ShallowAnswers \union {Answer(Anonymous, TRUE, NoAction, TRUE)}
=============================================================================
