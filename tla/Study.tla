-------------------------------- MODULE Study --------------------------------
(***************************************************************************)
(* What a cohort of trials promises to whoever reads its results.  An       *)
(* attempt is announced, executed and reported, in this order, one attempt  *)
(* at a time and in the order of the allocations.  What a batch has left of *)
(* it stays, and nothing is added once the batch is over.  An arm is tried  *)
(* again only if all attempts it had were lost to the infrastructure, and a *)
(* study that can be gone on with has the outcomes of its attempts.         *)
(***************************************************************************)
EXTENDS Naturals, Sequences

CONSTANTS Arms,          \* 1..n: the originals, of which each is an arm
          Rows,          \* the positions of a study
          Outcomes,      \* what may be said of an attempt
          Failures,      \* those that give the arm another attempt
          Untried        \* what is said of an allocation that waits

VARIABLES studies,       \* arm and outcome of each allocation, as far as they are known
          ledger,        \* for each batch, what has become of each allocation in it
          copy           \* the study of the batch in progress, or <<>>

vars == <<studies, ledger, copy>>

Allocation(arm, outcome) == [arm |-> arm, outcome |-> outcome]
Attempt(stage, outcome) == [stage |-> stage, outcome |-> outcome]
NoAttempt == Attempt("none", Untried)

Last == ledger[Len(ledger)]
Note(i, attempt) == ledger' = [ledger EXCEPT ![Len(ledger)] = [@ EXCEPT ![i] = attempt]]
Settled == \A i \in Rows : Last[i].stage \in {"none", "reported"}
Running == copy # <<>>
-----------------------------------------------------------------------------
Init ==
    /\ studies = {[a \in Arms |-> Allocation(a, Untried)]}
    /\ ledger = <<>>
    /\ copy = <<>>

Replace ==
    /\ ~Running
    /\ \E c \in studies, a \in Arms :
        /\ \A i \in DOMAIN c : c[i].arm = a => c[i].outcome \in Failures
        /\ studies' = studies \union {Append(c, Allocation(a, Untried))}
    /\ UNCHANGED <<ledger, copy>>

Open ==
    /\ ~Running
    /\ copy' \in studies
    /\ ledger' = Append(ledger, [i \in Rows |-> NoAttempt])
    /\ UNCHANGED studies

Announces(i) ==
    /\ Settled
    /\ i \in Rows \intersect DOMAIN copy
    /\ copy[i].outcome = Untried
    /\ \A j \in DOMAIN copy : j < i => copy[j].outcome # Untried
    /\ Last[i] = NoAttempt
    /\ Note(i, Attempt("announced", Untried))

Executes(i, outcome) ==
    /\ Last[i].stage = "announced"
    /\ Note(i, Attempt("executed", outcome))

Breaks(i) ==
    /\ Last[i].stage = "announced"
    /\ Note(i, Attempt("broken", Untried))

Reports(i) ==
    /\ Last[i].stage = "executed"
    /\ Note(i, Attempt("reported", Last[i].outcome))

\* A step of the batch in progress.
Proceed ==
    /\ Running
    /\ \E i \in Rows :
        \/ (Announces(i) \/ Reports(i)) /\ UNCHANGED copy
        \/ \E outcome \in Outcomes :
            Executes(i, outcome) /\ copy' = [copy EXCEPT ![i] = Allocation(@.arm, outcome)]
    /\ UNCHANGED studies

Return ==
    /\ Running
    /\ Settled /\ \A i \in DOMAIN copy : copy[i].outcome # Untried
    /\ studies' = studies \union {copy}
    /\ copy' = <<>>
    /\ UNCHANGED ledger

\* The batch is cut off, perhaps after one more step that nobody hears of.
Abandon ==
    /\ Running
    /\ \/ UNCHANGED ledger
       \/ \E i \in Rows : \/ Announces(i) \/ Breaks(i) \/ Reports(i)
                          \/ \E outcome \in Outcomes : Executes(i, outcome)
    /\ copy' = <<>>
    /\ UNCHANGED studies

Next == Replace \/ Open \/ Proceed \/ Return \/ Abandon

Spec == Init /\ [][Next]_vars
-----------------------------------------------------------------------------
\* Of the attempts of an arm at most one, in a study, is not a failure of the
\* infrastructure: no arm is tried until it has an outcome that pleases.
CountsOnce(c) ==
    \A i, j \in DOMAIN c : i # j /\ c[i].arm = c[j].arm =>
        c[i].outcome \in Failures \/ c[j].outcome \in Failures

\* Every outcome in a study is the reported one of an attempt of that allocation.
Backed(c) ==
    \A i \in DOMAIN c : c[i].outcome # Untried =>
        \E k \in DOMAIN ledger : ledger[k][i] = Attempt("reported", c[i].outcome)

StudiesAreSound == \A c \in studies : CountsOnce(c) /\ Backed(c)
=============================================================================
