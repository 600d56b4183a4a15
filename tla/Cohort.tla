------------------------------- MODULE Cohort -------------------------------
(***************************************************************************)
(* A cohort of pilot trials: run_preflight executes the planned allocations *)
(* of a manifest in a directory of its own, add_replacement appends one to  *)
(* a manifest, and a researcher does both with any manifest obtained so far *)
(* and in any order.  A batch may be interrupted anywhere and is never      *)
(* resumed.  Nothing but its directory is left of it then, and two batches  *)
(* know nothing of each other.                                              *)
(***************************************************************************)
EXTENDS Naturals, Sequences, FiniteSets

CONSTANTS
    Originals,      \* allocations of the frozen plan
    MaxRows,        \* bound on the allocations of a manifest
    MaxBatches,     \* bound on the batches that are run
    Assessments     \* what audit_export may say of an exported trial

VARIABLES
    manifests,      \* the cohorts the researcher has, as sequences of allocations
    batches,        \* the batch directories, in the order of their creation
    pc,             \* what run_preflight is about to write, or "idle"
    current,        \* its copy of the manifest
    at              \* the allocation it is executing

vars == <<manifests, batches, pc, current, at>>

Unknown == "null"
Booleans == {"true", "false"}

\* The audit knows of a trial that it verifies whether the infrastructure failed.
CohortAssumption ==
    /\ Originals \in Nat \ {0} /\ MaxRows \in Nat /\ MaxBatches \in Nat
    /\ Originals <= MaxRows
    /\ Assessments \subseteq
           [integrity : {"VERIFIED", "EXCLUDED"}, denominator : Booleans,
            infrastructure : Booleans \union {Unknown}, success : Booleans]
    /\ \A a \in Assessments : a.integrity = "VERIFIED" => a.infrastructure \in Booleans
ASSUME CohortAssumption

NoResult == [integrity |-> "NOT_ASSESSED", denominator |-> Unknown,
             infrastructure |-> Unknown, success |-> Unknown]
NoRecord == [kind |-> "NONE"]
Missing == [status |-> "MISSING"]
Invalid == [status |-> "INVALID"]
File(c) == [status |-> "PRESENT", cohort |-> c]
Broken == [kind |-> "BROKEN"]
-----------------------------------------------------------------------------
(* The plan                                                                *)

\* An allocation that waits for its trial.  Its identities are its position;
\* its block and condition are together its arm, since no block of the plan
\* has a condition twice.
Planned(arm, parent) ==
    [arm |-> arm, replacement_of |-> parent, status |-> "PLANNED",
     result |-> NoResult, record |-> NoRecord]

Allocations == [i \in 1..Originals |-> Planned(i, 0)]

\* Fault: a failure that the audit did not verify is enough.
ReplaceableUnverified(row) == row.status = "FINISHED" /\ row.result.infrastructure = "true"

\* What may be replaced: a recorded failure of the infrastructure.
Replaceable(row) ==
    /\ row.status = "FINISHED"
    /\ row.result.integrity = "VERIFIED"
    /\ row.result.infrastructure = "true"

\* validate_cohort: the row's own fields.
RowValid(row) ==
    \/ row.status = "PLANNED" /\ row.result = NoResult /\ row.record = NoRecord
    \/ /\ row.status = "FINISHED"
       /\ row.result.integrity \in {"VERIFIED", "EXCLUDED"}
       /\ row.result.denominator \in Booleans
       /\ row.result.infrastructure \in Booleans
       /\ row.result.success \in Booleans
       /\ row.record # NoRecord

\* validate_cohort: a row after the originals replaces an earlier one.
Linked(c, i) ==
    /\ c[i].replacement_of \in 1..(i - 1)
    /\ Replaceable(c[c[i].replacement_of])
    /\ c[i].arm = c[c[i].replacement_of].arm
    /\ \A j \in (Originals + 1)..(i - 1) : c[j].replacement_of # c[i].replacement_of

Valid(c) ==
    /\ Len(c) >= Originals
    /\ \A i \in DOMAIN c : RowValid(c[i])
    /\ \A i \in 1..Originals : c[i].arm = i /\ c[i].replacement_of = 0
    /\ \A i \in (Originals + 1)..Len(c) : Linked(c, i)

Pending(c) == {i \in DOMAIN c : c[i].status = "PLANNED"}
IsFirst(i, c) == i \in Pending(c) /\ \A j \in Pending(c) : i <= j
-----------------------------------------------------------------------------
(* The files of a batch                                                    *)

NewBatch ==
    [plan |-> Missing, journal |-> <<>>, opened |-> FALSE, torn |-> FALSE,
     trials |-> [i \in 1..MaxRows |-> NoRecord], final |-> Missing]

CohortStarted(c) == [kind |-> "cohort_started", plan |-> c]
AllocationStarted(i) == [kind |-> "allocation_started", id |-> i]
AllocationFinished(i, row) == [kind |-> "allocation_finished", id |-> i, row |-> row]

Logged(b, row) == [b EXCEPT !.opened = TRUE, !.journal = Append(@, row)]
Torn(b) == [b EXCEPT !.opened = TRUE, !.torn = TRUE]
Exported(b, trial) == [b EXCEPT !.trials = [@ EXCEPT ![at] = trial]]

Trial(a) == [kind |-> "TRIAL", plan |-> current, id |-> at, assessment |-> a]

\* The call ends, by a return or an exception, and its locals are gone.
Leave == pc' = "idle" /\ current' = Allocations /\ at' = 0

Last == batches[Len(batches)]
Batch(b) == batches' = [batches EXCEPT ![Len(batches)] = b]
-----------------------------------------------------------------------------
(* The researcher                                                          *)

Init ==
    /\ manifests = {Allocations}
    /\ batches = <<>>
    /\ pc = "idle" /\ current = Allocations /\ at = 0

\* Fault: a replacement may be replaced under its parent's name once more.
AddReplacementAgain ==
    /\ pc = "idle"
    /\ \E c \in manifests :
        /\ Len(c) < MaxRows
        /\ \E i \in DOMAIN c :
            /\ Replaceable(c[i])
            /\ manifests' = manifests \union {Append(c, Planned(c[i].arm, i))}
    /\ UNCHANGED <<batches, pc, current, at>>

AddReplacement ==
    /\ pc = "idle"
    /\ \E c \in manifests :
        /\ Len(c) < MaxRows
        /\ \E i \in DOMAIN c :
            /\ Replaceable(c[i])
            /\ \A j \in DOMAIN c : c[j].replacement_of # i
            /\ manifests' = manifests \union {Append(c, Planned(c[i].arm, i))}
    /\ UNCHANGED <<batches, pc, current, at>>

\* A manifest that is not valid is refused before its directory is made.
RunPreflight ==
    /\ pc = "idle"
    /\ Len(batches) < MaxBatches
    /\ \E c \in manifests : Valid(c) /\ current' = c
    /\ batches' = Append(batches, NewBatch)
    /\ pc' = "plan"
    /\ UNCHANGED <<manifests, at>>
-----------------------------------------------------------------------------
(* run_preflight                                                           *)

WritePlan ==
    /\ pc = "plan"
    /\ Batch([Last EXCEPT !.plan = File(current)])
    /\ pc' = "started"
    /\ UNCHANGED <<manifests, current, at>>

AppendCohort ==
    /\ pc = "started"
    /\ Batch(Logged(Last, CohortStarted(current)))
    /\ pc' = "next"
    /\ UNCHANGED <<manifests, current, at>>

\* Fault: an allocation is not announced.
StartAllocationSilently ==
    /\ pc = "next"
    /\ \E i \in Pending(current) : IsFirst(i, current) /\ at' = i
    /\ pc' = "trial"
    /\ UNCHANGED <<manifests, batches, current>>

StartAllocation ==
    /\ pc = "next"
    /\ \E i \in Pending(current) :
        /\ IsFirst(i, current)
        /\ at' = i
        /\ Batch(Logged(Last, AllocationStarted(i)))
    /\ pc' = "trial"
    /\ UNCHANGED <<manifests, current>>

\* The finished row: what audit_export says, and the digest of the record, which
\* stands for the record.
FinishedRow(row, a, trial) ==
    [arm |-> row.arm, replacement_of |-> row.replacement_of, status |-> "FINISHED",
     result |-> a, record |-> trial]

Finished(a) == [current EXCEPT ![at] = FinishedRow(current[at], a, Trial(a))]

\* run_mock_trial validates the batch's copy again, executes and exports; then
\* comes the audit.
RunTrial ==
    /\ pc = "trial"
    /\ Valid(current)
    /\ \E a \in Assessments :
        /\ Batch(Exported(Last, Trial(a)))
        /\ current' = Finished(a)
    /\ pc' = "finish"
    /\ UNCHANGED <<manifests, at>>

AppendFinished ==
    /\ pc = "finish"
    /\ Batch(Logged(Last, AllocationFinished(at, current[at])))
    /\ pc' = "next"
    /\ UNCHANGED <<manifests, current, at>>

\* The final snapshot, and the manifest that is returned.
Finish ==
    /\ pc = "next"
    /\ Pending(current) = {}
    /\ Batch([Last EXCEPT !.final = File(current)])
    /\ manifests' = manifests \union {current}
    /\ Leave

\* The states the batch's files may be left in by a write that fails, an
\* exception of the trial or the end of the process.
Cut ==
    LET b == Last IN
    \/ Batch(b)
    \/ pc = "plan" /\ (Batch([b EXCEPT !.plan = Invalid])
                       \/ Batch([b EXCEPT !.plan = File(current)]))
    \/ pc = "started" /\ (Batch([b EXCEPT !.opened = TRUE]) \/ Batch(Torn(b))
                          \/ Batch(Logged(b, CohortStarted(current))))
    \/ pc = "next" /\ \E i \in Pending(current) :
            /\ IsFirst(i, current)
            /\ Batch(Torn(b)) \/ Batch(Logged(b, AllocationStarted(i)))
    \/ pc = "next" /\ Pending(current) = {}
        /\ (Batch([b EXCEPT !.final = Invalid]) \/ Batch([b EXCEPT !.final = File(current)]))
    \/ pc = "trial" /\ Valid(current)
        /\ \/ Batch(Exported(b, Broken))
           \/ \E a \in Assessments : Batch(Exported(b, Trial(a)))
    \/ pc = "finish" /\ (Batch(Torn(b))
                         \/ Batch(Logged(b, AllocationFinished(at, current[at]))))

\* The exception leaves run_preflight: there is no manifest to go on with.
Interrupt ==
    /\ pc # "idle"
    /\ Cut
    /\ Leave
    /\ UNCHANGED manifests

Next ==
    \/ AddReplacement \/ RunPreflight \/ WritePlan \/ AppendCohort
    \/ StartAllocation \/ RunTrial \/ AppendFinished \/ Finish \/ Interrupt

Spec == Init /\ [][Next]_vars
-----------------------------------------------------------------------------
(* inspect_cohort                                                          *)

\* Row n + 1 of a batch's journal, when its plan leaves ids to execute.
InOrder(journal, ids) ==
    \A n \in 2..Len(journal) :
        LET k == n \div 2 IN
        /\ k <= Len(ids)
        /\ journal[n].id = ids[k]
        /\ journal[n].kind = IF n = 2 * k THEN "allocation_started" ELSE "allocation_finished"

\* The allocations to execute, in the order of the manifest.
Agenda(c) ==
    [k \in 1..Cardinality(Pending(c)) |->
        CHOOSE i \in Pending(c) : Cardinality({j \in Pending(c) : j <= i}) = k]

PrefixValid(b) ==
    /\ b.plan.status = "PRESENT" /\ Valid(b.plan.cohort)
    /\ b.opened
    /\ b.journal # <<>> => b.journal[1] = CohortStarted(b.plan.cohort)
    /\ InOrder(b.journal, Agenda(b.plan.cohort))

Mentions(b, kind, i) == \E n \in 2..Len(b.journal) : b.journal[n].kind = kind /\ b.journal[n].id = i
Started(b, i) == Mentions(b, "allocation_started", i)
Ended(b, i) == Mentions(b, "allocation_finished", i)
-----------------------------------------------------------------------------
(* audit_cohort, of a manifest with some of the batches.  The records that *)
(* are supplied are those its rows have the digests of.                    *)

Done(c) == {i \in DOMAIN c : c[i].status = "FINISHED"}
Executes(b) == Pending(b.plan.cohort)

\* Fault: the plan is copied with the allocation's own result.
PlanBeforeUpdated(b, c, n) ==
    [i \in DOMAIN b.plan.cohort |->
        IF i \in Executes(b) /\ i <= n THEN c[i] ELSE b.plan.cohort[i]]

\* The batch's copy of its plan when it has come to allocation n.
PlanBefore(b, c, n) ==
    [i \in DOMAIN b.plan.cohort |->
        IF i \in Executes(b) /\ i < n THEN c[i] ELSE b.plan.cohort[i]]

PlanReadable(b) == b.plan.status = "PRESENT" /\ Valid(b.plan.cohort)

\* "prior result preservation", "state rollback".
Continues(b, c) ==
    \A i \in DOMAIN b.plan.cohort :
        /\ i \in DOMAIN c
        /\ IF i \in Executes(b) THEN c[i].status = "FINISHED" ELSE c[i] = b.plan.cohort[i]

ExpectedJournal(b, c) ==
    LET ids == Agenda(b.plan.cohort) IN
    <<CohortStarted(b.plan.cohort)>>
    \o [n \in 1..(2 * Len(ids)) |->
            LET i == ids[(n + 1) \div 2] IN
            IF n % 2 = 1 THEN AllocationStarted(i) ELSE AllocationFinished(i, c[i])]

BatchAgrees(b, c) ==
    /\ PlanReadable(b)
    /\ Continues(b, c)
    /\ b.final = File(PlanBefore(b, c, Len(c) + 1))
    /\ ~b.torn /\ b.journal = ExpectedJournal(b, c)
    /\ {i \in 1..MaxRows : b.trials[i] # NoRecord} = Executes(b)

\* The trial of an allocation, in the batch that executed it.
TrialAgrees(b, c, i) ==
    LET row == c[i] IN
    /\ b.trials[i] = row.record
    /\ row.record.id = i
    /\ row.record.plan = PlanBefore(b, c, i)
    /\ \A field \in {"arm", "replacement_of"} : row[field] = row.record.plan[i][field]
    /\ row.record.assessment.integrity = "VERIFIED"
    /\ row.result = row.record.assessment

Verified(c, supplied) ==
    /\ Valid(c)
    /\ supplied # {}
    /\ \A k \in supplied : BatchAgrees(batches[k], c)
    /\ \A k, l \in supplied : k # l => Executes(batches[k]) \intersect Executes(batches[l]) = {}
    /\ UNION {Executes(batches[k]) : k \in supplied} = Done(c)
    /\ \A k \in supplied : \A i \in Executes(batches[k]) : TrialAgrees(batches[k], c, i)
-----------------------------------------------------------------------------
(* Properties                                                              *)

\* A trial of which the audit cannot say whether the infrastructure failed.
Undetermined(c) == \E i \in DOMAIN c : /\ c[i].status = "FINISHED"
                                        /\ c[i].result.infrastructure = Unknown

\* Whatever is run, interrupted, forked and replaced, every manifest that
\* run_preflight or add_replacement has returned is one that validate_cohort
\* takes, if the audit could tell of each trial whether the infrastructure failed.
ManifestsStayValid == \A c \in manifests : Valid(c) \/ Undetermined(c)

\* "A new batch directory retains its initial plan and every allocated attempt":
\* the copy of the manifest that run_preflight updates between two trials is
\* one that the next trial takes.
BatchProceeds == pc = "trial" => Valid(current)

\* In a batch every trial that has left a trace is announced, every one reported
\* finished was exported, and at most one is announced and not finished.
Announced(b) ==
    /\ \A i \in 1..MaxRows :
        /\ b.trials[i] # NoRecord => Started(b, i)
        /\ Ended(b, i) => b.trials[i].kind = "TRIAL"
    /\ \A i, j \in {m \in 1..MaxRows : Started(b, m) /\ ~Ended(b, m)} : i = j

\* So it is at any moment and after any interruption.
AnnouncedFirst == \A k \in DOMAIN batches : Announced(batches[k])

\* inspect_cohort: once its journal exists a batch is a valid prefix.
InspectionTells ==
    AnnouncedFirst /\ \A k \in DOMAIN batches : batches[k].opened => PrefixValid(batches[k])

\* "Every batch, including prior replacement batches, must be supplied."  When
\* they all are, a verified manifest is the whole story: no allocation was
\* executed twice, also not by a batch that was interrupted or that started from
\* an older manifest, and nothing was executed that the manifest does not show.
VerifiedIsWhole ==
    \A c \in manifests : Verified(c, DOMAIN batches) =>
        \A i \in 1..MaxRows :
            LET executed == {k \in DOMAIN batches : batches[k].trials[i] # NoRecord} IN
            IF i \in Done(c)
            THEN \E k \in executed : executed = {k} /\ batches[k].trials[i] = c[i].record
            ELSE executed = {}

\* What the directories tell, of a part of the story and of the whole.
EvidenceTells == InspectionTells /\ VerifiedIsWhole

IsExtension(c, d) == Len(c) <= Len(d) /\ \A i \in DOMAIN c : c[i] = d[i]

\* Batches that were completed one after the other, each from what the one
\* before it returned, perhaps with replacements, and with verified trials only.
Succession ==
    /\ pc = "idle" /\ batches # <<>>
    /\ \A k \in DOMAIN batches :
        /\ batches[k].final.status = "PRESENT"
        /\ \A i \in Executes(batches[k]) :
            batches[k].final.cohort[i].result.integrity = "VERIFIED"
        /\ IF k = 1 THEN Done(batches[k].plan.cohort) = {}
           ELSE IsExtension(batches[k - 1].final.cohort, batches[k].plan.cohort)

\* The other direction: an orderly history is verified, at whatever manifest
\* the researcher has got to since the last batch.
OrderlyIsVerified ==
    Succession =>
        \A c \in manifests :
            IsExtension(Last.final.cohort, c) => Verified(c, DOMAIN batches)
-----------------------------------------------------------------------------
(* The study a reader sees in the manifests and the directories            *)

Account(c) == [i \in DOMAIN c |-> [arm |-> c[i].arm, outcome |-> c[i].result]]

\* What a directory tells of allocation i.
Evidence(b, i) ==
    CASE b.trials[i] = Broken -> [stage |-> "broken", outcome |-> NoResult]
      [] b.trials[i].kind = "TRIAL" ->
            [stage |-> IF Ended(b, i) THEN "reported" ELSE "executed",
             outcome |-> b.trials[i].assessment]
      [] b.trials[i] = NoRecord ->
            [stage |-> IF Started(b, i) THEN "announced" ELSE "none", outcome |-> NoResult]

Accounts == {Account(c) : c \in manifests}
Directories == [k \in DOMAIN batches |-> [i \in 1..MaxRows |-> Evidence(batches[k], i)]]
InProgress == IF pc = "idle" THEN <<>> ELSE Account(current)

\* The failures that give an arm another attempt.
Failures == {a \in Assessments : a.integrity = "VERIFIED" /\ a.infrastructure = "true"}

\* Nobody can read anything in the manifests and directories, at any moment, but
\* a study whose attempts are announced, executed and reported one by one, whose
\* arms are tried again only after failures of the infrastructure, and of which
\* no word is taken back.
Allotted ==
    INSTANCE Study WITH
        Arms <- 1..Originals,
        Rows <- 1..MaxRows,
        Outcomes <- Assessments,
        Untried <- NoResult,
        studies <- Accounts,
        ledger <- Directories,
        copy <- InProgress

ImplementsStudy == Allotted!Spec
=============================================================================
