---------------------------- MODULE CohortProofs ----------------------------
(***************************************************************************)
(* Theorems about the allocations of a study, for every number of them and *)
(* of batches, whatever was executed, interrupted, forked or replaced and  *)
(* in whatever order: that validate_cohort accepts what is handed out, what *)
(* a directory tells, that the audit of all of them tells the truth, and   *)
(* that all there is to read is at any moment a study, with attempts that  *)
(* are made one by one and outcomes that are backed by them.               *)
(***************************************************************************)
EXTENDS Cohort, WellFoundedInduction, FiniteSetTheorems, TLAPS

RowOK(r) ==
    /\ r = [arm |-> r.arm, replacement_of |-> r.replacement_of, status |-> r.status,
            result |-> r.result, record |-> r.record]
    /\ r.status \in {"PLANNED", "FINISHED"}
    /\ r.result \in Assessments \union {NoResult}

IsSequence(c) == c \in Seq({c[i] : i \in DOMAIN c})

\* A sequence of allocations, whatever records they carry.
IsCohort(c) ==
    /\ IsSequence(c)
    /\ \A i \in DOMAIN c : RowOK(c[i])

Sound(c) == IsCohort(c) /\ (Valid(c) \/ Undetermined(c))

\* The copy that run_preflight works on is as sound as the manifests, and the
\* allocation under execution is still a planned one.
CInv ==
    /\ \A c \in manifests : Sound(c)
    /\ Sound(current)
    /\ pc = "trial" => at \in Pending(current)
-----------------------------------------------------------------------------
\* A sequence is a function on its positions.
LEMMA SequenceFacts ==
    ASSUME NEW S, NEW c \in Seq(S)
    PROVE  Len(c) \in Nat /\ DOMAIN c = 1..Len(c) /\ c = [i \in 1..Len(c) |-> c[i]]
OBVIOUS

\* A function on the first positions is a sequence.
LEMMA IsSequenceFacts ==
    ASSUME NEW c, NEW n \in Nat, c = [i \in 1..n |-> c[i]]
    PROVE  IsSequence(c) /\ Len(c) = n
<1>. DEFINE S == {c[i] : i \in DOMAIN c}
<1>1. c \in [1..n -> S]
  OBVIOUS
<1>2. c \in Seq(S)
  BY <1>1
<1>. QED  BY <1>1, <1>2 DEF IsSequence

\* The same of a manifest.
LEMMA CohortFacts ==
    ASSUME NEW c, IsCohort(c)
    PROVE  Len(c) \in Nat /\ DOMAIN c = 1..Len(c) /\ c = [i \in 1..Len(c) |-> c[i]]
<1>1. PICK S : S = {c[i] : i \in DOMAIN c}
  OBVIOUS
<1>2. c \in Seq(S)
  BY <1>1 DEF IsCohort, IsSequence
<1>. QED  BY <1>2

\* A planned row is well-formed and valid.
LEMMA PlannedOK ==
    ASSUME NEW arm, NEW parent
    PROVE  /\ RowOK(Planned(arm, parent))
           /\ RowValid(Planned(arm, parent))
           /\ Planned(arm, parent).status = "PLANNED"
           /\ Planned(arm, parent).arm = arm
           /\ Planned(arm, parent).replacement_of = parent
BY DEF RowOK, RowValid, Planned

\* build_cohort.
LEMMA AllocationsSound == Sound(Allocations)
<1>. DEFINE n == Originals
<1>1. n \in Nat \ {0}
  BY CohortAssumption DEF CohortAssumption
<1>2. IsSequence(Allocations) /\ Len(Allocations) = n
  <2>1. Allocations = [i \in 1..n |-> Allocations[i]]
    BY DEF Allocations
  <2>. QED  BY <1>1, <2>1, IsSequenceFacts
<1>3. Len(Allocations) = n /\ DOMAIN Allocations = 1..n
  BY <1>1, <1>2 DEF Allocations
<1>4. \A i \in 1..n : Allocations[i] = Planned(i, 0)
  BY DEF Allocations
<1>5. IsCohort(Allocations)
  BY <1>2, <1>3, <1>4, PlannedOK DEF IsCohort
<1>6. Valid(Allocations)
  BY <1>1, <1>3, <1>4, PlannedOK DEF Valid
<1>. QED  BY <1>5, <1>6 DEF Sound
-----------------------------------------------------------------------------
(* add_replacement                                                         *)

\* Appending a row keeps the others.
LEMMA AppendFacts ==
    ASSUME NEW c, IsCohort(c), NEW row
    PROVE  /\ IsSequence(Append(c, row))
           /\ Len(Append(c, row)) = Len(c) + 1
           /\ DOMAIN Append(c, row) = 1..(Len(c) + 1)
           /\ \A i \in 1..Len(c) : Append(c, row)[i] = c[i]
           /\ Append(c, row)[Len(c) + 1] = row
<1>. DEFINE S == {c[i] : i \in DOMAIN c} \union {row}
            d == Append(c, row)
<1>1. c \in Seq(S) /\ row \in S
  <2>1. Len(c) \in Nat /\ DOMAIN c = 1..Len(c) /\ c = [i \in 1..Len(c) |-> c[i]]
    BY CohortFacts
  <2>2. c \in [1..Len(c) -> S]
    BY <2>1
  <2>. QED  BY <2>1, <2>2
<1>. HIDE DEF S
<1>2. /\ Len(c) \in Nat /\ Len(d) = Len(c) + 1 /\ DOMAIN d = 1..(Len(c) + 1)
      /\ d[Len(c) + 1] = row
      /\ \A i \in 1..Len(c) : d[i] = c[i]
      /\ d \in Seq(S)
  BY <1>1
<1>. HIDE DEF d
<1>3. d = [i \in 1..Len(d) |-> d[i]] /\ Len(d) \in Nat
  BY <1>2, SequenceFacts
<1>4. IsSequence(d)
  BY <1>3, IsSequenceFacts
<1>. QED  BY <1>2, <1>4 DEF d

\* A replacement of a finished failure keeps a manifest sound.
LEMMA ReplacementSound ==
    ASSUME NEW c, Sound(c), NEW i \in DOMAIN c, Replaceable(c[i]),
           \A j \in DOMAIN c : c[j].replacement_of # i
    PROVE  Sound(Append(c, Planned(c[i].arm, i)))
<1>. DEFINE row == Planned(c[i].arm, i)
            d == Append(c, row)
            n == Len(c)
<1>1. IsCohort(c) /\ n \in Nat /\ DOMAIN c = 1..n
  BY CohortFacts DEF Sound
<1>2. /\ IsSequence(d)
      /\ Len(d) = n + 1 /\ DOMAIN d = 1..(n + 1) /\ d[n + 1] = row
      /\ \A j \in 1..n : d[j] = c[j]
  BY <1>1, AppendFacts
<1>3. RowOK(row) /\ RowValid(row) /\ row.arm = c[i].arm /\ row.replacement_of = i
  BY PlannedOK
<1>. HIDE DEF row, d, n
<1>4. IsCohort(d)
  <2>1. \A j \in DOMAIN d : RowOK(d[j])
    BY <1>1, <1>2, <1>3 DEF IsCohort
  <2>. QED  BY <1>2, <2>1 DEF IsCohort
<1>5. CASE Undetermined(c)
  <2>1. Undetermined(d)
    BY <1>1, <1>2, <1>5 DEF Undetermined
  <2>. QED  BY <1>4, <2>1 DEF Sound, d, row
<1>6. CASE Valid(c)
  <2>0. Originals \in Nat \ {0}
    BY CohortAssumption DEF CohortAssumption
  <2>1. n >= Originals
    BY <1>6 DEF Valid, n
  <2>2. \A j \in DOMAIN d : RowValid(d[j])
    BY <1>1, <1>2, <1>3, <1>6 DEF Valid
  <2>3. \A j \in 1..Originals : d[j].arm = j /\ d[j].replacement_of = 0
    BY <1>1, <1>2, <1>6, <2>0, <2>1 DEF Valid
  <2>4. ASSUME NEW j \in (Originals + 1)..n
        PROVE  Linked(d, j)
    <3>1. Linked(c, j)
      BY <1>6, <2>4 DEF Valid, n
    <3>2. j \in 1..n /\ \A k \in 1..(j - 1) : k \in 1..n
      BY <1>1, <2>0
    <3>3. c[j].replacement_of \in 1..(j - 1)
      BY <3>1 DEF Linked
    <3>4. d[j] = c[j] /\ d[c[j].replacement_of] = c[c[j].replacement_of]
      BY <1>2, <3>2, <3>3
    <3>5. \A k \in (Originals + 1)..(j - 1) : d[k] = c[k]
      BY <1>2, <2>0, <3>2
    <3>. QED  BY <3>1, <3>4, <3>5 DEF Linked
  <2>5. Linked(d, n + 1)
    <3>1. i \in 1..n /\ (n + 1) - 1 = n
      BY <1>1
    <3>2. d[n + 1].replacement_of = i /\ d[n + 1].arm = c[i].arm /\ d[i] = c[i]
      BY <1>2, <1>3, <3>1
    <3>3. \A k \in (Originals + 1)..n : d[k].replacement_of # i
      BY <1>1, <1>2, <2>0
    <3>. QED  BY <3>1, <3>2, <3>3 DEF Linked
  <2>6. \A j \in (Originals + 1)..(n + 1) : Linked(d, j)
    <3>. SUFFICES ASSUME NEW j \in (Originals + 1)..(n + 1), j # n + 1
                  PROVE  Linked(d, j)
      BY <2>5
    <3>1. j \in (Originals + 1)..n
      BY <1>1, <2>0
    <3>. QED  BY <2>4, <3>1
  <2>7. Valid(d)
    BY <1>1, <1>2, <2>0, <2>1, <2>2, <2>3, <2>6 DEF Valid
  <2>. QED  BY <1>4, <2>7 DEF Sound, d, row
<1>. QED  BY <1>5, <1>6 DEF Sound
-----------------------------------------------------------------------------
(* run_preflight                                                           *)

\* Finishing a row keeps its identity.
LEMMA RowUpdated ==
    ASSUME NEW r, RowOK(r), NEW a \in Assessments, NEW t
    PROVE  LET row == FinishedRow(r, a, t) IN
           /\ RowOK(row)
           /\ row.arm = r.arm /\ row.replacement_of = r.replacement_of
           /\ row.status = "FINISHED" /\ row.result = a /\ row.record = t
BY DEF RowOK, FinishedRow

\* Finishing an allocation keeps a manifest sound.
LEMMA FinishedSound ==
    ASSUME Sound(current), Valid(current), at \in Pending(current), NEW a \in Assessments
    PROVE  Sound(Finished(a))
<1>. DEFINE d == Finished(a)
            n == Len(current)
            row == FinishedRow(current[at], a, Trial(a))
<1>1. IsCohort(current) /\ n \in Nat /\ DOMAIN current = 1..n
      /\ current = [i \in 1..n |-> current[i]]
  BY CohortFacts DEF Sound
<1>2. at \in 1..n /\ current[at].status = "PLANNED"
  BY <1>1 DEF Pending
<1>3. d = [i \in 1..n |-> IF i = at THEN row ELSE current[i]]
  BY <1>1, <1>2 DEF Finished
<1>4. /\ RowOK(row)
      /\ row.arm = current[at].arm /\ row.replacement_of = current[at].replacement_of
      /\ row.status = "FINISHED" /\ row.result = a /\ row.record = Trial(a)
  <2>1. RowOK(current[at])
    BY <1>1, <1>2 DEF IsCohort
  <2>. HIDE DEF n, d
  <2>. QED  BY <2>1, RowUpdated
<1>. HIDE DEF d, row, n
<1>6. DOMAIN d = 1..n /\ d[at] = row /\ \A i \in 1..n : i # at => d[i] = current[i]
  BY <1>2, <1>3
<1>7. IsSequence(d) /\ Len(d) = n
  <2>1. d = [i \in 1..n |-> d[i]]
    BY <1>3, <1>6
  <2>. QED  BY <1>1, <2>1, IsSequenceFacts
<1>8. IsCohort(d)
  <2>1. \A i \in DOMAIN d : RowOK(d[i])
    BY <1>1, <1>4, <1>6 DEF IsCohort
  <2>. QED  BY <1>7, <2>1 DEF IsCohort
<1>9. CASE a.infrastructure = Unknown
  <2>1. Undetermined(d)
    BY <1>2, <1>4, <1>6, <1>9 DEF Undetermined
  <2>. QED  BY <1>8, <2>1 DEF Sound, d
<1>10. CASE a.infrastructure # Unknown
  <2>0. Originals \in Nat \ {0} /\ n >= Originals
    BY CohortAssumption DEF CohortAssumption, Valid, n
  <2>1. RowValid(row)
    <3>1. /\ a.integrity \in {"VERIFIED", "EXCLUDED"} /\ a.denominator \in Booleans
          /\ a.infrastructure \in Booleans /\ a.success \in Booleans
      BY CohortAssumption, <1>10 DEF CohortAssumption
    <3>2. Trial(a) # NoRecord
      <4>1. Trial(a).kind = "TRIAL" /\ NoRecord.kind = "NONE"
        BY DEF Trial, NoRecord
      <4>. QED  BY <4>1
    <3>. QED  BY <1>4, <3>1, <3>2 DEF RowValid
  <2>2. \A i \in DOMAIN d : RowValid(d[i])
    BY <1>1, <1>6, <2>1 DEF Valid
  <2>3. \A i \in 1..Originals : d[i].arm = i /\ d[i].replacement_of = 0
    <3>1. \A i \in 1..Originals : i \in 1..n
      BY <1>1, <2>0
    <3>. QED  BY <1>4, <1>6, <3>1 DEF Valid
  <2>4. ASSUME NEW i \in (Originals + 1)..n
        PROVE  Linked(d, i)
    <3>. DEFINE p == current[i].replacement_of
    <3>1. Linked(current, i)
      BY <2>4 DEF Valid, n
    <3>2. i \in 1..n /\ \A k \in 1..(i - 1) : k \in 1..n
      BY <1>1, <2>0
    <3>3. p \in 1..(i - 1) /\ Replaceable(current[p])
      BY <3>1 DEF Linked
    <3>4. p # at
      BY <1>2, <3>3 DEF Replaceable
    <3>5. \A k \in 1..n : d[k].replacement_of = current[k].replacement_of
                          /\ d[k].arm = current[k].arm
      BY <1>4, <1>6
    <3>6. d[p] = current[p] /\ p \in 1..n
      BY <1>6, <3>2, <3>3, <3>4
    <3>7. \A k \in (Originals + 1)..(i - 1) : k \in 1..n
      BY <2>0, <3>2
    <3>8. d[i].replacement_of = p /\ d[i].arm = current[i].arm
      BY <3>2, <3>5
    <3>9. \A k \in (Originals + 1)..(i - 1) : d[k].replacement_of # p
      BY <3>1, <3>5, <3>7 DEF Linked
    <3>10. current[i].arm = current[p].arm
      BY <3>1 DEF Linked
    <3>. HIDE DEF p
    <3>. QED  BY <3>3, <3>6, <3>8, <3>9, <3>10 DEF Linked
  <2>5. Valid(d)
    BY <1>7, <2>0, <2>2, <2>3, <2>4 DEF Valid
  <2>. QED  BY <1>8, <2>5 DEF Sound, d
<1>. QED  BY <1>9, <1>10

-----------------------------------------------------------------------------
\* The frozen plan is sound.
LEMMA InitInv == Init => CInv
<1>. SUFFICES ASSUME Init PROVE CInv
  OBVIOUS
<1>. QED  BY AllocationsSound DEF Init, CInv

\* Nothing of the batch in progress survives its end.
LEMMA LeaveInv == ASSUME CInv, Leave, manifests' = manifests PROVE CInv'
<1>1. pc' # "trial" /\ current' = Allocations
  BY DEF Leave
<1>2. Sound(current')
  BY <1>1, AllocationsSound
<1>. QED  BY <1>1, <1>2 DEF CInv

\* Every step keeps what is handed out, and what is worked on, sound.
LEMMA StepInv == CInv /\ [Next]_vars => CInv'
<1>. SUFFICES ASSUME CInv, [Next]_vars PROVE CInv'
  OBVIOUS
<1>1. CASE AddReplacement
  <2>0. PICK c \in manifests : \E i \in DOMAIN c :
            /\ Replaceable(c[i]) /\ \A j \in DOMAIN c : c[j].replacement_of # i
            /\ manifests' = manifests \union {Append(c, Planned(c[i].arm, i))}
    BY <1>1 DEF AddReplacement
  <2>1. PICK i \in DOMAIN c :
            /\ Replaceable(c[i]) /\ \A j \in DOMAIN c : c[j].replacement_of # i
            /\ manifests' = manifests \union {Append(c, Planned(c[i].arm, i))}
    BY <2>0
  <2>2. Sound(Append(c, Planned(c[i].arm, i)))
    BY <2>1, ReplacementSound DEF CInv
  <2>3. UNCHANGED <<pc, current, at>>
    BY <1>1 DEF AddReplacement
  <2>. QED  BY <2>1, <2>2, <2>3 DEF CInv
<1>2. CASE RunPreflight
  <2>1. Sound(current') /\ pc' # "trial" /\ manifests' = manifests
    BY <1>2 DEF RunPreflight, CInv
  <2>. QED  BY <2>1 DEF CInv
<1>3. CASE WritePlan
  BY <1>3 DEF WritePlan, CInv
<1>4. CASE AppendCohort
  BY <1>4 DEF AppendCohort, CInv
<1>5. CASE StartAllocation
  BY <1>5 DEF StartAllocation, CInv
<1>6. CASE RunTrial
  <2>1. PICK a \in Assessments : current' = Finished(a)
    BY <1>6 DEF RunTrial
  <2>2. Sound(Finished(a))
    BY <1>6, FinishedSound DEF RunTrial, CInv
  <2>. QED  BY <1>6, <2>1, <2>2 DEF RunTrial, CInv
<1>7. CASE AppendFinished
  BY <1>7 DEF AppendFinished, CInv
<1>8. CASE Finish
  <2>1. pc' # "trial" /\ Sound(current')
    BY <1>8, AllocationsSound DEF Finish, Leave
  <2>. QED  BY <1>8, <2>1 DEF Finish, CInv
<1>9. CASE Interrupt
  BY <1>9, LeaveInv DEF Interrupt
<1>10. CASE UNCHANGED vars
  BY <1>10 DEF vars, CInv
<1>. QED  BY <1>1, <1>2, <1>3, <1>4, <1>5, <1>6, <1>7, <1>8, <1>9, <1>10 DEF Next

\* The inductive invariant of the manifests.
THEOREM Invariance == Spec => []CInv
BY InitInv, StepInv, PTL DEF Spec

\* Every manifest that run_preflight or add_replacement returns is accepted by
\* validate_cohort, if no trial of it was left undetermined by the audit.
THEOREM ReturnsValid == Spec => []ManifestsStayValid
<1>1. CInv => ManifestsStayValid
  BY DEF CInv, Sound, ManifestsStayValid
<1>. QED  BY <1>1, Invariance, PTL
-----------------------------------------------------------------------------
(* What the directories tell.  In the batch in progress the allocation     *)
(* under execution is the only one that is announced and not finished, and *)
(* what is reported finished is so in the manifest.                        *)

\* The fields of a directory, whatever they hold.
Shaped(b) ==
    b \in [plan : {b.plan}, journal : {b.journal}, opened : BOOLEAN, torn : BOOLEAN,
           trials : {b.trials}, final : {b.final}]

BatchOK(b) ==
    /\ Shaped(b)
    /\ IsSequence(b.journal)
    /\ b.trials = [i \in 1..MaxRows |-> b.trials[i]]

Quiet(b) == BatchOK(b) /\ Announced(b)

Phase(b) ==
    /\ pc \in {"plan", "started"} =>
        b.journal = <<>> /\ \A i \in 1..MaxRows : b.trials[i] = NoRecord
    /\ pc \in {"next", "trial", "finish"} => b.journal # <<>>
    /\ pc = "next" => \A i \in 1..MaxRows : Started(b, i) => Ended(b, i)
    /\ pc \in {"trial", "finish"} =>
        Started(b, at) /\ \A i \in 1..MaxRows : Started(b, i) /\ ~Ended(b, i) => i = at
    /\ pc = "finish" => /\ at \in DOMAIN current /\ current[at].status = "FINISHED"
                        /\ at \in 1..MaxRows => b.trials[at].kind = "TRIAL"
    /\ \A i : Ended(b, i) => i \in DOMAIN current /\ current[i].status = "FINISHED"

BInv ==
    /\ IsSequence(batches)
    /\ \A k \in DOMAIN batches : Quiet(batches[k])
    /\ pc # "idle" => batches # <<>> /\ Phase(Last)

\* A sequence that is not empty has a last element.
LEMMA LastFacts ==
    ASSUME NEW s, IsSequence(s)
    PROVE  /\ Len(s) \in Nat /\ DOMAIN s = 1..Len(s) /\ s = [k \in 1..Len(s) |-> s[k]]
           /\ s # <<>> => Len(s) \in DOMAIN s
<1>1. PICK S : S = {s[i] : i \in DOMAIN s}
  OBVIOUS
<1>2. s \in Seq(S)
  BY <1>1 DEF IsSequence
<1>. QED  BY <1>2

\* Appending to any sequence.
LEMMA Appending ==
    ASSUME NEW s, IsSequence(s), NEW e
    PROVE  /\ IsSequence(Append(s, e)) /\ Append(s, e) # <<>>
           /\ Len(Append(s, e)) = Len(s) + 1
           /\ DOMAIN Append(s, e) = 1..(Len(s) + 1)
           /\ \A i \in 1..Len(s) : Append(s, e)[i] = s[i]
           /\ Append(s, e)[Len(s) + 1] = e
<1>. DEFINE S == {s[i] : i \in DOMAIN s} \union {e}
            d == Append(s, e)
<1>1. s \in Seq(S)
  <2>1. Len(s) \in Nat /\ DOMAIN s = 1..Len(s) /\ s = [i \in 1..Len(s) |-> s[i]]
    BY LastFacts
  <2>2. s \in [1..Len(s) -> S]
    BY <2>1
  <2>. QED  BY <2>1, <2>2
<1>2. e \in S
  OBVIOUS
<1>. HIDE DEF S
<1>3. /\ Len(s) \in Nat /\ Len(d) = Len(s) + 1 /\ DOMAIN d = 1..(Len(s) + 1)
      /\ d[Len(s) + 1] = e /\ \A i \in 1..Len(s) : d[i] = s[i]
      /\ d \in Seq(S)
  BY <1>1, <1>2
<1>. HIDE DEF d
<1>4. d = [i \in 1..Len(d) |-> d[i]] /\ Len(d) \in Nat
  BY <1>3, SequenceFacts
<1>5. IsSequence(d) /\ d # <<>>
  BY <1>3, <1>4, IsSequenceFacts
<1>. QED  BY <1>3, <1>5 DEF d

\* A file of the batch other than its journal and the exports.
LEMMA SameEvidence ==
    ASSUME NEW b, NEW d, d.journal = b.journal, d.trials = b.trials
    PROVE  /\ Announced(b) => Announced(d)
           /\ Phase(b) => Phase(d)
           /\ \A i : (Started(d, i) <=> Started(b, i)) /\ (Ended(d, i) <=> Ended(b, i))
<1>1. \A i : (Started(d, i) <=> Started(b, i)) /\ (Ended(d, i) <=> Ended(b, i))
  BY DEF Started, Ended, Mentions
<1>. QED  BY <1>1 DEF Announced, Phase

\* What the updates of a batch leave of its fields.
LEMMA LoggedFields ==
    ASSUME NEW b, Shaped(b), NEW row
    PROVE  LET d == Logged(b, row) IN
           Shaped(d) /\ d.journal = Append(b.journal, row) /\ d.trials = b.trials
BY DEF Logged, Shaped

\* The same for an export of a trial.
LEMMA ExportedFields ==
    ASSUME NEW b, Shaped(b), NEW trial
    PROVE  LET d == Exported(b, trial) IN
           Shaped(d) /\ d.journal = b.journal /\ d.trials = [b.trials EXCEPT ![at] = trial]
BY DEF Exported, Shaped

\* A row of the journal mentions its allocation, unless it is the first.
LEMMA RowLogged ==
    ASSUME NEW b, BatchOK(b), NEW row
    PROVE  LET d == Logged(b, row) IN
           /\ BatchOK(d)
           /\ d.journal = Append(b.journal, row) /\ d.journal # <<>> /\ d.trials = b.trials
           /\ \A kind, i : Mentions(d, kind, i) <=>
                \/ Mentions(b, kind, i)
                \/ b.journal # <<>> /\ row.kind = kind /\ row.id = i
<1>. DEFINE d == Logged(b, row)
            j == b.journal
<1>1. Shaped(d) /\ d.journal = Append(j, row) /\ d.trials = b.trials
  BY LoggedFields DEF BatchOK
<1>2. /\ IsSequence(Append(j, row)) /\ Append(j, row) # <<>>
      /\ Len(Append(j, row)) = Len(j) + 1
      /\ \A i \in 1..Len(j) : Append(j, row)[i] = j[i]
      /\ Append(j, row)[Len(j) + 1] = row
  BY Appending DEF BatchOK
<1>3. Len(j) \in Nat /\ DOMAIN j = 1..Len(j)
  BY LastFacts DEF BatchOK
<1>. HIDE DEF d
<1>4. d.journal = Append(j, row) /\ d.trials = b.trials
  BY <1>1
<1>5. BatchOK(d)
  BY <1>1, <1>2 DEF BatchOK
<1>6. j # <<>> <=> Len(j) >= 1
  BY <1>3 DEF BatchOK, IsSequence
<1>. DEFINE m == Append(j, row)
            n == Len(j)
<1>7. /\ n \in Nat /\ Len(m) = n + 1 /\ m[n + 1] = row
      /\ \A i \in 1..n : m[i] = j[i]
  BY <1>2, <1>3
<1>. HIDE DEF m, n
<1>8. ASSUME NEW kind, NEW i
      PROVE  (\E k \in 2..Len(m) : m[k].kind = kind /\ m[k].id = i) <=>
                \/ \E k \in 2..n : j[k].kind = kind /\ j[k].id = i
                \/ n >= 1 /\ row.kind = kind /\ row.id = i
  <2>1. 2..(n + 1) = 2..n \union (IF n >= 1 THEN {n + 1} ELSE {})
    BY <1>7
  <2>2. \A k \in 2..n : m[k] = j[k]
    BY <1>7
  <2>. QED  BY <1>7, <2>1, <2>2
<1>9. \A kind, i : Mentions(d, kind, i) <=>
                \/ Mentions(b, kind, i)
                \/ j # <<>> /\ row.kind = kind /\ row.id = i
  BY <1>4, <1>6, <1>8 DEF Mentions, m, n
<1>. QED  BY <1>2, <1>4, <1>5, <1>9 DEF d

\* Replacing the last batch keeps the others.
LEMMA Replaced ==
    ASSUME BInv, pc # "idle", NEW b, Batch(b), Quiet(b)
    PROVE  /\ IsSequence(batches') /\ batches' # <<>>
           /\ \A k \in DOMAIN batches' : Quiet(batches'[k])
           /\ Last' = b
<1>. DEFINE n == Len(batches)
<1>1. /\ n \in Nat /\ DOMAIN batches = 1..n /\ batches = [k \in 1..n |-> batches[k]]
      /\ n \in 1..n
  BY LastFacts DEF BInv
<1>2. batches' = [k \in 1..n |-> IF k = n THEN b ELSE batches[k]]
  BY <1>1 DEF Batch
<1>. HIDE DEF n
<1>3. DOMAIN batches' = 1..n /\ batches' = [k \in 1..n |-> batches'[k]]
  BY <1>2
<1>4. IsSequence(batches') /\ Len(batches') = n
  BY <1>1, <1>3, IsSequenceFacts
<1>5. \A k \in DOMAIN batches' : Quiet(batches'[k])
  BY <1>1, <1>2, <1>3 DEF BInv
<1>6. Last' = b
  BY <1>1, <1>2, <1>4 DEF Last
<1>7. batches' # <<>>
  BY <1>1, <1>3
<1>. QED  BY <1>4, <1>5, <1>6, <1>7

\* The batch in progress is one of the batches.
LEMMA LastQuiet ==
    ASSUME BInv, pc # "idle"
    PROVE  Quiet(Last) /\ Phase(Last)
<1>1. Len(batches) \in DOMAIN batches
  BY LastFacts DEF BInv
<1>. QED  BY <1>1 DEF BInv, Last

\* The batch in progress with another file than its journal and its exports, or
\* with a part of one.
FileOf(b) == Shaped(b) /\ b.journal = Last.journal /\ b.trials = Last.trials

\* The updates of the other files.
LEMMA FilesOfLast ==
    ASSUME BInv, pc # "idle", NEW x
    PROVE  /\ FileOf(Last) /\ FileOf(Torn(Last))
           /\ FileOf([Last EXCEPT !.plan = x]) /\ FileOf([Last EXCEPT !.final = x])
           /\ FileOf([Last EXCEPT !.opened = TRUE])
<1>1. Shaped(Last)
  BY LastQuiet DEF Quiet, BatchOK
<1>2. PICK b : b = Last
  OBVIOUS
<1>3. /\ Shaped(b) /\ b.journal = Last.journal /\ b.trials = Last.trials
  BY <1>1, <1>2
<1>4. FileOf(b) /\ FileOf([b EXCEPT !.plan = x]) /\ FileOf([b EXCEPT !.final = x])
  BY <1>3 DEF Shaped, FileOf
<1>5. FileOf([b EXCEPT !.opened = TRUE]) /\ FileOf(Torn(b))
  BY <1>3 DEF Shaped, FileOf, Torn
<1>. QED  BY <1>2, <1>4, <1>5

\* They leave what the directory tells.
LEMMA FileWritten ==
    ASSUME BInv, pc # "idle", NEW b, FileOf(b)
    PROVE  Quiet(b) /\ Phase(b)
<1>1. Quiet(Last) /\ Phase(Last)
  BY LastQuiet
<1>2. Announced(b) /\ Phase(b)
  BY <1>1, SameEvidence DEF Quiet, FileOf
<1>3. BatchOK(b)
  BY <1>1 DEF Quiet, BatchOK, FileOf
<1>. QED  BY <1>2, <1>3 DEF Quiet

\* The first row of a journal announces nothing.
LEMMA CohortAppended ==
    ASSUME BInv, pc = "started"
    PROVE  LET d == Logged(Last, CohortStarted(current)) IN
           /\ Quiet(d) /\ d.journal # <<>>
           /\ \A i : ~Started(d, i) /\ ~Ended(d, i)
<1>. DEFINE row == CohortStarted(current)
            d == Logged(Last, row)
<1>1. Quiet(Last) /\ Phase(Last)
  BY LastQuiet
<1>2. Last.journal = <<>> /\ \A i \in 1..MaxRows : Last.trials[i] = NoRecord
  BY <1>1 DEF Phase
<1>. HIDE DEF row
<1>3. /\ BatchOK(d) /\ d.journal # <<>> /\ d.trials = Last.trials
      /\ \A kind, i : Mentions(d, kind, i) <=> Mentions(Last, kind, i)
  BY <1>1, <1>2, RowLogged DEF Quiet
<1>4. \A kind, i : ~Mentions(Last, kind, i)
  BY <1>2 DEF Mentions
<1>. HIDE DEF d
<1>5. \A i : ~Started(d, i) /\ ~Ended(d, i)
  BY <1>3, <1>4 DEF Started, Ended
<1>6. Announced(d)
  BY <1>2, <1>3, <1>5 DEF Announced
<1>. QED  BY <1>3, <1>5, <1>6 DEF Quiet, d, row

\* Announcing an allocation while no other is open.
LEMMA StartAppended ==
    ASSUME BInv, pc = "next", NEW i
    PROVE  LET d == Logged(Last, AllocationStarted(i)) IN
           /\ Quiet(d) /\ d.journal # <<>>
           /\ \A m : /\ Started(d, m) <=> Started(Last, m) \/ m = i
                     /\ Ended(d, m) <=> Ended(Last, m)
           /\ \A m \in 1..MaxRows : Started(d, m) /\ ~Ended(d, m) => m = i
<1>. DEFINE row == AllocationStarted(i)
            d == Logged(Last, row)
<1>1. Quiet(Last) /\ Phase(Last)
  BY LastQuiet
<1>2. Last.journal # <<>> /\ \A m \in 1..MaxRows : Started(Last, m) => Ended(Last, m)
  BY <1>1 DEF Phase
<1>3. row.kind = "allocation_started" /\ row.id = i
  BY DEF AllocationStarted
<1>. HIDE DEF row
<1>4. /\ BatchOK(d) /\ d.journal # <<>> /\ d.trials = Last.trials
      /\ \A kind, m : Mentions(d, kind, m) <=> \/ Mentions(Last, kind, m)
                                               \/ row.kind = kind /\ row.id = m
  <2>1. /\ BatchOK(d) /\ d.journal # <<>> /\ d.trials = Last.trials
        /\ \A kind, m : Mentions(d, kind, m) <=>
                \/ Mentions(Last, kind, m)
                \/ Last.journal # <<>> /\ row.kind = kind /\ row.id = m
    BY <1>1, RowLogged DEF Quiet
  <2>. HIDE DEF d
  <2>. QED  BY <1>2, <2>1
<1>. HIDE DEF d
<1>5. \A m : /\ Started(d, m) <=> Started(Last, m) \/ m = i
             /\ Ended(d, m) <=> Ended(Last, m)
  BY <1>3, <1>4 DEF Started, Ended
<1>6. \A m \in 1..MaxRows : Started(d, m) /\ ~Ended(d, m) => m = i
  BY <1>2, <1>5
<1>7. Announced(d)
  BY <1>1, <1>4, <1>5, <1>6 DEF Announced, Quiet
<1>. QED  BY <1>4, <1>5, <1>6, <1>7 DEF Quiet, d, row

\* Exporting a trial that is announced and not reported finished.
LEMMA TrialExported ==
    ASSUME BInv, CInv, pc = "trial", NEW trial
    PROVE  LET d == Exported(Last, trial) IN
           /\ Quiet(d) /\ d.journal # <<>>
           /\ \A m : (Started(d, m) <=> Started(Last, m)) /\ (Ended(d, m) <=> Ended(Last, m))
           /\ at \in 1..MaxRows => d.trials[at] = trial
<1>. DEFINE d == Exported(Last, trial)
<1>1. Quiet(Last) /\ Phase(Last)
  BY LastQuiet
<1>2. /\ Shaped(d) /\ d.journal = Last.journal
      /\ d.trials = [Last.trials EXCEPT ![at] = trial]
  BY <1>1, ExportedFields DEF Quiet, BatchOK
<1>. HIDE DEF d
<1>. DEFINE x == Last.trials
<1>3. x = [i \in 1..MaxRows |-> x[i]]
  BY <1>1 DEF Quiet, BatchOK
<1>. HIDE DEF x
<1>4. d.trials = [i \in 1..MaxRows |-> IF i = at THEN trial ELSE x[i]]
  BY <1>2, <1>3 DEF x
<1>5. Last.trials = x
  BY DEF x
<1>6. \A m : (Started(d, m) <=> Started(Last, m)) /\ (Ended(d, m) <=> Ended(Last, m))
  BY <1>2 DEF Started, Ended, Mentions
<1>7. ~Ended(Last, at) /\ Started(Last, at)
  <2>1. current[at].status = "PLANNED"
    BY DEF CInv, Pending
  <2>. QED  BY <1>1, <2>1 DEF Phase
<1>8. Announced(d)
  BY <1>1, <1>4, <1>5, <1>6, <1>7 DEF Quiet, Announced
<1>9. BatchOK(d)
  BY <1>1, <1>2, <1>4 DEF Quiet, BatchOK
<1>10. d.journal # <<>>
  BY <1>1, <1>2 DEF Phase
<1>. QED  BY <1>4, <1>6, <1>8, <1>9, <1>10 DEF Quiet, d

\* Reporting the allocation that was executed.
LEMMA FinishAppended ==
    ASSUME BInv, pc = "finish"
    PROVE  LET d == Logged(Last, AllocationFinished(at, current[at])) IN
           /\ Quiet(d) /\ d.journal # <<>>
           /\ \A m : /\ Started(d, m) <=> Started(Last, m)
                     /\ Ended(d, m) <=> Ended(Last, m) \/ m = at
           /\ \A m \in 1..MaxRows : Started(d, m) => Ended(d, m)
<1>. DEFINE row == AllocationFinished(at, current[at])
            d == Logged(Last, row)
<1>1. Quiet(Last) /\ Phase(Last)
  BY LastQuiet
<1>2. /\ Last.journal # <<>>
      /\ \A m \in 1..MaxRows : Started(Last, m) /\ ~Ended(Last, m) => m = at
      /\ at \in 1..MaxRows => Last.trials[at].kind = "TRIAL"
  BY <1>1 DEF Phase
<1>3. row.kind = "allocation_finished" /\ row.id = at
  BY DEF AllocationFinished
<1>. HIDE DEF row
<1>4. /\ BatchOK(d) /\ d.journal # <<>> /\ d.trials = Last.trials
      /\ \A kind, m : Mentions(d, kind, m) <=> \/ Mentions(Last, kind, m)
                                               \/ row.kind = kind /\ row.id = m
  <2>1. /\ BatchOK(d) /\ d.journal # <<>> /\ d.trials = Last.trials
        /\ \A kind, m : Mentions(d, kind, m) <=>
                \/ Mentions(Last, kind, m)
                \/ Last.journal # <<>> /\ row.kind = kind /\ row.id = m
    BY <1>1, RowLogged DEF Quiet
  <2>. HIDE DEF d
  <2>. QED  BY <1>2, <2>1
<1>. HIDE DEF d
<1>5. \A m : /\ Started(d, m) <=> Started(Last, m)
             /\ Ended(d, m) <=> Ended(Last, m) \/ m = at
  BY <1>3, <1>4 DEF Started, Ended
<1>6. \A m \in 1..MaxRows : Started(d, m) => Ended(d, m)
  BY <1>2, <1>5
<1>7. Announced(d)
  BY <1>1, <1>2, <1>4, <1>5, <1>6 DEF Announced, Quiet
<1>. QED  BY <1>4, <1>5, <1>6, <1>7 DEF Quiet, d, row

\* Whatever ends a batch, what it leaves can still be read.
LEMMA CutQuiet ==
    ASSUME BInv, CInv, Interrupt
    PROVE  BInv'
<1>. DEFINE Left == \E b : Batch(b) /\ Quiet(b)
<1>1. pc # "idle" /\ pc' = "idle" /\ Cut
  BY DEF Interrupt, Leave
<1>2. ASSUME NEW b, Batch(b), FileOf(b)
      PROVE  Left
  BY <1>1, <1>2, FileWritten
<1>3. /\ FileOf(Last) /\ FileOf(Torn(Last)) /\ FileOf([Last EXCEPT !.opened = TRUE])
      /\ \A x : FileOf([Last EXCEPT !.plan = x]) /\ FileOf([Last EXCEPT !.final = x])
  BY <1>1, FilesOfLast
<1>4. Left
  <2>1. CASE \/ Batch(Last) \/ Batch(Torn(Last)) \/ Batch([Last EXCEPT !.opened = TRUE])
             \/ Batch([Last EXCEPT !.plan = Invalid])
             \/ Batch([Last EXCEPT !.plan = File(current)])
             \/ Batch([Last EXCEPT !.final = Invalid])
             \/ Batch([Last EXCEPT !.final = File(current)])
    BY <1>2, <1>3, <2>1
  <2>2. CASE pc = "started" /\ Batch(Logged(Last, CohortStarted(current)))
    BY <2>2, CohortAppended
  <2>3. CASE pc = "next" /\ \E i \in Pending(current) : Batch(Logged(Last, AllocationStarted(i)))
    BY <2>3, StartAppended
  <2>4. CASE pc = "trial" /\ \E t : Batch(Exported(Last, t))
    BY <2>4, TrialExported
  <2>5. CASE pc = "finish" /\ Batch(Logged(Last, AllocationFinished(at, current[at])))
    BY <2>5, FinishAppended
  <2>. HIDE DEF Left
  <2>. QED  BY <1>1, <2>1, <2>2, <2>3, <2>4, <2>5 DEF Cut
<1>. QED  BY <1>1, <1>4, Replaced DEF BInv

\* Finishing an allocation changes the status of no other.
LEMMA FinishedStatus ==
    ASSUME CInv, pc = "trial", NEW a \in Assessments
    PROVE  /\ at \in DOMAIN current /\ DOMAIN Finished(a) = DOMAIN current
           /\ Finished(a)[at].status = "FINISHED"
           /\ \A m \in DOMAIN current : m # at => Finished(a)[m] = current[m]
<1>1. at \in DOMAIN current
  BY DEF CInv, Pending
<1>2. IsCohort(current)
  BY DEF CInv, Sound
<1>3. current = [i \in 1..Len(current) |-> current[i]] /\ DOMAIN current = 1..Len(current)
  BY <1>2, CohortFacts
<1>4. RowOK(current[at])
  BY <1>1, <1>2 DEF IsCohort
<1>. DEFINE row == FinishedRow(current[at], a, Trial(a))
<1>5. row.status = "FINISHED"
  BY <1>4, RowUpdated
<1>. HIDE DEF row
<1>6. Finished(a) = [current EXCEPT ![at] = row]
  BY DEF Finished, row
<1>. QED  BY <1>1, <1>3, <1>5, <1>6

\* Every step keeps announcements, exports and reports in their order.
LEMMA BatchStep == BInv /\ CInv /\ [Next]_vars => BInv'
<1>. SUFFICES ASSUME BInv, CInv, [Next]_vars  PROVE BInv'
  OBVIOUS
<1>1. CASE AddReplacement
  BY <1>1 DEF AddReplacement, BInv
<1>2. CASE RunPreflight
  <2>1. PICK b : b = NewBatch
    OBVIOUS
  <2>2. pc' = "plan" /\ batches' = Append(batches, b)
    BY <1>2, <2>1 DEF RunPreflight
  <2>3. /\ Shaped(b) /\ b.journal = <<>>
        /\ b.trials = [i \in 1..MaxRows |-> NoRecord]
    BY <2>1 DEF NewBatch, Shaped
  <2>4. IsSequence(b.journal)
    BY <2>3 DEF IsSequence
  <2>5. \A i : ~Started(b, i) /\ ~Ended(b, i)
    BY <2>3 DEF Started, Ended, Mentions
  <2>6. Quiet(b)
    BY <2>3, <2>4, <2>5 DEF Quiet, BatchOK, Announced
  <2>7. IsSequence(batches)
    BY DEF BInv
  <2>8. /\ IsSequence(batches') /\ batches' # <<>>
        /\ Len(batches') = Len(batches) + 1 /\ DOMAIN batches' = 1..(Len(batches) + 1)
        /\ \A i \in 1..Len(batches) : batches'[i] = batches[i]
        /\ batches'[Len(batches) + 1] = b
    BY <2>2, <2>7, Appending
  <2>9. Len(batches) \in Nat /\ DOMAIN batches = 1..Len(batches)
    BY <2>7, LastFacts
  <2>10. \A k \in DOMAIN batches' : Quiet(batches'[k])
    BY <2>6, <2>8, <2>9 DEF BInv
  <2>11. Last' = b
    BY <2>8 DEF Last
  <2>12. Phase(b)'
    BY <2>2, <2>3, <2>5 DEF Phase
  <2>. QED  BY <2>8, <2>10, <2>11, <2>12 DEF BInv
<1>3. CASE WritePlan
  <2>1. PICK b : b = [Last EXCEPT !.plan = File(current)]
    OBVIOUS
  <2>2. pc = "plan" /\ pc' = "started" /\ Batch(b) /\ UNCHANGED <<current, at>>
    BY <1>3, <2>1 DEF WritePlan
  <2>3. Quiet(b) /\ Phase(b)
    BY <2>1, <2>2, FilesOfLast, FileWritten
  <2>4. Phase(b)'
    BY <2>2, <2>3 DEF Phase
  <2>. QED  BY <2>2, <2>3, <2>4, Replaced DEF BInv
<1>4. CASE AppendCohort
  <2>1. PICK b : b = Logged(Last, CohortStarted(current))
    OBVIOUS
  <2>2. pc = "started" /\ pc' = "next" /\ Batch(b) /\ UNCHANGED <<current, at>>
    BY <1>4, <2>1 DEF AppendCohort
  <2>3. Quiet(b) /\ b.journal # <<>> /\ \A i : ~Started(b, i) /\ ~Ended(b, i)
    BY <2>1, <2>2, CohortAppended
  <2>4. Phase(b)'
    BY <2>2, <2>3 DEF Phase
  <2>. QED  BY <2>2, <2>3, <2>4, Replaced DEF BInv
<1>5. CASE StartAllocation
  <2>1. PICK i : at' = i /\ Batch(Logged(Last, AllocationStarted(i)))
    BY <1>5 DEF StartAllocation
  <2>2. PICK b : b = Logged(Last, AllocationStarted(i))
    OBVIOUS
  <2>3. pc = "next" /\ pc' = "trial" /\ Batch(b) /\ current' = current
    BY <1>5, <2>1, <2>2 DEF StartAllocation
  <2>4. /\ Quiet(b) /\ b.journal # <<>>
        /\ \A m : /\ Started(b, m) <=> Started(Last, m) \/ m = i
                  /\ Ended(b, m) <=> Ended(Last, m)
        /\ \A m \in 1..MaxRows : Started(b, m) /\ ~Ended(b, m) => m = i
    BY <2>2, <2>3, StartAppended
  <2>5. \A m : Ended(Last, m) => m \in DOMAIN current /\ current[m].status = "FINISHED"
    BY <2>3, LastQuiet DEF Phase
  <2>6. Phase(b)'
    BY <2>1, <2>3, <2>4, <2>5 DEF Phase
  <2>. QED  BY <2>3, <2>4, <2>6, Replaced DEF BInv
<1>6. CASE RunTrial
  <2>1. PICK a \in Assessments : Batch(Exported(Last, Trial(a))) /\ current' = Finished(a)
    BY <1>6 DEF RunTrial
  <2>2. PICK t : t = Trial(a)
    OBVIOUS
  <2>3. PICK b : b = Exported(Last, t)
    OBVIOUS
  <2>4. pc = "trial" /\ pc' = "finish" /\ Batch(b) /\ at' = at
    BY <1>6, <2>1, <2>2, <2>3 DEF RunTrial
  <2>5. /\ Quiet(b) /\ b.journal # <<>>
        /\ \A m : (Started(b, m) <=> Started(Last, m)) /\ (Ended(b, m) <=> Ended(Last, m))
        /\ at \in 1..MaxRows => b.trials[at] = t
    BY <2>3, <2>4, TrialExported
  <2>6. t.kind = "TRIAL"
    BY <2>2 DEF Trial
  <2>7. /\ Started(Last, at) /\ \A m \in 1..MaxRows : Started(Last, m) /\ ~Ended(Last, m) => m = at
        /\ \A m : Ended(Last, m) => m \in DOMAIN current /\ current[m].status = "FINISHED"
    BY <2>4, LastQuiet DEF Phase
  <2>8. /\ at \in DOMAIN current' /\ current'[at].status = "FINISHED"
        /\ \A m : Ended(b, m) => m \in DOMAIN current' /\ current'[m].status = "FINISHED"
    BY <2>1, <2>4, <2>5, <2>7, FinishedStatus
  <2>9. Phase(b)'
    BY <2>4, <2>5, <2>6, <2>7, <2>8 DEF Phase
  <2>. QED  BY <2>4, <2>5, <2>9, Replaced DEF BInv
<1>7. CASE AppendFinished
  <2>1. PICK b : b = Logged(Last, AllocationFinished(at, current[at]))
    OBVIOUS
  <2>2. pc = "finish" /\ pc' = "next" /\ Batch(b) /\ UNCHANGED <<current, at>>
    BY <1>7, <2>1 DEF AppendFinished
  <2>3. /\ Quiet(b) /\ b.journal # <<>>
        /\ \A m : /\ Started(b, m) <=> Started(Last, m)
                  /\ Ended(b, m) <=> Ended(Last, m) \/ m = at
        /\ \A m \in 1..MaxRows : Started(b, m) => Ended(b, m)
    BY <2>1, <2>2, FinishAppended
  <2>4. /\ at \in DOMAIN current /\ current[at].status = "FINISHED"
        /\ \A m : Ended(Last, m) => m \in DOMAIN current /\ current[m].status = "FINISHED"
    BY <2>2, LastQuiet DEF Phase
  <2>5. Phase(b)'
    BY <2>2, <2>3, <2>4 DEF Phase
  <2>. QED  BY <2>2, <2>3, <2>5, Replaced DEF BInv
<1>8. CASE Finish
  <2>1. PICK b : b = [Last EXCEPT !.final = File(current)]
    OBVIOUS
  <2>2. pc = "next" /\ pc' = "idle" /\ Batch(b)
    BY <1>8, <2>1 DEF Finish, Leave
  <2>3. Quiet(b)
    BY <2>1, <2>2, FilesOfLast, FileWritten
  <2>. QED  BY <2>2, <2>3, Replaced DEF BInv
<1>9. CASE Interrupt
  BY <1>9, CutQuiet
<1>10. CASE UNCHANGED vars
  BY <1>10 DEF vars, BInv, Phase, Last
<1>. QED  BY <1>1, <1>2, <1>3, <1>4, <1>5, <1>6, <1>7, <1>8, <1>9, <1>10 DEF Next

\* Whatever was interrupted where, a directory announces every trial that left a
\* trace before it did, reports none that was not exported, and leaves at most
\* one open.
THEOREM AnnouncesFirst == Spec => []AnnouncedFirst
<1>1. Init => BInv
  BY DEF Init, BInv, IsSequence
<1>2. BInv => AnnouncedFirst
  BY DEF BInv, Quiet, AnnouncedFirst
<1>. QED  BY <1>1, <1>2, BatchStep, InitInv, StepInv, PTL DEF Spec
-----------------------------------------------------------------------------
(* The batch in progress, in terms of its plan and of the copy c that       *)
(* run_preflight works on: what is executed comes first in the order of the *)
(* plan, each trial was started from the copy as it stood then, and the     *)
(* journal has a pair of rows for each, in that order.                      *)

\* What the batch has executed.
Past(b, c) == Pending(b.plan.cohort) \ Pending(c)

\* Row n of a journal of the allocations ids.
RowAt(n, ids, c) ==
    IF n = 2 * (n \div 2) THEN AllocationStarted(ids[n \div 2])
    ELSE AllocationFinished(ids[n \div 2], c[ids[n \div 2]])

\* The journal has come to its row len.
Tells(b, c, len) ==
    /\ Len(b.journal) = len
    /\ len >= 1 => b.journal[1] = CohortStarted(b.plan.cohort)
    /\ \A n \in 2..len : b.journal[n] = RowAt(n, Agenda(b.plan.cohort), c)

\* The trial of allocation i is what its row says.
RecordOf(b, c, i) ==
    /\ b.trials[i] = c[i].record /\ b.trials[i].kind = "TRIAL" /\ b.trials[i].id = i
    /\ b.trials[i].plan = PlanBefore(b, c, i) /\ b.trials[i].assessment = c[i].result
    /\ c[i].arm = b.plan.cohort[i].arm
    /\ c[i].replacement_of = b.plan.cohort[i].replacement_of
    /\ c[i].status = "FINISHED"

Core(b, c) ==
    /\ PlanReadable(b) /\ IsCohort(b.plan.cohort) /\ IsCohort(c)
    /\ Len(b.plan.cohort) <= MaxRows /\ DOMAIN c = DOMAIN b.plan.cohort
    /\ Pending(c) \subseteq Pending(b.plan.cohort)
    /\ \A i \in DOMAIN c \ Past(b, c) : c[i] = b.plan.cohort[i]
    /\ \A i \in Past(b, c), j \in Pending(c) : i < j
    /\ \A i \in 1..MaxRows : b.trials[i] # NoRecord <=> i \in Past(b, c)
    /\ \A i \in Past(b, c) : RecordOf(b, c, i)
    /\ \A m \in 1..Cardinality(Past(b, c)) : Agenda(b.plan.cohort)[m] \in Past(b, c)
    /\ ~b.torn /\ b.final = Missing

Executing == {"started", "next", "trial", "finish"}

Running(b, c, where, i) ==
    /\ Core(b, c)
    /\ where = "started" => b.journal = <<>> /\ Past(b, c) = {}
    /\ where # "started" => b.opened
    /\ where = "next" => Tells(b, c, 2 * Cardinality(Past(b, c)) + 1)
    /\ where = "trial" =>
        /\ Tells(b, c, 2 * Cardinality(Past(b, c)) + 2)
        /\ Agenda(b.plan.cohort)[Cardinality(Past(b, c)) + 1] = i
        /\ IsFirst(i, c)
    /\ where = "finish" =>
        /\ Tells(b, c, 2 * Cardinality(Past(b, c)))
        /\ Cardinality(Past(b, c)) >= 1
        /\ Agenda(b.plan.cohort)[Cardinality(Past(b, c))] = i /\ i \in Past(b, c)

\* A batch that has come to its end, whether or not it could return.
Complete(b) ==
    /\ PlanReadable(b) /\ IsCohort(b.plan.cohort) /\ IsCohort(b.final.cohort)
    /\ b.final = File(b.final.cohort)
    /\ Len(b.plan.cohort) <= MaxRows /\ DOMAIN b.final.cohort = DOMAIN b.plan.cohort
    /\ \A i \in DOMAIN b.plan.cohort :
        /\ b.final.cohort[i].status = "FINISHED"
        /\ i \notin Executes(b) => b.final.cohort[i] = b.plan.cohort[i]
    /\ \A i \in Executes(b) : RecordOf(b, b.final.cohort, i)
    /\ \A i \in 1..MaxRows : b.trials[i] # NoRecord <=> i \in Executes(b)
    /\ \A m \in 1..Cardinality(Executes(b)) : Agenda(b.plan.cohort)[m] \in Executes(b)
    /\ ~b.torn
    /\ Tells(b, b.final.cohort, 2 * Cardinality(Executes(b)) + 1)

\* What holds of a batch whatever became of it.
Kept(b) ==
    /\ b.opened => PrefixValid(b)
    /\ b.final.status = "PRESENT" => Complete(b)

\* Where a manifest comes from: none of its allocations is executed, or those are
\* that one of the first n batches has returned.
Origin(m, n) ==
    \/ Done(m) = {}
    \/ \E j \in 1..n :
        /\ batches[j].final.status = "PRESENT"
        /\ IsExtension(batches[j].final.cohort, m)
        /\ Done(m) = DOMAIN batches[j].final.cohort

OriginInv ==
    /\ \A m \in manifests : Origin(m, Len(batches)) /\ Len(m) <= MaxRows
    /\ pc = "plan" => Origin(current, Len(batches) - 1)
    /\ \A k \in DOMAIN batches :
        batches[k].plan.status = "PRESENT" => Origin(batches[k].plan.cohort, k - 1)

EvidenceInv ==
    /\ pc \in {"idle", "plan"} \union Executing
    /\ \A k \in DOMAIN batches : Kept(batches[k])
    /\ pc = "plan" => Last = NewBatch /\ Valid(current) /\ Len(current) <= MaxRows
    /\ pc \in Executing => Running(Last, current, pc, at)

HistoryInv == EvidenceInv /\ OriginInv

-----------------------------------------------------------------------------
(* The order of a plan                                                     *)

Before == {p \in Nat \X Nat : p[1] < p[2]}

\* A set of naturals that is not empty has a least element.
LEMMA Smallest ==
    ASSUME NEW T, T \subseteq Nat, T # {}
    PROVE  \E m \in T : \A k \in T : m <= k
<1>1. OpToRel(<, Nat) = Before
  BY Zenon DEF OpToRel, Before
<1>2. IsWellFoundedOn(Before, Nat)
  BY NatLessThanWellFounded, <1>1
<1>3. PICK m \in T : \A k \in T : ~ (<<k, m>> \in Before)
  BY <1>2, WFMin
<1>4. \A k \in T : k < m => <<k, m>> \in Before
  BY DEF Before
<1>5. \A k \in T : k \in Nat /\ m \in Nat
  OBVIOUS
<1>6. \A k \in T : ~ (k < m)
  BY <1>3, <1>4, Zenon
<1>7. \A k \in T : m <= k
  BY <1>5, <1>6
<1>. QED  BY <1>7

\* A plan has finitely many allocations that wait.
LEMMA PendingFinite ==
    ASSUME NEW c, IsCohort(c), NEW S, S \subseteq Pending(c)
    PROVE  /\ S \subseteq 1..Len(c) /\ S \subseteq Nat
           /\ IsFiniteSet(S) /\ Cardinality(S) \in Nat
           /\ Cardinality(S) <= Cardinality(Pending(c))
           /\ IsFiniteSet(Pending(c)) /\ Cardinality(Pending(c)) \in Nat
<1>1. Len(c) \in Nat /\ DOMAIN c = 1..Len(c)
  BY CohortFacts
<1>2. IsFiniteSet(1..Len(c))
  BY <1>1, FS_Interval
<1>3. Pending(c) \subseteq 1..Len(c)
  BY <1>1 DEF Pending
<1>4. IsFiniteSet(Pending(c))
  BY <1>2, <1>3, FS_Subset
<1>5. IsFiniteSet(S) /\ Cardinality(S) <= Cardinality(Pending(c))
  BY <1>4, FS_Subset
<1>. QED  BY <1>1, <1>3, <1>4, <1>5, FS_CardinalityType

\* The agenda has them all.
LEMMA AgendaFacts ==
    ASSUME NEW c, IsCohort(c)
    PROVE  /\ Len(Agenda(c)) = Cardinality(Pending(c)) /\ Cardinality(Pending(c)) \in Nat
           /\ DOMAIN Agenda(c) = 1..Cardinality(Pending(c))
           /\ IsSequence(Agenda(c))
<1>1. Cardinality(Pending(c)) \in Nat
  BY PendingFinite
<1>2. Agenda(c) = [k \in 1..Cardinality(Pending(c)) |-> Agenda(c)[k]]
      /\ DOMAIN Agenda(c) = 1..Cardinality(Pending(c))
  BY DEF Agenda
<1>. QED  BY <1>1, <1>2, IsSequenceFacts

\* An allocation is on it at the place that those before it leave to it.
LEMMA AgendaAt ==
    ASSUME NEW c, IsCohort(c), NEW i \in Pending(c)
    PROVE  Agenda(c)[Cardinality({j \in Pending(c) : j <= i})] = i
<1>. DEFINE Upto(m) == {j \in Pending(c) : j <= m}
            k == Cardinality(Upto(i))
<1>1. Pending(c) \subseteq Nat /\ IsFiniteSet(Pending(c))
  BY PendingFinite
<1>2. ASSUME NEW m \in Pending(c)  PROVE IsFiniteSet(Upto(m)) /\ m \in Upto(m)
  BY <1>1, FS_Subset
<1>3. ASSUME NEW m \in Pending(c), NEW n \in Pending(c), m < n
      PROVE  Cardinality(Upto(m)) # Cardinality(Upto(n))
  <2>1. Upto(m) \subseteq Upto(n) /\ n \notin Upto(m) /\ n \in Upto(n)
    BY <1>1, <1>3
  <2>2. Upto(m) # Upto(n)
    BY <2>1
  <2>3. IsFiniteSet(Upto(n))
    BY <1>2
  <2>. HIDE DEF Upto
  <2>. QED  BY <2>1, <2>2, <2>3, FS_Subset
<1>4. k \in 1..Cardinality(Pending(c))
  <2>1. Upto(i) \subseteq Pending(c) /\ i \in Upto(i) /\ IsFiniteSet(Upto(i))
    BY <1>2
  <2>. HIDE DEF Upto
  <2>2. k \in Nat /\ k <= Cardinality(Pending(c)) /\ Cardinality(Pending(c)) \in Nat
    BY <1>1, <2>1, FS_Subset, FS_CardinalityType
  <2>3. k # 0
    BY <2>1, FS_EmptySet
  <2>. QED  BY <2>2, <2>3
<1>5. Agenda(c)[k] = CHOOSE m \in Pending(c) : Cardinality(Upto(m)) = k
  BY <1>4 DEF Agenda
<1>. DEFINE x == CHOOSE m \in Pending(c) : Cardinality(Upto(m)) = k
<1>6. x \in Pending(c) /\ Cardinality(Upto(x)) = k
  <2>. HIDE DEF Upto
  <2>1. \E m \in Pending(c) : Cardinality(Upto(m)) = k
    OBVIOUS
  <2>. QED  BY <2>1
<1>. HIDE DEF x, Upto
<1>7. x = i
  <2>1. x \in Nat /\ i \in Nat
    BY <1>1, <1>6
  <2>. QED  BY <1>3, <1>6, <2>1
<1>. QED  BY <1>5, <1>7 DEF x, Upto
-----------------------------------------------------------------------------
(* What run_preflight does to its batch                                    *)

\* What a row leaves of the other files.
LEMMA RowFields ==
    ASSUME NEW b, BatchOK(b), NEW row
    PROVE  LET d == Logged(b, row) IN
           /\ d.plan = b.plan /\ d.torn = b.torn /\ d.final = b.final /\ d.trials = b.trials
           /\ d.opened = TRUE /\ Len(b.journal) \in Nat
           /\ Len(d.journal) = Len(b.journal) + 1 /\ d.journal[Len(b.journal) + 1] = row
           /\ \A n \in 1..Len(b.journal) : d.journal[n] = b.journal[n]
<1>. DEFINE d == Logged(b, row)
            j == b.journal
<1>1. /\ d.plan = b.plan /\ d.torn = b.torn /\ d.final = b.final /\ d.trials = b.trials
      /\ d.opened = TRUE /\ d.journal = Append(j, row)
  BY DEF Logged, BatchOK, Shaped
<1>2. /\ Len(Append(j, row)) = Len(j) + 1
      /\ \A i \in 1..Len(j) : Append(j, row)[i] = j[i]
      /\ Append(j, row)[Len(j) + 1] = row
  BY Appending DEF BatchOK
<1>3. Len(j) \in Nat
  BY LastFacts DEF BatchOK
<1>. HIDE DEF d, j
<1>. QED  BY <1>1, <1>2, <1>3 DEF d, j

\* The rows before it stay.
LEMMA RowsKept ==
    ASSUME NEW b, BatchOK(b), NEW row, NEW n \in 1..Len(b.journal)
    PROVE  Logged(b, row).journal[n] = b.journal[n]
<1>. DEFINE j == b.journal
<1>1. Logged(b, row).journal = Append(j, row)
  BY DEF Logged, BatchOK, Shaped
<1>2. IsSequence(j)
  BY DEF BatchOK
<1>. HIDE DEF j
<1>3. \A i \in 1..Len(j) : Append(j, row)[i] = j[i]
  BY <1>2, Appending
<1>. QED  BY <1>1, <1>3 DEF j

\* The part of the plan that is executed has a number.
LEMMA PastFinite ==
    ASSUME NEW b, NEW c, Core(b, c)
    PROVE  /\ IsFiniteSet(Past(b, c)) /\ Cardinality(Past(b, c)) \in Nat
           /\ Cardinality(Past(b, c)) <= Cardinality(Pending(b.plan.cohort))
           /\ Cardinality(Pending(b.plan.cohort)) \in Nat
           /\ Pending(b.plan.cohort) \subseteq 1..MaxRows
           /\ Past(b, c) \subseteq Pending(b.plan.cohort)
           /\ DOMAIN c = 1..Len(c) /\ DOMAIN b.plan.cohort = 1..Len(c)
           /\ Len(c) \in Nat /\ Len(c) <= MaxRows
<1>1. Past(b, c) \subseteq Pending(b.plan.cohort)
  BY DEF Past
<1>2. IsCohort(b.plan.cohort) /\ IsCohort(c) /\ DOMAIN c = DOMAIN b.plan.cohort
      /\ Len(b.plan.cohort) <= MaxRows
  BY DEF Core
<1>3. /\ Len(b.plan.cohort) \in Nat /\ DOMAIN b.plan.cohort = 1..Len(b.plan.cohort)
      /\ Len(c) \in Nat /\ DOMAIN c = 1..Len(c)
  BY <1>2, CohortFacts
<1>4. Len(c) = Len(b.plan.cohort)
  BY <1>2, <1>3
<1>5. Pending(b.plan.cohort) \subseteq 1..Len(b.plan.cohort)
  BY <1>2, PendingFinite
<1>6. MaxRows \in Nat
  BY CohortAssumption DEF CohortAssumption
<1>7. 1..Len(b.plan.cohort) \subseteq 1..MaxRows
  BY <1>2, <1>3, <1>6
<1>. QED  BY <1>1, <1>2, <1>3, <1>4, <1>5, <1>7, PendingFinite

\* The allocation that is first of those that wait is next on the agenda.
LEMMA FirstIsNext ==
    ASSUME NEW b, NEW c, Core(b, c), NEW i, IsFirst(i, c)
    PROVE  /\ Agenda(b.plan.cohort)[Cardinality(Past(b, c)) + 1] = i
           /\ i \in Pending(b.plan.cohort) /\ i \notin Past(b, c)
           /\ Cardinality(Past(b, c) \union {i}) = Cardinality(Past(b, c)) + 1
           /\ Cardinality(Past(b, c)) + 1 <= Cardinality(Pending(b.plan.cohort))
<1>. DEFINE P == b.plan.cohort
            S == Past(b, c)
<1>1. i \in Pending(c) /\ i \in Pending(P) /\ \A j \in Pending(c) : i <= j
  BY DEF Core, IsFirst
<1>2. i \notin S /\ S \subseteq Pending(P) /\ Pending(P) = S \union Pending(c)
  BY <1>1 DEF Past, Core
<1>3. IsFiniteSet(S) /\ Cardinality(S) \in Nat /\ IsCohort(P)
  BY PastFinite DEF Core
<1>4. Cardinality(S \union {i}) = Cardinality(S) + 1
  BY <1>2, <1>3, FS_AddElement
<1>5. {j \in Pending(P) : j <= i} = S \union {i}
  <2>1. Pending(P) \subseteq Nat
    BY <1>3, PendingFinite
  <2>2. \A j \in S : j < i
    BY <1>1 DEF Core
  <2>3. \A j \in Pending(c) : j <= i <=> j = i
    BY <1>1, <1>2, <2>1
  <2>. HIDE DEF S, P
  <2>. QED  BY <1>1, <1>2, <2>1, <2>2, <2>3
<1>6. Agenda(P)[Cardinality(S) + 1] = i
  BY <1>1, <1>3, <1>4, <1>5, AgendaAt
<1>7. Cardinality(S \union {i}) <= Cardinality(Pending(P))
  <2>1. S \union {i} \subseteq Pending(P)
    BY <1>1, <1>2
  <2>. HIDE DEF S, P
  <2>. QED  BY <1>3, <2>1, PendingFinite
<1>. QED  BY <1>1, <1>2, <1>4, <1>6, <1>7

\* A batch that has got so far is a valid prefix once it has a journal.
LEMMA RunningPrefix ==
    ASSUME NEW b, BatchOK(b), NEW c, NEW where \in Executing, NEW i, Running(b, c, where, i),
           NEW d, d.plan = b.plan, d.journal = b.journal, d.opened
    PROVE  PrefixValid(d)
<1>. DEFINE P == b.plan.cohort
            e == Cardinality(Past(b, c))
            L == Cardinality(Pending(P))
<1>1. Core(b, c)
  BY DEF Running
<1>2. e \in Nat /\ L \in Nat /\ e <= L
  BY <1>1, PastFinite
<1>3. IsCohort(P) /\ PlanReadable(b)
  BY <1>1 DEF Core
<1>4. Len(Agenda(P)) = L
  BY <1>3, AgendaFacts
<1>5. Len(b.journal) \in Nat /\ (Len(b.journal) = 0 => b.journal = <<>>)
  <2>1. Len(b.journal) \in Nat /\ b.journal = [k \in 1..Len(b.journal) |-> b.journal[k]]
    BY LastFacts DEF BatchOK
  <2>2. PICK j : j = b.journal
    OBVIOUS
  <2>3. b.journal \in Seq({j[m] : m \in DOMAIN j})
    BY <2>2 DEF BatchOK, IsSequence
  <2>. QED  BY <2>1, <2>3
<1>. HIDE DEF P, e, L
<1>6. CASE where = "started"
  <2>1. b.journal = <<>>
    BY <1>6 DEF Running
  <2>. QED  BY <1>3, <2>1 DEF PrefixValid, InOrder, PlanReadable
<1>7. CASE where # "started"
  <2>1. \E len \in Nat : Tells(b, c, len) /\ 1 <= len /\ len <= 2 * L + 1
    <3>1. CASE where = "next"
      <4>1. Tells(b, c, 2 * e + 1)
        BY <3>1 DEF Running, e
      <4>. QED  BY <1>2, <4>1
    <3>2. CASE where = "trial"
      <4>1. Tells(b, c, 2 * e + 2) /\ IsFirst(i, c)
        BY <3>2 DEF Running, e
      <4>2. e + 1 <= L
        BY <1>1, <4>1, FirstIsNext DEF e, L, P
      <4>. QED  BY <1>2, <4>1, <4>2
    <3>3. CASE where = "finish"
      <4>1. Tells(b, c, 2 * e) /\ e >= 1
        BY <3>3 DEF Running, e
      <4>. QED  BY <1>2, <4>1
    <3>. QED  BY <1>7, <3>1, <3>2, <3>3 DEF Executing
  <2>2. PICK len \in Nat : Tells(b, c, len) /\ 1 <= len /\ len <= 2 * L + 1
    BY <2>1
  <2>3. /\ Len(d.journal) = len /\ d.journal[1] = CohortStarted(P)
        /\ \A n \in 2..len : d.journal[n] = RowAt(n, Agenda(P), c)
    BY <2>2 DEF Tells, P
  <2>4. ASSUME NEW n \in 2..len
        PROVE  /\ n \div 2 <= L
               /\ d.journal[n].id = Agenda(P)[n \div 2]
               /\ d.journal[n].kind = IF n = 2 * (n \div 2) THEN "allocation_started"
                                      ELSE "allocation_finished"
    <3>1. n \div 2 <= L
      BY <1>2, <2>2
    <3>2. d.journal[n] = RowAt(n, Agenda(P), c)
      BY <2>3
    <3>. QED  BY <3>1, <3>2 DEF RowAt, AllocationStarted, AllocationFinished
  <2>5. InOrder(d.journal, Agenda(P))
    BY <1>4, <2>3, <2>4 DEF InOrder
  <2>6. d.plan.cohort = P /\ d.plan.status = "PRESENT" /\ Valid(P)
    BY <1>3 DEF PlanReadable, P
  <2>. QED  BY <2>3, <2>5, <2>6 DEF PrefixValid
<1>. QED  BY <1>6, <1>7

\* The batch's other files are those its progress is about.
LEMMA SameCore ==
    ASSUME NEW b, NEW c, Core(b, c), NEW d,
           d.plan = b.plan, d.torn = b.torn, d.final = b.final, d.trials = b.trials
    PROVE  Core(d, c) /\ Past(d, c) = Past(b, c)
<1>1. Past(d, c) = Past(b, c)
  BY DEF Past
<1>2. ASSUME NEW i  PROVE PlanBefore(d, c, i) = PlanBefore(b, c, i)
  BY DEF PlanBefore, Executes
<1>3. \A i : RecordOf(b, c, i) => RecordOf(d, c, i)
  BY <1>2 DEF RecordOf
<1>4. PlanReadable(d)
  BY DEF PlanReadable, Core
<1>. QED  BY <1>1, <1>3, <1>4 DEF Core

\* The plan is written: nothing is executed yet.
LEMMA PlanWritten ==
    ASSUME NEW c, IsCohort(c), Valid(c), Len(c) <= MaxRows,
           NEW b, b.plan = File(c), b.journal = <<>>, ~b.torn, b.final = Missing,
           b.trials = [i \in 1..MaxRows |-> NoRecord], NEW i
    PROVE  Running(b, c, "started", i)
<1>1. b.plan.cohort = c /\ PlanReadable(b)
  BY DEF File, PlanReadable
<1>2. Past(b, c) = {}
  BY <1>1 DEF Past
<1>3. Cardinality(Past(b, c)) = 0
  BY <1>2, FS_EmptySet
<1>4. Core(b, c)
  BY <1>1, <1>2, <1>3 DEF Core
<1>. QED  BY <1>2, <1>4 DEF Running

\* The plan is announced.
LEMMA CohortLogged ==
    ASSUME NEW b, BatchOK(b), NEW c, NEW i, Running(b, c, "started", i), NEW m
    PROVE  Running(Logged(b, CohortStarted(c)), c, "next", m)
<1>. DEFINE d == Logged(b, CohortStarted(c))
            P == b.plan.cohort
<1>1. Core(b, c) /\ b.journal = <<>> /\ Past(b, c) = {}
  BY DEF Running
<1>2. c = P
  <2>1. IsCohort(c) /\ IsCohort(P) /\ DOMAIN c = DOMAIN P /\ \A k \in DOMAIN c : c[k] = P[k]
    BY <1>1 DEF Core
  <2>2. /\ Len(c) \in Nat /\ DOMAIN c = 1..Len(c) /\ c = [k \in 1..Len(c) |-> c[k]]
        /\ Len(P) \in Nat /\ DOMAIN P = 1..Len(P) /\ P = [k \in 1..Len(P) |-> P[k]]
    BY <2>1, CohortFacts
  <2>. HIDE DEF P
  <2>. QED  BY <2>1, <2>2
<1>3. /\ d.plan = b.plan /\ d.torn = b.torn /\ d.final = b.final /\ d.trials = b.trials
      /\ d.opened = TRUE /\ Len(d.journal) = 1 /\ d.journal[1] = CohortStarted(c)
  <2>1. Len(b.journal) = 0
    BY <1>1
  <2>2. PICK row : row = CohortStarted(c)
    OBVIOUS
  <2>3. LET a == Logged(b, row) IN
        /\ a.plan = b.plan /\ a.torn = b.torn /\ a.final = b.final /\ a.trials = b.trials
        /\ a.opened = TRUE /\ Len(a.journal) = Len(b.journal) + 1
        /\ a.journal[Len(b.journal) + 1] = row
    BY RowFields
  <2>. QED  BY <2>1, <2>2, <2>3
<1>. HIDE DEF d
<1>4. Core(d, c) /\ Past(d, c) = {}
  BY <1>1, <1>3, SameCore
<1>5. 2 * Cardinality(Past(d, c)) + 1 = 1
  BY <1>4, FS_EmptySet
<1>6. Tells(d, c, 1)
  BY <1>2, <1>3 DEF Tells
<1>. QED  BY <1>3, <1>4, <1>5, <1>6 DEF Running, d

\* The next allocation is announced.
LEMMA StartLogged ==
    ASSUME NEW b, BatchOK(b), NEW c, NEW m, Running(b, c, "next", m), NEW i, IsFirst(i, c)
    PROVE  Running(Logged(b, AllocationStarted(i)), c, "trial", i)
<1>. DEFINE row == AllocationStarted(i)
            d == Logged(b, row)
            P == b.plan.cohort
            e == Cardinality(Past(b, c))
<1>1. Core(b, c) /\ Tells(b, c, 2 * e + 1)
  BY DEF Running
<1>2. e \in Nat /\ Agenda(P)[e + 1] = i
  BY <1>1, PastFinite, FirstIsNext
<1>3. /\ d.plan = b.plan /\ d.torn = b.torn /\ d.final = b.final /\ d.trials = b.trials
      /\ d.opened = TRUE /\ Len(d.journal) = Len(b.journal) + 1
      /\ d.journal[Len(b.journal) + 1] = row
      /\ \A n \in 1..Len(b.journal) : d.journal[n] = b.journal[n]
  <2>1. PICK r : r = row
    OBVIOUS
  <2>2. LET a == Logged(b, r) IN
        /\ a.plan = b.plan /\ a.torn = b.torn /\ a.final = b.final /\ a.trials = b.trials
        /\ a.opened = TRUE /\ Len(a.journal) = Len(b.journal) + 1
        /\ a.journal[Len(b.journal) + 1] = r
    BY RowFields
  <2>3. ASSUME NEW n \in 1..Len(b.journal)
        PROVE  Logged(b, r).journal[n] = b.journal[n]
    BY RowsKept
  <2>. QED  BY <2>1, <2>2, <2>3
<1>. HIDE DEF d
<1>4. Core(d, c) /\ Past(d, c) = Past(b, c)
  BY <1>1, <1>3, SameCore
<1>. HIDE DEF e
<1>5. Tells(d, c, 2 * e + 2)
  <2>1. /\ Len(b.journal) = 2 * e + 1 /\ b.journal[1] = CohortStarted(P)
        /\ \A n \in 2..(2 * e + 1) : b.journal[n] = RowAt(n, Agenda(P), c)
    BY <1>1, <1>2 DEF Tells
  <2>2. /\ Len(d.journal) = 2 * e + 2 /\ d.journal[1] = CohortStarted(P)
        /\ \A n \in 2..(2 * e + 1) : d.journal[n] = RowAt(n, Agenda(P), c)
        /\ d.journal[2 * e + 2] = AllocationStarted(i)
    BY <1>2, <1>3, <2>1
  <2>3. d.journal[2 * e + 2] = RowAt(2 * e + 2, Agenda(P), c)
    <3>1. (2 * e + 2) \div 2 = e + 1 /\ 2 * e + 2 = 2 * ((2 * e + 2) \div 2)
      BY <1>2
    <3>2. RowAt(2 * e + 2, Agenda(P), c) = AllocationStarted(Agenda(P)[e + 1])
      BY <3>1 DEF RowAt
    <3>. QED  BY <1>2, <2>2, <3>2
  <2>4. \A n \in 2..(2 * e + 2) : n \in 2..(2 * e + 1) \/ n = 2 * e + 2
    BY <1>2
  <2>5. d.plan.cohort = P
    BY <1>3
  <2>. HIDE DEF P
  <2>. QED  BY <2>2, <2>3, <2>4, <2>5 DEF Tells
<1>6. Agenda(d.plan.cohort)[e + 1] = i
  BY <1>2, <1>3
<1>. QED  BY <1>3, <1>4, <1>5, <1>6 DEF Running, d, e

\* The allocation is reported finished.
LEMMA FinishLogged ==
    ASSUME NEW b, BatchOK(b), NEW c, NEW i, Running(b, c, "finish", i), NEW m
    PROVE  Running(Logged(b, AllocationFinished(i, c[i])), c, "next", m)
<1>. DEFINE row == AllocationFinished(i, c[i])
            d == Logged(b, row)
            P == b.plan.cohort
            e == Cardinality(Past(b, c))
<1>1. Core(b, c) /\ Tells(b, c, 2 * e) /\ e >= 1 /\ Agenda(P)[e] = i
  BY DEF Running
<1>2. e \in Nat
  BY <1>1, PastFinite
<1>3. /\ d.plan = b.plan /\ d.torn = b.torn /\ d.final = b.final /\ d.trials = b.trials
      /\ d.opened = TRUE /\ Len(d.journal) = Len(b.journal) + 1
      /\ d.journal[Len(b.journal) + 1] = row
      /\ \A n \in 1..Len(b.journal) : d.journal[n] = b.journal[n]
  <2>1. PICK r : r = row
    OBVIOUS
  <2>2. LET a == Logged(b, r) IN
        /\ a.plan = b.plan /\ a.torn = b.torn /\ a.final = b.final /\ a.trials = b.trials
        /\ a.opened = TRUE /\ Len(a.journal) = Len(b.journal) + 1
        /\ a.journal[Len(b.journal) + 1] = r
    BY RowFields
  <2>3. ASSUME NEW n \in 1..Len(b.journal)
        PROVE  Logged(b, r).journal[n] = b.journal[n]
    BY RowsKept
  <2>. QED  BY <2>1, <2>2, <2>3
<1>. HIDE DEF d
<1>4. Core(d, c) /\ Past(d, c) = Past(b, c)
  BY <1>1, <1>3, SameCore
<1>. HIDE DEF e
<1>5. Tells(d, c, 2 * e + 1)
  <2>1. /\ Len(b.journal) = 2 * e /\ b.journal[1] = CohortStarted(P)
        /\ \A n \in 2..(2 * e) : b.journal[n] = RowAt(n, Agenda(P), c)
    BY <1>1, <1>2 DEF Tells
  <2>2. /\ Len(d.journal) = 2 * e + 1 /\ d.journal[1] = CohortStarted(P)
        /\ \A n \in 2..(2 * e) : d.journal[n] = RowAt(n, Agenda(P), c)
        /\ d.journal[2 * e + 1] = row
    BY <1>1, <1>2, <1>3, <2>1
  <2>3. d.journal[2 * e + 1] = RowAt(2 * e + 1, Agenda(P), c)
    <3>1. (2 * e + 1) \div 2 = e /\ 2 * e + 1 # 2 * ((2 * e + 1) \div 2)
      BY <1>2
    <3>2. RowAt(2 * e + 1, Agenda(P), c) = AllocationFinished(Agenda(P)[e], c[Agenda(P)[e]])
      BY <3>1 DEF RowAt
    <3>. QED  BY <1>1, <2>2, <3>2
  <2>4. \A n \in 2..(2 * e + 1) : n \in 2..(2 * e) \/ n = 2 * e + 1
    BY <1>2
  <2>5. d.plan.cohort = P
    BY <1>3
  <2>. HIDE DEF P
  <2>. QED  BY <2>2, <2>3, <2>4, <2>5 DEF Tells
<1>. QED  BY <1>3, <1>4, <1>5 DEF Running, d, e

\* From directory b and copy c to d and f by the trial t of allocation i.
Recorded(b, c, i, a, t, f, d) ==
    /\ t.kind = "TRIAL" /\ t.plan = c /\ t.id = i /\ t.assessment = a
    /\ f = [c EXCEPT ![i] = FinishedRow(c[i], a, t)]
    /\ d.plan = b.plan /\ d.journal = b.journal /\ d.opened = b.opened
    /\ d.torn = b.torn /\ d.final = b.final /\ d.trials = [b.trials EXCEPT ![i] = t]

\* The trial of the announced allocation is exported, and its row says so.
LEMMA TrialRecorded ==
    ASSUME NEW b, BatchOK(b), NEW c, NEW i, Running(b, c, "trial", i),
           NEW t, NEW a \in Assessments, NEW f, IsCohort(f), NEW d,
           Recorded(b, c, i, a, t, f, d)
    PROVE  Running(d, f, "finish", i)
<1>. DEFINE P == b.plan.cohort
            S == Past(b, c)
            e == Cardinality(S)
<1>1. Core(b, c) /\ Tells(b, c, 2 * e + 2) /\ Agenda(P)[e + 1] = i /\ IsFirst(i, c) /\ b.opened
  BY DEF Running
<1>2. /\ IsFiniteSet(S) /\ e \in Nat /\ Pending(P) \subseteq 1..MaxRows /\ S \subseteq Pending(P)
      /\ DOMAIN c = 1..Len(c) /\ DOMAIN P = 1..Len(c) /\ Len(c) \in Nat /\ Len(c) <= MaxRows
  BY <1>1, PastFinite
<1>3. i \in Pending(P) /\ i \notin S /\ Cardinality(S \union {i}) = e + 1
  BY <1>1, FirstIsNext
<1>4. /\ i \in Pending(c) /\ i \in DOMAIN c /\ c[i].status = "PLANNED"
      /\ \A j \in Pending(c) : i <= j
  BY <1>1 DEF IsFirst, Pending
<1>5. /\ DOMAIN f = DOMAIN c /\ f[i] = FinishedRow(c[i], a, t)
      /\ \A j \in DOMAIN c : j # i => f[j] = c[j]
  <2>0. f = [c EXCEPT ![i] = FinishedRow(c[i], a, t)]
    BY DEF Recorded
  <2>1. c = [k \in 1..Len(c) |-> c[k]]
    BY <1>1, CohortFacts DEF Core
  <2>. HIDE DEF S, e, P
  <2>. QED  BY <1>2, <1>4, <2>0, <2>1
<1>6. /\ f[i].arm = c[i].arm /\ f[i].replacement_of = c[i].replacement_of
      /\ f[i].status = "FINISHED" /\ f[i].result = a /\ f[i].record = t
  BY <1>5 DEF FinishedRow
<1>7. Pending(f) = Pending(c) \ {i}
  <2>1. "FINISHED" # "PLANNED"
    OBVIOUS
  <2>. HIDE DEF S, e, P
  <2>. QED  BY <1>4, <1>5, <1>6, <2>1 DEF Pending
<1>8. /\ d.plan.cohort = P /\ d.plan = b.plan /\ d.journal = b.journal /\ d.opened = b.opened
      /\ d.torn = b.torn /\ d.final = b.final
      /\ t.kind = "TRIAL" /\ t.plan = c /\ t.id = i /\ t.assessment = a
  BY DEF Recorded
<1>9. Past(d, f) = S \union {i}
  BY <1>3, <1>4, <1>7, <1>8 DEF Past
<1>10. \A j \in 1..MaxRows : d.trials[j] = IF j = i THEN t ELSE b.trials[j]
  <2>. DEFINE x == b.trials
  <2>1. x = [j \in 1..MaxRows |-> x[j]]
    BY DEF BatchOK
  <2>. HIDE DEF x
  <2>2. d.trials = [x EXCEPT ![i] = t]
    BY DEF x, Recorded
  <2>3. \A j \in 1..MaxRows : d.trials[j] = IF j = i THEN t ELSE x[j]
    BY <2>1, <2>2
  <2>. QED  BY <2>3 DEF x
<1>11. i \in 1..MaxRows /\ S \subseteq 1..MaxRows
  BY <1>2, <1>3
<1>12. \A j \in S : j < i
  BY <1>1, <1>4 DEF Core
<1>13. ASSUME NEW j \in S \union {i}  PROVE PlanBefore(d, f, j) = PlanBefore(b, c, j)
  <2>1. j <= i /\ j \in Nat /\ i \in Nat
    BY <1>11, <1>12
  <2>2. ASSUME NEW k \in DOMAIN P, k < j  PROVE f[k] = c[k]
    <3>1. k # i /\ k \in DOMAIN c
      BY <1>2, <2>1, <2>2
    <3>. QED  BY <1>5, <3>1
  <2>3. PlanBefore(d, f, j) = [k \in DOMAIN P |-> IF k \in Pending(P) /\ k < j THEN f[k] ELSE P[k]]
    BY <1>8 DEF PlanBefore, Executes
  <2>4. PlanBefore(b, c, j) = [k \in DOMAIN P |-> IF k \in Pending(P) /\ k < j THEN c[k] ELSE P[k]]
    BY DEF PlanBefore, Executes
  <2>5. \A k \in DOMAIN P : (IF k \in Pending(P) /\ k < j THEN f[k] ELSE P[k])
                              = (IF k \in Pending(P) /\ k < j THEN c[k] ELSE P[k])
    BY <2>2
  <2>. HIDE DEF P, S
  <2>. QED  BY <2>3, <2>4, <2>5
<1>14. PlanBefore(b, c, i) = c
  <2>1. ASSUME NEW k \in DOMAIN P, ~(k \in Pending(P) /\ k < i)  PROVE P[k] = c[k]
    <3>1. k \notin S
      BY <1>2, <1>12, <2>1
    <3>2. k \in DOMAIN c \ S
      BY <1>2, <3>1
    <3>. QED  BY <1>1, <3>2 DEF Core
  <2>2. PlanBefore(b, c, i) = [k \in DOMAIN P |-> IF k \in Pending(P) /\ k < i THEN c[k] ELSE P[k]]
    BY DEF PlanBefore, Executes
  <2>3. c = [k \in 1..Len(c) |-> c[k]]
    BY <1>1, CohortFacts DEF Core
  <2>. HIDE DEF P, S
  <2>. QED  BY <1>2, <2>1, <2>2, <2>3
<1>15. ASSUME NEW j \in S  PROVE RecordOf(d, f, j)
  <2>1. RecordOf(b, c, j) /\ j # i /\ j \in DOMAIN c /\ j \in 1..MaxRows
    <3>1. S \subseteq DOMAIN c
      BY <1>2 DEF Pending
    <3>. QED  BY <1>1, <1>3, <1>11, <3>1 DEF Core
  <2>2. f[j] = c[j] /\ d.trials[j] = b.trials[j]
    BY <1>5, <1>10, <2>1
  <2>3. PlanBefore(d, f, j) = PlanBefore(b, c, j)
    BY <1>13
  <2>. QED  BY <1>8, <2>1, <2>2, <2>3 DEF RecordOf
<1>16. RecordOf(d, f, i)
  <2>1. d.trials[i] = t
    BY <1>10, <1>11
  <2>2. PlanBefore(d, f, i) = c
    BY <1>13, <1>14
  <2>3. c[i] = P[i]
    BY <1>1, <1>3, <1>4 DEF Core
  <2>. QED  BY <1>6, <1>8, <2>1, <2>2, <2>3 DEF RecordOf
<1>17. ASSUME NEW n \in 1..(e + 1)  PROVE Agenda(P)[n] \in S \union {i}
  <2>1. n \in 1..e \/ n = e + 1
    BY <1>2
  <2>. QED  BY <1>1, <2>1 DEF Core
<1>18. \A j \in 1..MaxRows : (d.trials[j] # NoRecord <=> j \in S \union {i})
  <2>1. t # NoRecord
    <3>1. NoRecord.kind = "NONE" /\ t.kind = "TRIAL"
      BY <1>8 DEF NoRecord
    <3>. QED  BY <1>8, <3>1
  <2>2. \A j \in 1..MaxRows : (b.trials[j] # NoRecord <=> j \in S)
    BY <1>1 DEF Core
  <2>. HIDE DEF S
  <2>. QED  BY <1>10, <2>1, <2>2
<1>19. Core(d, f)
  <2>1. PlanReadable(d)
    BY <1>1, <1>8 DEF Core, PlanReadable
  <2>2. /\ IsCohort(P) /\ Len(P) <= MaxRows /\ DOMAIN f = DOMAIN P
        /\ Pending(f) \subseteq Pending(P) /\ ~d.torn /\ d.final = Missing
    BY <1>1, <1>5, <1>7, <1>8 DEF Core
  <2>3. \A j \in DOMAIN f \ (S \union {i}) : f[j] = P[j]
    <3>1. \A j \in DOMAIN c \ S : c[j] = P[j]
      BY <1>1 DEF Core
    <3>. HIDE DEF P, S
    <3>. QED  BY <1>5, <3>1
  <2>4. \A j \in S \union {i}, k \in Pending(f) : j < k
    <3>1. \A j \in S, k \in Pending(c) : j < k
      BY <1>1 DEF Core
    <3>2. \A k \in Pending(f) : i <= k /\ i # k /\ k \in Nat /\ i \in Nat
      BY <1>2, <1>4, <1>7 DEF Pending
    <3>3. \A k \in Pending(f) : i < k
      BY <3>2
    <3>4. Pending(f) \subseteq Pending(c)
      BY <1>7
    <3>. HIDE DEF S
    <3>. QED  BY <3>1, <3>3, <3>4
  <2>5. \A n \in 1..Cardinality(Past(d, f)) : Agenda(P)[n] \in S \union {i}
    BY <1>3, <1>9, <1>17
  <2>. HIDE DEF S, P
  <2>. QED  BY <1>8, <1>9, <1>15, <1>16, <1>18, <2>1, <2>2, <2>3, <2>4, <2>5 DEF Core
<1>20. Tells(d, f, 2 * (e + 1))
  <2>1. /\ Len(b.journal) = 2 * e + 2 /\ b.journal[1] = CohortStarted(P)
        /\ \A n \in 2..(2 * e + 2) : b.journal[n] = RowAt(n, Agenda(P), c)
    BY <1>1, <1>2 DEF Tells
  <2>2. ASSUME NEW n \in 2..(2 * e + 2)  PROVE RowAt(n, Agenda(P), f) = RowAt(n, Agenda(P), c)
    <3>1. CASE n = 2 * (n \div 2)
      BY <3>1 DEF RowAt
    <3>2. CASE n # 2 * (n \div 2)
      <4>1. n \div 2 \in 1..e
        BY <1>2, <3>2
      <4>2. Agenda(P)[n \div 2] \in S
        BY <1>1, <4>1 DEF Core
      <4>3. Agenda(P)[n \div 2] # i /\ Agenda(P)[n \div 2] \in DOMAIN c
        BY <1>2, <1>3, <4>2 DEF Pending
      <4>. HIDE DEF P, S
      <4>. QED  BY <1>5, <3>2, <4>3 DEF RowAt
    <3>. QED  BY <3>1, <3>2
  <2>3. 2 * (e + 1) = 2 * e + 2
    BY <1>2
  <2>. HIDE DEF P, S, e
  <2>. QED  BY <1>8, <2>1, <2>2, <2>3 DEF Tells
<1>21. Cardinality(Past(d, f)) = e + 1 /\ i \in Past(d, f)
  BY <1>3, <1>9
<1>. HIDE DEF P, S, e
<1>22. e + 1 >= 1
  BY <1>2
<1>23. Agenda(d.plan.cohort)[Cardinality(Past(d, f))] = i
  BY <1>1, <1>8, <1>21
<1>. QED  BY <1>1, <1>8, <1>19, <1>20, <1>21, <1>22, <1>23 DEF Running

\* The final snapshot is written: everything is executed.
LEMMA Completed ==
    ASSUME NEW b, NEW c, NEW m, Running(b, c, "next", m), Pending(c) = {},
           NEW d, d.plan = b.plan, d.journal = b.journal, d.torn = b.torn, d.trials = b.trials,
           d.final = File(c)
    PROVE  Complete(d)
<1>. DEFINE P == b.plan.cohort
            e == Cardinality(Past(b, c))
<1>1. Core(b, c) /\ Tells(b, c, 2 * e + 1)
  BY DEF Running
<1>2. Past(b, c) = Pending(P) /\ Executes(d) = Pending(P) /\ d.plan.cohort = P
  BY DEF Past, Executes
<1>3. d.final.cohort = c
  BY DEF File
<1>4. ASSUME NEW i \in DOMAIN P
      PROVE  c[i].status = "FINISHED" /\ (i \notin Pending(P) => c[i] = P[i])
  <2>1. i \in DOMAIN c /\ RowOK(c[i])
    BY <1>1 DEF Core, IsCohort
  <2>2. c[i].status = "FINISHED"
    BY <2>1 DEF Pending, RowOK
  <2>. QED  BY <1>1, <1>2, <2>1, <2>2 DEF Core
<1>5. ASSUME NEW i  PROVE PlanBefore(d, c, i) = PlanBefore(b, c, i)
  BY DEF PlanBefore, Executes
<1>6. \A i \in Pending(P) : RecordOf(d, c, i)
  <2>1. \A i \in Pending(P) : RecordOf(b, c, i)
    BY <1>1, <1>2 DEF Core
  <2>. QED  BY <1>5, <2>1 DEF RecordOf
<1>7. \A i \in 1..MaxRows : (d.trials[i] # NoRecord <=> i \in Pending(P))
  BY <1>1, <1>2 DEF Core
<1>11. \A n \in 1..Cardinality(Executes(d)) : Agenda(P)[n] \in Executes(d)
  BY <1>1, <1>2 DEF Core
<1>8. Tells(d, c, 2 * Cardinality(Executes(d)) + 1)
  BY <1>1, <1>2 DEF Tells
<1>9. PlanReadable(d)
  BY <1>1 DEF Core, PlanReadable
<1>10. IsCohort(P) /\ IsCohort(c) /\ Len(P) <= MaxRows /\ DOMAIN c = DOMAIN P /\ ~d.torn
  BY <1>1 DEF Core
<1>. HIDE DEF P, e
<1>. QED  BY <1>2, <1>3, <1>4, <1>6, <1>7, <1>8, <1>9, <1>10, <1>11 DEF Complete
-----------------------------------------------------------------------------
(* Every step of the whole                                                 *)

\* A step of the batch in progress leaves the others alone.
LEMMA OthersStay ==
    ASSUME BInv, pc # "idle", NEW b, Batch(b)
    PROVE  /\ Len(batches) \in DOMAIN batches /\ Last = batches[Len(batches)]
           /\ DOMAIN batches = 1..Len(batches) /\ DOMAIN batches' = 1..Len(batches)
           /\ Len(batches') = Len(batches) /\ batches'[Len(batches)] = b /\ Last' = b
           /\ \A k \in DOMAIN batches : k # Len(batches) => batches'[k] = batches[k]
<1>. DEFINE n == Len(batches)
<1>1. /\ n \in Nat /\ DOMAIN batches = 1..n /\ batches = [k \in 1..n |-> batches[k]]
      /\ n \in 1..n
  BY LastFacts DEF BInv
<1>2. batches' = [k \in 1..n |-> IF k = n THEN b ELSE batches[k]]
  BY <1>1 DEF Batch
<1>. HIDE DEF n
<1>3. /\ DOMAIN batches' = 1..n /\ batches' = [k \in 1..n |-> batches'[k]]
      /\ batches'[n] = b /\ \A k \in 1..n : k # n => batches'[k] = batches[k]
  BY <1>1, <1>2
<1>4. Len(batches') = n
  BY <1>1, <1>3, IsSequenceFacts
<1>5. Last' = b
  BY <1>3, <1>4 DEF Last
<1>. QED  BY <1>1, <1>3, <1>4, <1>5 DEF Last, n

\* If what becomes of it is kept, everything is.
LEMMA StillKept ==
    ASSUME BInv, EvidenceInv, pc # "idle", NEW b, Batch(b), Kept(b)
    PROVE  \A k \in DOMAIN batches' : Kept(batches'[k])
<1>1. ASSUME NEW k \in DOMAIN batches'  PROVE Kept(batches'[k])
  <2>1. k \in DOMAIN batches /\ Kept(batches[k])
    BY OthersStay DEF EvidenceInv
  <2>2. CASE k = Len(batches)
    BY <2>2, OthersStay
  <2>3. CASE k # Len(batches)
    BY <2>1, <2>3, OthersStay
  <2>. QED  BY <2>2, <2>3
<1>. QED  BY <1>1

\* A batch in progress is kept, whatever else there is in its directory.
LEMMA RunningKept ==
    ASSUME NEW b, BatchOK(b), NEW c, NEW where \in Executing, NEW i, Running(b, c, where, i),
           NEW d, d.plan = b.plan, d.journal = b.journal, d.final.status # "PRESENT"
    PROVE  Kept(d)
BY RunningPrefix DEF Kept

\* It has no final snapshot, and stands for itself.
LEMMA RunningItself ==
    ASSUME NEW b, BatchOK(b), NEW c, NEW where \in Executing, NEW i, Running(b, c, where, i)
    PROVE  b.final.status # "PRESENT" /\ Kept(b)
<1>1. b.final.status # "PRESENT"
  BY DEF Running, Core, Missing
<1>. QED  BY <1>1, RunningKept

\* The final snapshot is kept too.
LEMMA CompletedKept ==
    ASSUME NEW b, BatchOK(b), NEW c, NEW m, Running(b, c, "next", m), Pending(c) = {},
           NEW d, d.plan = b.plan, d.journal = b.journal, d.torn = b.torn, d.trials = b.trials,
           d.final = File(c)
    PROVE  Kept(d)
<1>1. Complete(d)
  BY Completed
<1>2. d.opened => PrefixValid(d)
  BY RunningPrefix DEF Executing
<1>. QED  BY <1>1, <1>2 DEF Kept

\* The fields that the writes of whole files leave alone.
LEMMA OtherFields ==
    ASSUME NEW b, BatchOK(b), NEW x
    PROVE  /\ LET d == [b EXCEPT !.plan = x] IN
              /\ d.plan = x /\ d.journal = b.journal /\ d.torn = b.torn
              /\ d.trials = b.trials /\ d.final = b.final /\ d.opened = b.opened
           /\ LET d == [b EXCEPT !.final = x] IN
              /\ d.plan = b.plan /\ d.journal = b.journal /\ d.torn = b.torn
              /\ d.trials = b.trials /\ d.final = x
           /\ LET d == Torn(b) IN
              d.plan = b.plan /\ d.journal = b.journal /\ d.final = b.final
           /\ LET d == [b EXCEPT !.opened = TRUE] IN
              d.plan = b.plan /\ d.journal = b.journal /\ d.final = b.final
BY DEF BatchOK, Shaped, Torn

\* The fields that an export leaves alone.
LEMMA ExportFields ==
    ASSUME NEW b, BatchOK(b), NEW t
    PROVE  LET d == Exported(b, t) IN
           /\ d.plan = b.plan /\ d.journal = b.journal /\ d.opened = b.opened
           /\ d.torn = b.torn /\ d.final = b.final /\ d.trials = [b.trials EXCEPT ![at] = t]
BY DEF BatchOK, Shaped, Exported

\* The trial of run_preflight.
LEMMA TrialStep ==
    ASSUME BInv, CInv, EvidenceInv, pc = "trial", Valid(current), NEW a \in Assessments
    PROVE  /\ Running(Exported(Last, Trial(a)), Finished(a), "finish", at)
           /\ BatchOK(Exported(Last, Trial(a)))
<1>1. PICK b : b = Last
  OBVIOUS
<1>2. BatchOK(b) /\ Running(b, current, "trial", at)
  BY <1>1, LastQuiet DEF Quiet, EvidenceInv, Executing
<1>3. at \in Pending(current) /\ Sound(current)
  BY DEF CInv
<1>4. IsCohort(Finished(a))
  BY <1>3, FinishedSound DEF Sound
<1>5. PICK t : t = Trial(a)
  OBVIOUS
<1>6. t.kind = "TRIAL" /\ t.plan = current /\ t.id = at /\ t.assessment = a
  BY <1>5 DEF Trial
<1>7. PICK d : d = Exported(b, t)
  OBVIOUS
<1>8. /\ d.plan = b.plan /\ d.journal = b.journal /\ d.opened = b.opened
      /\ d.torn = b.torn /\ d.final = b.final /\ d.trials = [b.trials EXCEPT ![at] = t]
  BY <1>2, <1>7, ExportFields
<1>9. Finished(a) = [current EXCEPT ![at] = FinishedRow(current[at], a, t)]
  BY <1>5 DEF Finished
<1>10. Recorded(b, current, at, a, t, Finished(a), d)
  BY <1>6, <1>8, <1>9 DEF Recorded
<1>11. Running(d, Finished(a), "finish", at)
  BY <1>2, <1>4, <1>10, TrialRecorded
<1>12. BatchOK(d)
  BY <1>1, <1>7, TrialExported DEF Quiet
<1>. QED  BY <1>1, <1>5, <1>7, <1>11, <1>12

\* Whatever interrupts it, what a batch leaves is kept.
LEMMA CutKept ==
    ASSUME BInv, CInv, EvidenceInv, pc # "idle", Cut
    PROVE  \E b : Batch(b) /\ Kept(b)
<1>1. PICK l : l = Last
  OBVIOUS
<1>2. BatchOK(l)
  BY <1>1, LastQuiet DEF Quiet
<1>3. Kept(l)
  <2>1. Len(batches) \in DOMAIN batches
    BY LastFacts DEF BInv
  <2>. QED  BY <1>1, <2>1 DEF EvidenceInv, Last
<1>4. CASE Batch(l)
  BY <1>3, <1>4
<1>5. CASE pc = "plan"
  <2>1. l.opened = FALSE /\ l.final = Missing
    BY <1>1, <1>5 DEF EvidenceInv, NewBatch
  <2>2. ASSUME NEW x  PROVE Kept([l EXCEPT !.plan = x])
    <3>1. PICK d : d = [l EXCEPT !.plan = x]
      OBVIOUS
    <3>2. d.opened = FALSE /\ d.final = Missing
      BY <1>2, <2>1, <3>1, OtherFields
    <3>. QED  BY <3>1, <3>2 DEF Kept, Missing
  <2>3. \/ Batch(l) \/ Batch([l EXCEPT !.plan = Invalid])
        \/ Batch([l EXCEPT !.plan = File(current)])
    BY <1>1, <1>5 DEF Cut
  <2>. QED  BY <1>3, <2>2, <2>3
<1>6. CASE pc \in Executing
  <2>1. Running(l, current, pc, at)
    BY <1>1, <1>6 DEF EvidenceInv
  <2>2. l.final.status # "PRESENT"
    BY <1>2, <1>6, <2>1, RunningItself
  <2>3. ASSUME NEW d, d.plan = l.plan, d.journal = l.journal, d.final.status # "PRESENT"
        PROVE  Kept(d)
    BY <1>2, <1>6, <2>1, <2>3, RunningKept
  <2>4. Kept(Torn(l)) /\ Kept([l EXCEPT !.opened = TRUE])
    <3>1. PICK d : d = Torn(l)
      OBVIOUS
    <3>2. PICK e : e = [l EXCEPT !.opened = TRUE]
      OBVIOUS
    <3>3. d.plan = l.plan /\ d.journal = l.journal /\ d.final = l.final
      BY <1>2, <3>1, OtherFields
    <3>4. e.plan = l.plan /\ e.journal = l.journal /\ e.final = l.final
      BY <1>2, <3>2, OtherFields
    <3>. QED  BY <2>2, <2>3, <3>1, <3>2, <3>3, <3>4
  <2>5. ASSUME NEW x, x.status # "PRESENT"  PROVE Kept([l EXCEPT !.final = x])
    <3>1. PICK d : d = [l EXCEPT !.final = x]
      OBVIOUS
    <3>2. d.plan = l.plan /\ d.journal = l.journal /\ d.final = x
      BY <1>2, <3>1, OtherFields
    <3>. QED  BY <2>3, <2>5, <3>1, <3>2
  <2>6. ASSUME NEW t  PROVE Kept(Exported(l, t))
    <3>1. PICK d : d = Exported(l, t)
      OBVIOUS
    <3>2. d.plan = l.plan /\ d.journal = l.journal /\ d.final = l.final
      BY <1>2, <3>1, ExportFields
    <3>. QED  BY <2>2, <2>3, <3>1, <3>2
  <2>7. ASSUME NEW d, BatchOK(d), NEW where \in Executing, NEW i, Running(d, current, where, i)
        PROVE  Kept(d)
    BY <2>7, RunningItself
  <2>8. CASE pc = "started" /\ Batch(Logged(l, CohortStarted(current)))
    <3>1. Running(Logged(l, CohortStarted(current)), current, "next", at)
      BY <1>2, <2>1, <2>8, CohortLogged
    <3>2. BatchOK(Logged(l, CohortStarted(current)))
      BY <1>1, <2>8, CohortAppended DEF Quiet
    <3>. QED  BY <2>7, <2>8, <3>1, <3>2 DEF Executing
  <2>9. CASE pc = "next" /\ \E i \in Pending(current) :
                IsFirst(i, current) /\ Batch(Logged(l, AllocationStarted(i)))
    <3>1. PICK i : IsFirst(i, current) /\ Batch(Logged(l, AllocationStarted(i)))
      BY <2>9
    <3>2. Running(Logged(l, AllocationStarted(i)), current, "trial", i)
      BY <1>2, <2>1, <2>9, <3>1, StartLogged
    <3>3. BatchOK(Logged(l, AllocationStarted(i)))
      BY <1>1, <2>9, StartAppended DEF Quiet
    <3>. QED  BY <2>7, <3>1, <3>2, <3>3 DEF Executing
  <2>10. CASE pc = "next" /\ Pending(current) = {} /\ Batch([l EXCEPT !.final = File(current)])
    <3>1. PICK d : d = [l EXCEPT !.final = File(current)]
      OBVIOUS
    <3>2. /\ d.plan = l.plan /\ d.journal = l.journal /\ d.torn = l.torn
          /\ d.trials = l.trials /\ d.final = File(current)
      BY <1>2, <3>1, OtherFields
    <3>3. Kept(d)
      BY <1>2, <2>1, <2>10, <3>2, CompletedKept
    <3>. QED  BY <2>10, <3>1, <3>3
  <2>11. CASE pc = "finish" /\ Batch(Logged(l, AllocationFinished(at, current[at])))
    <3>1. PICK row : row = AllocationFinished(at, current[at])
      OBVIOUS
    <3>2. Running(Logged(l, row), current, "next", at)
      BY <1>2, <2>1, <2>11, <3>1, FinishLogged
    <3>3. BatchOK(Logged(l, row))
      BY <1>1, <2>11, <3>1, FinishAppended DEF Quiet
    <3>. QED  BY <2>7, <2>11, <3>1, <3>2, <3>3 DEF Executing
  <2>12. Invalid.status # "PRESENT"
    BY DEF Invalid
  <2>13. \/ Batch(l) \/ Batch(Torn(l)) \/ Batch([l EXCEPT !.opened = TRUE])
         \/ Batch([l EXCEPT !.final = Invalid])
         \/ \E t : Batch(Exported(l, t))
         \/ pc = "started" /\ Batch(Logged(l, CohortStarted(current)))
         \/ pc = "next" /\ \E i \in Pending(current) :
                IsFirst(i, current) /\ Batch(Logged(l, AllocationStarted(i)))
         \/ pc = "next" /\ Pending(current) = {} /\ Batch([l EXCEPT !.final = File(current)])
         \/ pc = "finish" /\ Batch(Logged(l, AllocationFinished(at, current[at])))
    BY <1>1, <1>6 DEF Cut, Executing
  <2>. QED  BY <1>3, <2>4, <2>5, <2>6, <2>8, <2>9, <2>10, <2>11, <2>12, <2>13
<1>7. pc = "plan" \/ pc \in Executing \/ Batch(l)
  BY <1>1 DEF Cut, Executing
<1>. QED  BY <1>4, <1>5, <1>6, <1>7

\* A step of the batch in progress keeps what the directories tell.
LEMMA EvidenceMoves ==
    ASSUME BInv, EvidenceInv, pc # "idle", NEW b, Batch(b), BatchOK(b),
           pc' \in Executing, Running(b, current', pc', at')
    PROVE  EvidenceInv'
<1>1. PICK c, w, i : c = current' /\ w = pc' /\ i = at'
  OBVIOUS
<1>2. Kept(b)
  <2>1. w \in Executing /\ Running(b, c, w, i)
    BY <1>1 DEF Executing
  <2>. QED  BY <2>1, RunningItself
<1>3. \A k \in DOMAIN batches' : Kept(batches'[k])
  BY <1>2, StillKept
<1>4. Last' = b /\ pc' # "plan"
  BY OthersStay DEF Executing
<1>. QED  BY <1>3, <1>4 DEF EvidenceInv, Executing

\* So it is of every step.
LEMMA EvidenceStep ==
    ASSUME BInv, CInv, HistoryInv, [Next]_vars
    PROVE  EvidenceInv'
<1>0. EvidenceInv
  BY DEF HistoryInv
<1>1. CASE AddReplacement
  <2>1. pc = "idle" /\ pc' = "idle" /\ batches' = batches
    BY <1>1 DEF AddReplacement
  <2>. QED  BY <1>0, <2>1 DEF EvidenceInv, Executing
<1>2. CASE RunPreflight
  <2>1. pc' = "plan" /\ batches' = Append(batches, NewBatch) /\ current' \in manifests
        /\ Valid(current')
    BY <1>2 DEF RunPreflight
  <2>2. PICK n : n = NewBatch
    OBVIOUS
  <2>3. /\ Len(batches) \in Nat /\ DOMAIN batches = 1..Len(batches)
        /\ Len(batches') = Len(batches) + 1 /\ DOMAIN batches' = 1..(Len(batches) + 1)
        /\ batches'[Len(batches) + 1] = n
        /\ \A i \in 1..Len(batches) : batches'[i] = batches[i]
    BY <2>1, <2>2, Appending, LastFacts DEF BInv
  <2>4. Kept(n)
    BY <2>2 DEF NewBatch, Kept, Missing
  <2>5. \A k \in DOMAIN batches' : Kept(batches'[k])
    BY <1>0, <2>3, <2>4 DEF EvidenceInv
  <2>6. Last' = NewBatch
    BY <2>2, <2>3 DEF Last
  <2>7. Len(current') <= MaxRows
    BY <2>1 DEF HistoryInv, OriginInv
  <2>. QED  BY <2>1, <2>5, <2>6, <2>7 DEF EvidenceInv, Executing
<1>3. CASE WritePlan
  <2>1. PICK b : b = [Last EXCEPT !.plan = File(current)]
    OBVIOUS
  <2>2. PICK l : l = Last
    OBVIOUS
  <2>3. pc = "plan" /\ pc' = "started" /\ Batch(b) /\ current' = current
    BY <1>3, <2>1 DEF WritePlan
  <2>4. l = NewBatch /\ Valid(current) /\ Len(current) <= MaxRows /\ IsCohort(current)
    BY <1>0, <2>2, <2>3 DEF EvidenceInv, CInv, Sound
  <2>5. BatchOK(l) /\ b = [l EXCEPT !.plan = File(current)]
    BY <2>1, <2>2, <2>3, LastQuiet DEF Quiet
  <2>6. b.plan = File(current) /\ b.journal = l.journal /\ b.torn = l.torn
        /\ b.trials = l.trials /\ b.final = l.final
    BY <2>5, OtherFields
  <2>7. l.journal = <<>> /\ ~l.torn /\ l.final = Missing
        /\ l.trials = [i \in 1..MaxRows |-> NoRecord]
    BY <2>4 DEF NewBatch
  <2>8. Running(b, current, "started", at')
    BY <2>4, <2>6, <2>7, PlanWritten
  <2>9. BatchOK(b)
    BY <2>1, <2>3, FilesOfLast, FileWritten DEF Quiet
  <2>. QED  BY <1>0, <2>3, <2>8, <2>9, EvidenceMoves DEF Executing
<1>4. CASE AppendCohort
  <2>1. PICK l : l = Last
    OBVIOUS
  <2>2. PICK b : b = Logged(l, CohortStarted(current))
    OBVIOUS
  <2>3. pc = "started" /\ pc' = "next" /\ Batch(b) /\ current' = current
    BY <1>4, <2>1, <2>2 DEF AppendCohort
  <2>4. BatchOK(l) /\ Running(l, current, "started", at)
    BY <1>0, <2>1, <2>3, LastQuiet DEF Quiet, EvidenceInv, Executing
  <2>5. Running(b, current, "next", at')
    BY <2>2, <2>4, CohortLogged
  <2>6. BatchOK(b)
    BY <2>1, <2>2, <2>3, CohortAppended DEF Quiet
  <2>. QED  BY <1>0, <2>3, <2>5, <2>6, EvidenceMoves DEF Executing
<1>5. CASE StartAllocation
  <2>1. PICK l : l = Last
    OBVIOUS
  <2>2. PICK i : IsFirst(i, current) /\ at' = i /\ Batch(Logged(l, AllocationStarted(i)))
    BY <1>5, <2>1 DEF StartAllocation
  <2>3. PICK b : b = Logged(l, AllocationStarted(i))
    OBVIOUS
  <2>4. pc = "next" /\ pc' = "trial" /\ Batch(b) /\ current' = current
    BY <1>5, <2>2, <2>3 DEF StartAllocation
  <2>5. BatchOK(l) /\ Running(l, current, "next", at)
    BY <1>0, <2>1, <2>4, LastQuiet DEF Quiet, EvidenceInv, Executing
  <2>6. Running(b, current, "trial", i)
    BY <2>2, <2>3, <2>5, StartLogged
  <2>7. BatchOK(b)
    BY <2>1, <2>3, <2>4, StartAppended DEF Quiet
  <2>. QED  BY <1>0, <2>2, <2>4, <2>6, <2>7, EvidenceMoves DEF Executing
<1>6. CASE RunTrial
  <2>1. PICK a \in Assessments : Batch(Exported(Last, Trial(a))) /\ current' = Finished(a)
    BY <1>6 DEF RunTrial
  <2>2. PICK b : b = Exported(Last, Trial(a))
    OBVIOUS
  <2>3. pc = "trial" /\ pc' = "finish" /\ Batch(b) /\ at' = at /\ Valid(current)
    BY <1>6, <2>1, <2>2 DEF RunTrial
  <2>4. Running(b, current', "finish", at') /\ BatchOK(b)
    BY <1>0, <2>1, <2>2, <2>3, TrialStep
  <2>. QED  BY <1>0, <2>3, <2>4, EvidenceMoves DEF Executing
<1>7. CASE AppendFinished
  <2>1. PICK l : l = Last
    OBVIOUS
  <2>2. PICK row : row = AllocationFinished(at, current[at])
    OBVIOUS
  <2>3. PICK b : b = Logged(l, row)
    OBVIOUS
  <2>4. pc = "finish" /\ pc' = "next" /\ Batch(b) /\ current' = current
    BY <1>7, <2>1, <2>2, <2>3 DEF AppendFinished
  <2>5. BatchOK(l) /\ Running(l, current, "finish", at)
    BY <1>0, <2>1, <2>4, LastQuiet DEF Quiet, EvidenceInv, Executing
  <2>6. Running(b, current, "next", at')
    BY <2>2, <2>3, <2>5, FinishLogged
  <2>7. BatchOK(b)
    BY <2>1, <2>2, <2>3, <2>4, FinishAppended DEF Quiet
  <2>. QED  BY <1>0, <2>4, <2>6, <2>7, EvidenceMoves DEF Executing
<1>8. CASE Finish
  <2>1. PICK l : l = Last
    OBVIOUS
  <2>2. PICK b : b = [l EXCEPT !.final = File(current)]
    OBVIOUS
  <2>3. pc = "next" /\ pc' = "idle" /\ Batch(b) /\ Pending(current) = {}
    BY <1>8, <2>1, <2>2 DEF Finish, Leave
  <2>4. BatchOK(l) /\ Running(l, current, "next", at)
    BY <1>0, <2>1, <2>3, LastQuiet DEF Quiet, EvidenceInv, Executing
  <2>5. /\ b.plan = l.plan /\ b.journal = l.journal /\ b.torn = l.torn
        /\ b.trials = l.trials /\ b.final = File(current)
    BY <2>2, <2>4, OtherFields
  <2>6. Kept(b)
    BY <2>3, <2>4, <2>5, CompletedKept
  <2>7. \A k \in DOMAIN batches' : Kept(batches'[k])
    BY <1>0, <2>3, <2>6, StillKept
  <2>. QED  BY <2>3, <2>7 DEF EvidenceInv, Executing
<1>9. CASE Interrupt
  <2>1. pc # "idle" /\ pc' = "idle" /\ Cut
    BY <1>9 DEF Interrupt, Leave
  <2>2. PICK b : Batch(b) /\ Kept(b)
    BY <1>0, <2>1, CutKept
  <2>3. \A k \in DOMAIN batches' : Kept(batches'[k])
    BY <1>0, <2>1, <2>2, StillKept
  <2>. QED  BY <2>1, <2>3 DEF EvidenceInv, Executing
<1>10. CASE UNCHANGED vars
  BY <1>0, <1>10 DEF vars, EvidenceInv, Last
<1>. QED  BY <1>1, <1>2, <1>3, <1>4, <1>5, <1>6, <1>7, <1>8, <1>9, <1>10 DEF Next
-----------------------------------------------------------------------------
(* Where manifests come from                                               *)

\* A step keeps the snapshots, and writes no plan but that of the batch in progress.
FinalsStay ==
    \A k \in DOMAIN batches : batches[k].final.status = "PRESENT" =>
        k \in DOMAIN batches' /\ batches'[k] = batches[k]

PlansStay ==
    \A k \in DOMAIN batches' : batches'[k].plan.status = "PRESENT" =>
        \/ k \in DOMAIN batches /\ batches'[k].plan = batches[k].plan
        \/ k \in DOMAIN batches /\ pc = "plan" /\ k = Len(batches)
           /\ batches'[k].plan.cohort = current

\* The step of a batch in progress.
LEMMA BatchMoves ==
    ASSUME BInv, EvidenceInv, pc # "idle", NEW b, Batch(b),
           b.plan.status = "PRESENT" =>
               b.plan = Last.plan \/ (pc = "plan" /\ b.plan.cohort = current)
    PROVE  FinalsStay /\ PlansStay
<1>1. Last.final.status # "PRESENT"
  <2>1. CASE pc = "plan"
    BY <2>1 DEF EvidenceInv, NewBatch, Missing
  <2>2. CASE pc \in Executing
    BY <2>2 DEF EvidenceInv, Running, Core, Missing
  <2>. QED  BY <2>1, <2>2 DEF EvidenceInv
<1>2. /\ Len(batches) \in DOMAIN batches /\ Last = batches[Len(batches)]
      /\ DOMAIN batches' = DOMAIN batches /\ batches'[Len(batches)] = b
      /\ \A k \in DOMAIN batches : k # Len(batches) => batches'[k] = batches[k]
  BY OthersStay
<1>3. FinalsStay
  BY <1>1, <1>2 DEF FinalsStay
<1>4. PlansStay
  BY <1>2 DEF PlansStay
<1>. QED  BY <1>3, <1>4

\* What the end of a batch leaves of its plan.
LEMMA CutPlan ==
    ASSUME BInv, pc # "idle", Cut
    PROVE  \E b : /\ Batch(b)
                  /\ b.plan.status = "PRESENT" =>
                        b.plan = Last.plan \/ (pc = "plan" /\ b.plan.cohort = current)
<1>. DEFINE Kind(b) == b.plan.status = "PRESENT" =>
                         b.plan = Last.plan \/ (pc = "plan" /\ b.plan.cohort = current)
<1>1. PICK l : l = Last
  OBVIOUS
<1>2. BatchOK(l)
  BY <1>1, LastQuiet DEF Quiet
<1>3. ASSUME NEW b, b.plan = l.plan  PROVE Kind(b)
  BY <1>1, <1>3
<1>4. Kind(Torn(l)) /\ Kind([l EXCEPT !.opened = TRUE]) /\ Kind(l)
  <2>1. PICK d, e : d = Torn(l) /\ e = [l EXCEPT !.opened = TRUE]
    OBVIOUS
  <2>2. d.plan = l.plan /\ e.plan = l.plan
    BY <1>2, <2>1, OtherFields
  <2>. QED  BY <1>1, <2>1, <2>2
<1>5. \A x : Kind([l EXCEPT !.final = x])
  <2>. TAKE x
  <2>1. PICK d : d = [l EXCEPT !.final = x]
    OBVIOUS
  <2>2. d.plan = l.plan
    BY <1>2, <2>1, OtherFields
  <2>. QED  BY <1>1, <2>1, <2>2
<1>6. \A x : Kind(Exported(l, x))
  <2>. TAKE x
  <2>1. PICK d : d = Exported(l, x)
    OBVIOUS
  <2>2. d.plan = l.plan
    BY <1>2, <2>1, ExportFields
  <2>. QED  BY <1>1, <2>1, <2>2
<1>7. \A x : Kind(Logged(l, x))
  <2>. TAKE x
  <2>1. PICK d : d = Logged(l, x)
    OBVIOUS
  <2>2. d.plan = l.plan
    BY <1>2, <2>1, RowFields
  <2>. QED  BY <1>1, <2>1, <2>2
<1>8. Kind([l EXCEPT !.plan = Invalid]) /\ (pc = "plan" => Kind([l EXCEPT !.plan = File(current)]))
  <2>1. PICK d, e : d = [l EXCEPT !.plan = Invalid] /\ e = [l EXCEPT !.plan = File(current)]
    OBVIOUS
  <2>2. d.plan = Invalid /\ e.plan = File(current)
    BY <1>2, <2>1, OtherFields
  <2>3. Invalid.status # "PRESENT" /\ File(current).cohort = current
    BY DEF Invalid, File
  <2>. QED  BY <2>1, <2>2, <2>3
<1>9. \/ Batch(l) \/ Batch(Torn(l)) \/ Batch([l EXCEPT !.opened = TRUE])
      \/ \E x : Batch([l EXCEPT !.final = x])
      \/ \E x : Batch(Exported(l, x))
      \/ \E x : Batch(Logged(l, x))
      \/ Batch([l EXCEPT !.plan = Invalid])
      \/ pc = "plan" /\ Batch([l EXCEPT !.plan = File(current)])
  BY <1>1 DEF Cut
<1>10. \E b : Batch(b) /\ Kind(b)
  <2>. HIDE DEF Kind
  <2>. QED  BY <1>4, <1>5, <1>6, <1>7, <1>8, <1>9
<1>. QED  BY <1>10

\* No step loses a snapshot or alters a plan.
LEMMA FilesStay ==
    ASSUME BInv, EvidenceInv, [Next]_vars
    PROVE  FinalsStay /\ PlansStay
<1>. DEFINE Kind(b) == b.plan.status = "PRESENT" =>
                         b.plan = Last.plan \/ (pc = "plan" /\ b.plan.cohort = current)
<1>1. CASE batches' = batches
  BY <1>1 DEF FinalsStay, PlansStay
<1>2. CASE RunPreflight
  <2>1. PICK n : n = NewBatch
    OBVIOUS
  <2>2. batches' = Append(batches, n)
    BY <1>2, <2>1 DEF RunPreflight
  <2>3. /\ Len(batches) \in Nat /\ DOMAIN batches = 1..Len(batches)
        /\ DOMAIN batches' = 1..(Len(batches) + 1)
        /\ batches'[Len(batches) + 1] = n
        /\ \A i \in 1..Len(batches) : batches'[i] = batches[i]
    BY <2>2, Appending, LastFacts DEF BInv
  <2>4. n.plan.status # "PRESENT"
    BY <2>1 DEF NewBatch, Missing
  <2>5. \A k \in 1..(Len(batches) + 1) : k \in 1..Len(batches) \/ k = Len(batches) + 1
    BY <2>3
  <2>6. \A k \in 1..Len(batches) : k \in 1..(Len(batches) + 1)
    BY <2>3
  <2>. QED  BY <2>3, <2>4, <2>5, <2>6 DEF FinalsStay, PlansStay
<1>3. ASSUME pc # "idle", \E b : Batch(b) /\ Kind(b)
      PROVE  FinalsStay /\ PlansStay
  BY <1>3, BatchMoves
<1>4. CASE pc # "idle" /\ (WritePlan \/ AppendCohort \/ StartAllocation \/ RunTrial
                            \/ AppendFinished \/ Finish)
  <2>1. PICK l : l = Last
    OBVIOUS
  <2>2. BatchOK(l)
    BY <1>4, <2>1, LastQuiet DEF Quiet
  <2>3. \A x : Kind([l EXCEPT !.final = x])
    <3>. TAKE x
    <3>1. PICK d : d = [l EXCEPT !.final = x]
      OBVIOUS
    <3>2. d.plan = l.plan
      BY <2>2, <3>1, OtherFields
    <3>. QED  BY <2>1, <3>1, <3>2
  <2>4. \A x : Kind(Exported(l, x))
    <3>. TAKE x
    <3>1. PICK d : d = Exported(l, x)
      OBVIOUS
    <3>2. d.plan = l.plan
      BY <2>2, <3>1, ExportFields
    <3>. QED  BY <2>1, <3>1, <3>2
  <2>5. \A x : Kind(Logged(l, x))
    <3>. TAKE x
    <3>1. PICK d : d = Logged(l, x)
      OBVIOUS
    <3>2. d.plan = l.plan
      BY <2>2, <3>1, RowFields
    <3>. QED  BY <2>1, <3>1, <3>2
  <2>6. pc = "plan" => Kind([l EXCEPT !.plan = File(current)])
    <3>1. PICK e : e = [l EXCEPT !.plan = File(current)]
      OBVIOUS
    <3>2. e.plan = File(current)
      BY <2>2, <3>1, OtherFields
    <3>3. File(current).cohort = current
      BY DEF File
    <3>. QED  BY <3>1, <3>2, <3>3
  <2>7. \/ \E x : Batch([l EXCEPT !.final = x])
        \/ \E x : Batch(Exported(l, x))
        \/ \E x : Batch(Logged(l, x))
        \/ pc = "plan" /\ Batch([l EXCEPT !.plan = File(current)])
    BY <1>4, <2>1 DEF WritePlan, AppendCohort, StartAllocation, RunTrial, AppendFinished, Finish
  <2>8. \E b : Batch(b) /\ Kind(b)
    <3>. HIDE DEF Kind
    <3>. QED  BY <2>3, <2>4, <2>5, <2>6, <2>7
  <2>. QED  BY <1>3, <1>4, <2>8
<1>5. CASE Interrupt
  BY <1>3, <1>5, CutPlan DEF Interrupt
<1>6. \/ batches' = batches \/ RunPreflight \/ Interrupt
      \/ pc # "idle" /\ (WritePlan \/ AppendCohort \/ StartAllocation \/ RunTrial
                         \/ AppendFinished \/ Finish)
  BY DEF Next, vars, AddReplacement, WritePlan, AppendCohort, StartAllocation, RunTrial,
         AppendFinished, Finish
<1>. QED  BY <1>1, <1>2, <1>4, <1>5, <1>6

\* A manifest that stems from an earlier batch still does.
LEMMA OriginStays ==
    ASSUME FinalsStay, IsSequence(batches), IsSequence(batches'),
           NEW n \in 0..Len(batches), NEW m, Origin(m, n), NEW p \in Nat, n <= p
    PROVE  Origin(m, p)'
<1>1. CASE Done(m) = {}
  BY <1>1 DEF Origin
<1>2. CASE \E j \in 1..n : /\ batches[j].final.status = "PRESENT"
                           /\ IsExtension(batches[j].final.cohort, m)
                           /\ Done(m) = DOMAIN batches[j].final.cohort
  <2>1. PICK j \in 1..n : /\ batches[j].final.status = "PRESENT"
                          /\ IsExtension(batches[j].final.cohort, m)
                          /\ Done(m) = DOMAIN batches[j].final.cohort
    BY <1>2
  <2>2. j \in DOMAIN batches /\ j \in 1..p
    BY LastFacts
  <2>3. batches'[j] = batches[j]
    BY <2>1, <2>2 DEF FinalsStay
  <2>. QED  BY <2>1, <2>2, <2>3 DEF Origin
<1>. QED  BY <1>1, <1>2 DEF Origin

\* A replacement is not executed yet.
LEMMA ReplacementOrigin ==
    ASSUME NEW c, IsCohort(c), NEW arm, NEW parent
    PROVE  LET m == Append(c, Planned(arm, parent)) IN
           /\ Done(m) = Done(c) /\ Len(m) = Len(c) + 1
           /\ \A F : IsExtension(F, c) /\ IsCohort(F) => IsExtension(F, m)
<1>. DEFINE row == Planned(arm, parent)
            m == Append(c, row)
<1>1. /\ Len(m) = Len(c) + 1 /\ DOMAIN m = 1..(Len(c) + 1) /\ m[Len(c) + 1] = row
      /\ \A i \in 1..Len(c) : m[i] = c[i]
  BY AppendFacts
<1>2. Len(c) \in Nat /\ DOMAIN c = 1..Len(c)
  BY CohortFacts
<1>3. row.status = "PLANNED"
  BY DEF Planned
<1>. HIDE DEF m, row
<1>4. \A i \in DOMAIN m : i \in DOMAIN c \/ m[i].status = "PLANNED"
  BY <1>1, <1>2, <1>3
<1>5. DOMAIN c \subseteq DOMAIN m
  BY <1>1, <1>2
<1>6. Done(m) = Done(c)
  BY <1>1, <1>2, <1>4, <1>5 DEF Done
<1>7. ASSUME NEW F, IsExtension(F, c), IsCohort(F)  PROVE IsExtension(F, m)
  <2>1. Len(F) \in Nat /\ DOMAIN F = 1..Len(F) /\ Len(F) <= Len(c) /\ \A i \in DOMAIN F : F[i] = c[i]
    BY <1>7, CohortFacts DEF IsExtension
  <2>2. Len(F) <= Len(m) /\ DOMAIN F \subseteq 1..Len(c)
    BY <1>1, <1>2, <2>1
  <2>. QED  BY <1>1, <2>1, <2>2 DEF IsExtension
<1>. QED  BY <1>1, <1>6, <1>7 DEF m, row

\* Every step keeps the descent of the manifests.
LEMMA OriginStep ==
    ASSUME BInv, CInv, HistoryInv, BInv', EvidenceInv', [Next]_vars
    PROVE  OriginInv'
<1>. DEFINE n == Len(batches)
<1>0. EvidenceInv /\ OriginInv /\ FinalsStay /\ PlansStay
  BY FilesStay DEF HistoryInv
<1>1. /\ n \in Nat /\ DOMAIN batches = 1..n
      /\ Len(batches') \in Nat /\ DOMAIN batches' = 1..Len(batches')
      /\ IsSequence(batches) /\ IsSequence(batches')
  BY LastFacts DEF BInv
<1>2. n <= Len(batches')
  <2>1. CASE RunPreflight
    BY <1>1, <2>1, Appending DEF RunPreflight
  <2>2. CASE pc # "idle" /\ \E b : Batch(b)
    <3>1. PICK b : Batch(b)
      BY <2>2
    <3>2. Len(batches') = Len(batches)
      BY <2>2, <3>1, OthersStay
    <3>. QED  BY <1>1, <3>2
  <2>3. CASE batches' = batches
    BY <1>1, <2>3
  <2>4. RunPreflight \/ (pc # "idle" /\ \E b : Batch(b)) \/ batches' = batches
    BY DEF Next, vars, AddReplacement, WritePlan, AppendCohort, StartAllocation, RunTrial,
           AppendFinished, Finish, Interrupt, Cut
  <2>. QED  BY <2>1, <2>2, <2>3, <2>4
<1>3. \A m \in manifests : Origin(m, Len(batches))' /\ Len(m) <= MaxRows
  <2>1. ASSUME NEW m \in manifests
        PROVE  Origin(m, n) /\ Len(m) <= MaxRows
    BY <1>0 DEF OriginInv
  <2>2. PICK p : p = Len(batches')
    OBVIOUS
  <2>3. p \in Nat /\ n <= p /\ n \in 0..n
    BY <1>1, <1>2, <2>2
  <2>4. ASSUME NEW m \in manifests  PROVE Origin(m, p)'
    BY <1>0, <1>1, <2>1, <2>3, OriginStays
  <2>5. ASSUME NEW m \in manifests  PROVE Origin(m, Len(batches))'
    BY <2>2, <2>4 DEF Origin
  <2>. QED  BY <2>1, <2>5
<1>4. ASSUME NEW k \in DOMAIN batches', batches'[k].plan.status = "PRESENT"
      PROVE  Origin(batches[k].plan.cohort, k - 1)'
  <2>1. PICK p : p = batches'[k].plan.cohort
    OBVIOUS
  <2>2. k \in DOMAIN batches /\ Origin(p, k - 1)
    <3>1. CASE k \in DOMAIN batches /\ batches'[k].plan = batches[k].plan
      BY <1>0, <1>4, <2>1, <3>1 DEF OriginInv
    <3>2. CASE k \in DOMAIN batches /\ pc = "plan" /\ k = n /\ batches'[k].plan.cohort = current
      BY <1>0, <2>1, <3>2 DEF OriginInv
    <3>. QED  BY <1>0, <1>4, <3>1, <3>2 DEF PlansStay
  <2>3. k - 1 \in 0..n /\ k - 1 \in Nat
    BY <1>1, <2>2
  <2>4. Origin(p, k - 1)'
    BY <1>0, <1>1, <2>2, <2>3, OriginStays
  <2>. QED  BY <2>1, <2>4 DEF Origin
<1>5. pc' = "plan" => Origin(current, Len(batches) - 1)'
  <2>. SUFFICES ASSUME pc' = "plan" PROVE Origin(current, Len(batches) - 1)'
    OBVIOUS
  <2>1. CASE RunPreflight
    <3>1. PICK c \in manifests : current' = c
      BY <2>1 DEF RunPreflight
    <3>2. Len(batches') - 1 = n
      BY <1>1, <2>1, Appending DEF RunPreflight
    <3>3. PICK p : p = n
      OBVIOUS
    <3>4. Origin(c, p) /\ p \in Nat /\ p \in 0..n /\ p <= p
      BY <1>0, <1>1, <3>3 DEF OriginInv
    <3>5. Origin(c, p)'
      BY <1>0, <1>1, <3>4, OriginStays
    <3>. QED  BY <3>1, <3>2, <3>3, <3>5 DEF Origin
  <2>2. CASE UNCHANGED vars
    BY <1>0, <2>2 DEF OriginInv, Origin, vars
  <2>3. RunPreflight \/ UNCHANGED vars \/ pc = "plan"
    BY DEF Next, AddReplacement, WritePlan, AppendCohort, StartAllocation, RunTrial,
           AppendFinished, Finish, Interrupt, Leave
  <2>4. CASE pc = "plan" /\ Next
    BY <2>1, <2>4 DEF Next, AddReplacement, WritePlan, AppendCohort, StartAllocation, RunTrial,
           AppendFinished, Finish, Interrupt, Leave
  <2>. QED  BY <2>1, <2>2, <2>3, <2>4
<1>6. ASSUME NEW m \in manifests', m \notin manifests
      PROVE  Origin(m, Len(batches))' /\ Len(m) <= MaxRows
  <2>1. CASE AddReplacement
    <3>1. PICK c \in manifests : \E i \in DOMAIN c :
              manifests' = manifests \union {Append(c, Planned(c[i].arm, i))} /\ Len(c) < MaxRows
      BY <2>1 DEF AddReplacement
    <3>2. PICK i \in DOMAIN c : manifests' = manifests \union {Append(c, Planned(c[i].arm, i))}
                                /\ Len(c) < MaxRows
      BY <3>1
    <3>3. PICK arm : arm = c[i].arm
      OBVIOUS
    <3>4. m = Append(c, Planned(arm, i))
      BY <1>6, <3>2, <3>3
    <3>5. IsCohort(c)
      BY DEF CInv, Sound
    <3>6. /\ Done(m) = Done(c) /\ Len(m) = Len(c) + 1
          /\ \A F : IsExtension(F, c) /\ IsCohort(F) => IsExtension(F, m)
      BY <3>4, <3>5, ReplacementOrigin
    <3>7. Len(m) <= MaxRows
      <4>1. Len(c) \in Nat /\ MaxRows \in Nat
        BY <3>5, CohortFacts, CohortAssumption DEF CohortAssumption
      <4>. QED  BY <3>2, <3>6, <4>1
    <3>8. Origin(c, n) /\ batches' = batches
      BY <1>0, <2>1 DEF OriginInv, AddReplacement
    <3>9. ASSUME NEW j \in 1..n, batches[j].final.status = "PRESENT"
          PROVE  IsCohort(batches[j].final.cohort)
      BY <1>0, <1>1, <3>9 DEF EvidenceInv, Kept, Complete
    <3>10. Origin(m, n)
      <4>1. CASE Done(c) = {}
        BY <3>6, <4>1 DEF Origin
      <4>2. CASE \E j \in 1..n : /\ batches[j].final.status = "PRESENT"
                                 /\ IsExtension(batches[j].final.cohort, c)
                                 /\ Done(c) = DOMAIN batches[j].final.cohort
        BY <3>6, <3>9, <4>2 DEF Origin
      <4>. QED  BY <3>8, <4>1, <4>2 DEF Origin
    <3>. QED  BY <3>7, <3>8, <3>10 DEF Origin
  <2>2. CASE Finish
    <3>1. PICK l : l = Last
      OBVIOUS
    <3>2. PICK b : b = [l EXCEPT !.final = File(current)]
      OBVIOUS
    <3>3. PICK c : c = current
      OBVIOUS
    <3>4. pc = "next" /\ Batch(b) /\ Pending(c) = {} /\ m = c
      BY <1>6, <2>2, <3>1, <3>2, <3>3 DEF Finish
    <3>5. BatchOK(l) /\ Running(l, c, "next", at)
      BY <1>0, <3>1, <3>3, <3>4, LastQuiet DEF Quiet, EvidenceInv, Executing
    <3>6. b.final = File(c)
      BY <3>2, <3>3, <3>5, OtherFields
    <3>7. b.final.status = "PRESENT" /\ b.final.cohort = c
      BY <3>6 DEF File
    <3>8. Len(c) <= MaxRows /\ IsCohort(c)
      BY <3>5, PastFinite DEF Running, Core
    <3>9. Len(c) \in Nat /\ DOMAIN c = 1..Len(c)
      BY <3>8, CohortFacts
    <3>10. IsExtension(c, c)
      BY <3>9 DEF IsExtension
    <3>11. Done(c) = DOMAIN c
      <4>1. \A i \in DOMAIN c : c[i].status \in {"PLANNED", "FINISHED"}
        BY <3>8 DEF IsCohort, RowOK
      <4>. QED  BY <3>4, <4>1 DEF Done, Pending
    <3>12. Len(batches') = n /\ batches'[n] = b /\ n \in 1..n
      BY <1>1, <3>4, OthersStay
    <3>13. Origin(c, Len(batches))'
      BY <3>7, <3>10, <3>11, <3>12 DEF Origin
    <3>. QED  BY <3>4, <3>8, <3>13 DEF Origin
  <2>3. AddReplacement \/ Finish
    BY <1>6 DEF Next, vars, RunPreflight, WritePlan, AppendCohort, StartAllocation, RunTrial,
           AppendFinished, Interrupt
  <2>. QED  BY <2>1, <2>2, <2>3
<1>7. \A m \in manifests' : Origin(m, Len(batches))' /\ Len(m) <= MaxRows
  BY <1>3, <1>6
<1>. QED  BY <1>4, <1>5, <1>7 DEF OriginInv

\* The invariant of the directories and of the descent of the manifests.
LEMMA HistoryStep == BInv /\ CInv /\ HistoryInv /\ [Next]_vars => HistoryInv'
<1>. SUFFICES ASSUME BInv, CInv, HistoryInv, [Next]_vars  PROVE HistoryInv'
  OBVIOUS
<1>1. BInv' /\ EvidenceInv'
  BY BatchStep, EvidenceStep
<1>2. OriginInv'
  BY <1>1, OriginStep
<1>. QED  BY <1>1, <1>2 DEF HistoryInv

\* It holds of the frozen plan.
LEMMA HistoryInit == Init => BInv /\ HistoryInv
<1>. SUFFICES ASSUME Init  PROVE BInv /\ HistoryInv
  OBVIOUS
<1>1. batches = <<>> /\ pc = "idle" /\ manifests = {Allocations}
  BY DEF Init
<1>2. BInv
  BY <1>1 DEF BInv, IsSequence
<1>3. EvidenceInv
  BY <1>1 DEF EvidenceInv, Executing
<1>4. Origin(Allocations, Len(batches)) /\ Len(Allocations) <= MaxRows
  <2>1. Originals \in Nat \ {0} /\ Originals <= MaxRows
    BY CohortAssumption DEF CohortAssumption
  <2>2. \A i \in 1..Originals : Allocations[i].status = "PLANNED"
    BY DEF Allocations, Planned
  <2>3. DOMAIN Allocations = 1..Originals
    BY DEF Allocations
  <2>4. Done(Allocations) = {}
    BY <2>2, <2>3 DEF Done
  <2>5. Len(Allocations) = Originals
    BY <2>1, <2>3, AllocationsSound, CohortFacts DEF Sound
  <2>. QED  BY <2>1, <2>4, <2>5 DEF Origin
<1>5. OriginInv
  BY <1>1, <1>4 DEF OriginInv
<1>. QED  BY <1>2, <1>3, <1>5 DEF HistoryInv

\* What the directories show at any moment, as an invariant of run_preflight.
THEOREM HistoryInvariance == Spec => [](BInv /\ CInv /\ HistoryInv)
BY InitInv, HistoryInit, StepInv, BatchStep, HistoryStep, PTL DEF Spec

\* audit_cohort of every batch: what it compares leaves no trial out.
LEMMA VerifiedWhole == VerifiedIsWhole
<1>. SUFFICES ASSUME NEW c \in manifests, Verified(c, DOMAIN batches), NEW i \in 1..MaxRows
              PROVE  LET executed == {k \in DOMAIN batches : batches[k].trials[i] # NoRecord} IN
                     IF i \in Done(c)
                     THEN \E k \in executed :
                            executed = {k} /\ batches[k].trials[i] = c[i].record
                     ELSE executed = {}
  BY DEF VerifiedIsWhole
<1>. DEFINE executed == {k \in DOMAIN batches : batches[k].trials[i] # NoRecord}
<1>1. \A k \in DOMAIN batches : k \in executed <=> i \in Executes(batches[k])
  BY DEF Verified, BatchAgrees
<1>2. \A k, l \in DOMAIN batches :
          k # l => Executes(batches[k]) \intersect Executes(batches[l]) = {}
  BY DEF Verified
<1>3. i \in Done(c) <=> \E k \in DOMAIN batches : i \in Executes(batches[k])
  BY DEF Verified
<1>4. executed \subseteq DOMAIN batches
  OBVIOUS
<1>5. \A k \in DOMAIN batches : i \in Executes(batches[k]) =>
            batches[k].trials[i] = c[i].record
  BY DEF Verified, TrialAgrees
<1>. HIDE DEF executed
<1>6. CASE i \in Done(c)
  <2>1. PICK k \in DOMAIN batches : i \in Executes(batches[k])
    BY <1>3, <1>6
  <2>2. executed = {k}
    BY <1>1, <1>2, <1>4, <2>1
  <2>. QED  BY <1>5, <1>6, <2>1, <2>2 DEF executed
<1>7. CASE i \notin Done(c)
  <2>1. executed = {}
    BY <1>1, <1>3, <1>4, <1>7
  <2>. QED  BY <1>7, <2>1 DEF executed
<1>. QED  BY <1>6, <1>7

\* Once its journal exists a batch is a valid prefix, at any moment and after any
\* interruption, and a verified manifest with all the batches is the whole story.
THEOREM EvidenceTold == Spec => []EvidenceTells
<1>1. BInv /\ HistoryInv => InspectionTells
  BY DEF BInv, Quiet, HistoryInv, EvidenceInv, Kept, InspectionTells, AnnouncedFirst
<1>2. BInv /\ HistoryInv => EvidenceTells
  BY <1>1, VerifiedWhole DEF EvidenceTells
<1>. QED  BY <1>2, HistoryInvariance, PTL
-----------------------------------------------------------------------------
(* An orderly history is verified                                          *)

\* A sequence is one element and the rest.
LEMMA OneAndRest ==
    ASSUME NEW e, NEW t, IsSequence(t), NEW s, IsSequence(s), Len(s) = Len(t) + 1, s[1] = e,
           \A n \in 1..Len(t) : s[n + 1] = t[n]
    PROVE  s = <<e>> \o t
<1>. DEFINE S == {e} \union {t[i] : i \in DOMAIN t} \union {s[i] : i \in DOMAIN s}
<1>1. /\ Len(t) \in Nat /\ DOMAIN t = 1..Len(t) /\ t = [k \in 1..Len(t) |-> t[k]]
      /\ Len(s) \in Nat /\ DOMAIN s = 1..Len(s) /\ s = [k \in 1..Len(s) |-> s[k]]
  BY LastFacts
<1>2. t \in [1..Len(t) -> S] /\ s \in [1..Len(s) -> S]
  BY <1>1
<1>3. t \in Seq(S) /\ s \in Seq(S) /\ e \in S
  BY <1>1, <1>2
<1>. HIDE DEF S
<1>4. <<e>> \in Seq(S) /\ Len(<<e>>) = 1 /\ <<e>>[1] = e
  BY <1>3
<1>. DEFINE u == <<e>> \o t
<1>5. /\ u \in Seq(S) /\ Len(u) = 1 + Len(t)
      /\ \A k \in 1..Len(u) : u[k] = IF k <= 1 THEN <<e>>[k] ELSE t[k - 1]
  BY <1>3, <1>4
<1>. HIDE DEF u
<1>6. Len(u) = Len(s)
  BY <1>1, <1>5
<1>7. ASSUME NEW k \in 1..Len(s)  PROVE u[k] = s[k]
  <2>1. CASE k = 1
    BY <1>4, <1>5, <1>6, <2>1
  <2>2. CASE k # 1
    <3>1. k - 1 \in 1..Len(t) /\ (k - 1) + 1 = k /\ ~(k <= 1)
      BY <1>1, <2>2
    <3>2. u[k] = t[k - 1]
      BY <1>5, <1>6, <3>1
    <3>3. s[(k - 1) + 1] = t[k - 1]
      BY <3>1
    <3>. QED  BY <3>1, <3>2, <3>3
  <2>. QED  BY <2>1, <2>2
<1>8. DOMAIN u = 1..Len(u) /\ u = [k \in 1..Len(u) |-> u[k]]
  BY <1>5, SequenceFacts
<1>9. u = s
  BY <1>1, <1>6, <1>7, <1>8
<1>. QED  BY <1>9 DEF u

\* A completed batch agrees with every manifest that goes on from its snapshot.
LEMMA CompleteAgrees ==
    ASSUME NEW b, BatchOK(b), Complete(b), NEW c, IsCohort(c),
           IsExtension(b.final.cohort, c)
    PROVE  /\ BatchAgrees(b, c)
           /\ (\A i \in Executes(b) : b.final.cohort[i].result.integrity = "VERIFIED")
                => (\A i \in Executes(b) : TrialAgrees(b, c, i))
<1>. DEFINE P == b.plan.cohort
            F == b.final.cohort
            E == Executes(b)
            ids == Agenda(P)
            L == Cardinality(E)
<1>1. /\ PlanReadable(b) /\ IsCohort(P) /\ IsCohort(F) /\ b.final = File(F)
      /\ Len(P) <= MaxRows /\ DOMAIN F = DOMAIN P /\ ~b.torn
      /\ \A i \in DOMAIN P : F[i].status = "FINISHED" /\ (i \notin E => F[i] = P[i])
      /\ \A i \in E : RecordOf(b, F, i)
      /\ Tells(b, F, 2 * L + 1)
  BY DEF Complete
<1>2. /\ Len(P) \in Nat /\ DOMAIN P = 1..Len(P) /\ P = [i \in 1..Len(P) |-> P[i]]
      /\ Len(F) \in Nat /\ DOMAIN F = 1..Len(F) /\ F = [i \in 1..Len(F) |-> F[i]]
      /\ Len(c) \in Nat /\ DOMAIN c = 1..Len(c)
  BY <1>1, CohortFacts
<1>3. Len(F) = Len(P)
  BY <1>1, <1>2
<1>4. Len(F) <= Len(c) /\ \A i \in DOMAIN F : c[i] = F[i]
  BY DEF IsExtension
<1>5. \A i \in DOMAIN P : i \in DOMAIN c /\ c[i] = F[i] /\ i < Len(c) + 1
  BY <1>1, <1>2, <1>4
<1>6. E = Pending(P) /\ E \subseteq 1..Len(P) /\ L \in Nat
  BY <1>1, PendingFinite DEF Executes
<1>. HIDE DEF P, F, E, L, ids
<1>7. Continues(b, c)
  BY <1>1, <1>5, <1>6 DEF Continues, P, E
<1>8. PlanBefore(b, c, Len(c) + 1) = F
  <2>1. PlanBefore(b, c, Len(c) + 1)
            = [i \in DOMAIN P |-> IF i \in E /\ i < Len(c) + 1 THEN c[i] ELSE P[i]]
    BY DEF PlanBefore, P, E
  <2>2. ASSUME NEW i \in DOMAIN P
        PROVE  (IF i \in E /\ i < Len(c) + 1 THEN c[i] ELSE P[i]) = F[i]
    BY <1>1, <1>5
  <2>. QED  BY <1>1, <1>2, <1>3, <2>1, <2>2
<1>9. {i \in 1..MaxRows : b.trials[i] # NoRecord} = E
  <2>1. 1..Len(P) \subseteq 1..MaxRows
    BY <1>1, <1>2, CohortAssumption DEF CohortAssumption
  <2>2. \A i \in 1..MaxRows : (b.trials[i] # NoRecord <=> i \in E)
    BY DEF Complete, E
  <2>. QED  BY <1>6, <2>1, <2>2
<1>10. Len(ids) = L /\ \A m \in 1..L : ids[m] \in E
  BY <1>1, <1>6, AgendaFacts DEF L, Complete, E, ids, P
<1>11. b.journal = ExpectedJournal(b, c)
  <2>. DEFINE Row(n) == LET i == ids[(n + 1) \div 2] IN
                        IF n % 2 = 1 THEN AllocationStarted(i) ELSE AllocationFinished(i, c[i])
              t == [n \in 1..(2 * L) |-> Row(n)]
              s == b.journal
  <2>1. /\ Len(s) = 2 * L + 1 /\ s[1] = CohortStarted(P)
        /\ \A n \in 2..(2 * L + 1) : s[n] = RowAt(n, ids, F)
    BY <1>1, <1>6 DEF Tells, P, ids
  <2>2. ASSUME NEW n \in 1..(2 * L)  PROVE s[n + 1] = t[n]
    <3>1. n + 1 \in 2..(2 * L + 1) /\ (n + 1) \div 2 \in 1..L
          /\ (n % 2 = 1 <=> n + 1 = 2 * ((n + 1) \div 2))
      BY <1>6
    <3>2. PICK k : k = (n + 1) \div 2
      OBVIOUS
    <3>3. s[n + 1] = RowAt(n + 1, ids, F)
      BY <2>1, <3>1
    <3>4. c[ids[k]] = F[ids[k]]
      BY <1>2, <1>5, <1>6, <1>10, <3>1, <3>2
    <3>5. t[n] = IF n % 2 = 1 THEN AllocationStarted(ids[k])
                 ELSE AllocationFinished(ids[k], c[ids[k]])
      BY <3>2
    <3>. HIDE DEF t
    <3>. QED  BY <3>1, <3>2, <3>3, <3>4, <3>5 DEF RowAt
  <2>3. t = [n \in 1..(2 * L) |-> t[n]]
    OBVIOUS
  <2>4. IsSequence(s)
    BY DEF BatchOK
  <2>5. ExpectedJournal(b, c) = <<CohortStarted(P)>> \o t
    BY <1>10 DEF ExpectedJournal, P, ids
  <2>. HIDE DEF t, s
  <2>6. 2 * L \in Nat
    BY <1>6
  <2>7. IsSequence(t) /\ Len(t) = 2 * L
    BY <2>3, <2>6, IsSequenceFacts
  <2>8. Len(s) = Len(t) + 1 /\ \A n \in 1..Len(t) : s[n + 1] = t[n]
    BY <2>1, <2>2, <2>7
  <2>9. s = <<CohortStarted(P)>> \o t
    BY <2>1, <2>4, <2>7, <2>8, OneAndRest
  <2>. QED  BY <2>5, <2>9 DEF s
<1>12. BatchAgrees(b, c)
  BY <1>1, <1>7, <1>8, <1>9, <1>11 DEF BatchAgrees, E
<1>13. ASSUME NEW i \in E, F[i].result.integrity = "VERIFIED"
       PROVE  TrialAgrees(b, c, i)
  <2>1. RecordOf(b, F, i) /\ c[i] = F[i] /\ i \in DOMAIN P
    BY <1>1, <1>2, <1>5, <1>6
  <2>2. PlanBefore(b, F, i) = PlanBefore(b, c, i)
    <3>1. PlanBefore(b, F, i) = [k \in DOMAIN P |-> IF k \in E /\ k < i THEN F[k] ELSE P[k]]
      BY DEF PlanBefore, P, E
    <3>2. PlanBefore(b, c, i) = [k \in DOMAIN P |-> IF k \in E /\ k < i THEN c[k] ELSE P[k]]
      BY DEF PlanBefore, P, E
    <3>. QED  BY <1>5, <3>1, <3>2
  <2>3. PlanBefore(b, c, i)[i] = P[i]
    <3>1. i \in Nat /\ ~(i < i)
      BY <1>6
    <3>. QED  BY <2>1, <3>1 DEF PlanBefore, P
  <2>4. /\ b.trials[i] = F[i].record /\ b.trials[i].id = i
        /\ b.trials[i].plan = PlanBefore(b, F, i) /\ b.trials[i].assessment = F[i].result
        /\ F[i].arm = P[i].arm /\ F[i].replacement_of = P[i].replacement_of
    BY <2>1 DEF RecordOf, P
  <2>5. \A field \in {"arm", "replacement_of"} : c[i][field] = c[i].record.plan[i][field]
    BY <2>1, <2>2, <2>3, <2>4
  <2>. QED  BY <1>13, <2>1, <2>2, <2>4, <2>5 DEF TrialAgrees
<1>. QED  BY <1>12, <1>13 DEF E, F

Snapshot(k) == batches[k].final.cohort
Plan(k) == batches[k].plan.cohort

\* What a manifest continues continues what that continues.
LEMMA ExtensionTransitive ==
    ASSUME NEW a, NEW b, NEW c, IsCohort(a), IsCohort(b), IsCohort(c),
           IsExtension(a, b), IsExtension(b, c)
    PROVE  IsExtension(a, c)
<1>1. /\ Len(a) \in Nat /\ DOMAIN a = 1..Len(a) /\ Len(b) \in Nat /\ DOMAIN b = 1..Len(b)
      /\ Len(c) \in Nat
  BY CohortFacts
<1>2. /\ Len(a) <= Len(b) /\ \A i \in DOMAIN a : a[i] = b[i]
      /\ Len(b) <= Len(c) /\ \A i \in DOMAIN b : b[i] = c[i]
  BY DEF IsExtension
<1>3. \A i \in DOMAIN a : i \in DOMAIN b
  BY <1>1, <1>2
<1>4. Len(a) <= Len(c)
  BY <1>1, <1>2
<1>. QED  BY <1>2, <1>3, <1>4 DEF IsExtension

\* The batches of an orderly history.
LEMMA OrderlyBatch ==
    ASSUME BInv, HistoryInv, Succession, NEW k \in DOMAIN batches
    PROVE  /\ BatchOK(batches[k]) /\ Complete(batches[k])
           /\ IsCohort(Plan(k)) /\ IsCohort(Snapshot(k)) /\ IsExtension(Snapshot(k), Snapshot(k))
           /\ DOMAIN Snapshot(k) = DOMAIN Plan(k) /\ 1 \in DOMAIN Snapshot(k)
           /\ \A i \in DOMAIN Plan(k) :
                /\ Snapshot(k)[i].status = "FINISHED"
                /\ i \notin Executes(batches[k]) => Snapshot(k)[i] = Plan(k)[i]
           /\ Executes(batches[k]) = DOMAIN Plan(k) \ Done(Plan(k))
<1>1. BatchOK(batches[k])
  BY DEF BInv, Quiet
<1>2. Complete(batches[k])
  BY DEF Succession, HistoryInv, EvidenceInv, Kept
<1>3. /\ IsCohort(Plan(k)) /\ IsCohort(Snapshot(k)) /\ DOMAIN Snapshot(k) = DOMAIN Plan(k)
      /\ Valid(Plan(k))
      /\ \A i \in DOMAIN Plan(k) :
            /\ Snapshot(k)[i].status = "FINISHED"
            /\ i \notin Executes(batches[k]) => Snapshot(k)[i] = Plan(k)[i]
  BY <1>2 DEF Complete, Snapshot, Plan, PlanReadable
<1>4. /\ Len(Plan(k)) \in Nat /\ DOMAIN Plan(k) = 1..Len(Plan(k))
      /\ Len(Snapshot(k)) \in Nat
  BY <1>3, CohortFacts
<1>5. 1 \in DOMAIN Plan(k)
  <2>1. Originals \in Nat \ {0} /\ Len(Plan(k)) >= Originals
    BY <1>3, CohortAssumption DEF Valid, CohortAssumption
  <2>. QED  BY <1>4, <2>1
<1>6. IsExtension(Snapshot(k), Snapshot(k))
  BY <1>4 DEF IsExtension
<1>7. \A i \in DOMAIN Plan(k) : Plan(k)[i].status \in {"PLANNED", "FINISHED"}
  BY <1>3 DEF IsCohort, RowOK
<1>8. Executes(batches[k]) = DOMAIN Plan(k) \ Done(Plan(k))
  BY <1>7 DEF Executes, Pending, Done, Plan
<1>. QED  BY <1>1, <1>2, <1>3, <1>5, <1>6, <1>8

\* Each snapshot continues the one before it.
LEMMA OrderlyLink ==
    ASSUME BInv, HistoryInv, Succession, NEW k \in DOMAIN batches, k # 1
    PROVE  /\ k - 1 \in DOMAIN batches
           /\ IsExtension(Snapshot(k - 1), Plan(k))
           /\ IsExtension(Snapshot(k - 1), Snapshot(k))
<1>1. k - 1 \in DOMAIN batches
  BY LastFacts DEF BInv
<1>2. PICK l : l = k - 1
  OBVIOUS
<1>3. IsExtension(Snapshot(l), Plan(k))
  BY <1>2 DEF Succession, Snapshot, Plan
<1>4. /\ IsCohort(Plan(k)) /\ IsCohort(Snapshot(k)) /\ DOMAIN Snapshot(k) = DOMAIN Plan(k)
      /\ \A i \in DOMAIN Plan(k) :
            i \notin Executes(batches[k]) => Snapshot(k)[i] = Plan(k)[i]
  BY OrderlyBatch
<1>5. /\ IsCohort(Snapshot(l)) /\ DOMAIN Snapshot(l) = DOMAIN Plan(l)
      /\ \A i \in DOMAIN Plan(l) : Snapshot(l)[i].status = "FINISHED"
  BY <1>1, <1>2, OrderlyBatch
<1>6. /\ Len(Plan(k)) \in Nat /\ DOMAIN Plan(k) = 1..Len(Plan(k))
      /\ Len(Snapshot(k)) \in Nat /\ DOMAIN Snapshot(k) = 1..Len(Snapshot(k))
      /\ Len(Snapshot(l)) \in Nat /\ DOMAIN Snapshot(l) = 1..Len(Snapshot(l))
  BY <1>4, <1>5, CohortFacts
<1>7. Len(Snapshot(k)) = Len(Plan(k))
  BY <1>4, <1>6
<1>8. Len(Snapshot(l)) <= Len(Plan(k)) /\ \A i \in DOMAIN Snapshot(l) : Snapshot(l)[i] = Plan(k)[i]
  BY <1>3 DEF IsExtension
<1>9. ASSUME NEW i \in DOMAIN Snapshot(l)  PROVE Snapshot(l)[i] = Snapshot(k)[i]
  <2>1. i \in DOMAIN Plan(k) /\ Plan(k)[i].status = "FINISHED"
    BY <1>5, <1>6, <1>8
  <2>2. i \notin Executes(batches[k])
    BY <2>1 DEF Executes, Pending, Plan
  <2>. QED  BY <1>4, <1>8, <2>1, <2>2
<1>10. IsExtension(Snapshot(l), Snapshot(k))
  BY <1>7, <1>8, <1>9 DEF IsExtension
<1>. QED  BY <1>1, <1>2, <1>3, <1>10

\* Each snapshot continues all the earlier ones.
LEMMA OrderlyChain ==
    ASSUME BInv, HistoryInv, Succession, NEW k \in DOMAIN batches, NEW l \in DOMAIN batches, k <= l
    PROVE  IsExtension(Snapshot(k), Snapshot(l))
<1>. DEFINE T == {n \in DOMAIN batches : k <= n /\ ~IsExtension(Snapshot(k), Snapshot(n))}
<1>1. Len(batches) \in Nat /\ DOMAIN batches = 1..Len(batches)
  BY LastFacts DEF BInv
<1>. SUFFICES ASSUME T # {}  PROVE FALSE
  OBVIOUS
<1>2. T \subseteq Nat
  BY <1>1
<1>. HIDE DEF T
<1>3. PICK n \in T : \A m \in T : n <= m
  BY <1>2, Smallest
<1>4. n \in DOMAIN batches /\ k <= n /\ ~IsExtension(Snapshot(k), Snapshot(n))
  BY <1>3 DEF T
<1>5. n # k
  BY <1>4, OrderlyBatch
<1>6. n # 1 /\ k <= n - 1 /\ n - 1 \in DOMAIN batches
  BY <1>1, <1>4, <1>5
<1>7. IsExtension(Snapshot(k), Snapshot(n - 1))
  <2>1. n - 1 \notin T
    BY <1>1, <1>3, <1>4
  <2>. QED  BY <1>6, <2>1 DEF T
<1>8. IsExtension(Snapshot(n - 1), Snapshot(n))
  BY <1>4, <1>6, OrderlyLink
<1>9. IsCohort(Snapshot(k)) /\ IsCohort(Snapshot(n - 1)) /\ IsCohort(Snapshot(n))
  BY <1>4, <1>6, OrderlyBatch
<1>. QED  BY <1>4, <1>7, <1>8, <1>9, ExtensionTransitive

\* What an orderly manifest has finished is what it continues.
LEMMA OrderlyDone ==
    ASSUME BInv, HistoryInv, Succession, NEW n \in DOMAIN batches,
           NEW m, IsCohort(m), IsExtension(Snapshot(n), m), Origin(m, n)
    PROVE  Done(m) = DOMAIN Snapshot(n)
<1>0. Len(batches) \in Nat /\ DOMAIN batches = 1..Len(batches)
  BY LastFacts DEF BInv
<1>1. /\ IsCohort(Snapshot(n)) /\ 1 \in DOMAIN Snapshot(n)
      /\ \A i \in DOMAIN Snapshot(n) : Snapshot(n)[i].status = "FINISHED"
  BY OrderlyBatch
<1>2. /\ Len(Snapshot(n)) \in Nat /\ DOMAIN Snapshot(n) = 1..Len(Snapshot(n))
      /\ Len(m) \in Nat /\ DOMAIN m = 1..Len(m)
  BY <1>1, CohortFacts
<1>3. /\ Len(Snapshot(n)) <= Len(m) /\ \A i \in DOMAIN Snapshot(n) : Snapshot(n)[i] = m[i]
  BY DEF IsExtension
<1>4. DOMAIN Snapshot(n) \subseteq DOMAIN m
  BY <1>2, <1>3
<1>5. DOMAIN Snapshot(n) \subseteq Done(m)
  BY <1>1, <1>3, <1>4 DEF Done
<1>6. PICK j \in 1..n : Done(m) = DOMAIN Snapshot(j)
  BY <1>1, <1>5 DEF Origin, Snapshot
<1>7. j \in DOMAIN batches /\ j <= n
  BY <1>0
<1>8. IsExtension(Snapshot(j), Snapshot(n)) /\ IsCohort(Snapshot(j))
  BY <1>7, OrderlyChain, OrderlyBatch
<1>9. Len(Snapshot(j)) \in Nat /\ DOMAIN Snapshot(j) = 1..Len(Snapshot(j))
  BY <1>8, CohortFacts
<1>10. DOMAIN Snapshot(j) \subseteq DOMAIN Snapshot(n)
  BY <1>2, <1>8, <1>9 DEF IsExtension
<1>. QED  BY <1>5, <1>6, <1>10

\* Each batch of an orderly history executes what the one before it did not have.
LEMMA OrderlyExecutes ==
    ASSUME BInv, HistoryInv, Succession, NEW k \in DOMAIN batches
    PROVE  /\ k = 1 => Executes(batches[k]) = DOMAIN Snapshot(k)
           /\ k # 1 => Executes(batches[k]) = DOMAIN Snapshot(k) \ DOMAIN Snapshot(k - 1)
<1>1. /\ DOMAIN Snapshot(k) = DOMAIN Plan(k) /\ IsCohort(Plan(k))
      /\ Executes(batches[k]) = DOMAIN Plan(k) \ Done(Plan(k))
  BY OrderlyBatch
<1>2. CASE k = 1
  <2>1. Done(Plan(k)) = {}
    BY <1>2 DEF Succession, Plan
  <2>. QED  BY <1>1, <1>2, <2>1
<1>3. CASE k # 1
  <2>1. PICK l : l = k - 1
    OBVIOUS
  <2>2. l \in DOMAIN batches /\ IsExtension(Snapshot(l), Plan(k))
    BY <1>3, <2>1, OrderlyLink
  <2>3. Origin(Plan(k), l)
    <3>1. batches[k].plan.status = "PRESENT"
      BY OrderlyBatch DEF Complete, PlanReadable
    <3>. QED  BY <2>1, <3>1 DEF HistoryInv, OriginInv, Plan
  <2>4. Done(Plan(k)) = DOMAIN Snapshot(l)
    BY <1>1, <2>2, <2>3, OrderlyDone
  <2>. QED  BY <1>1, <1>3, <2>1, <2>4
<1>. QED  BY <1>2, <1>3

\* The whole of an orderly history, and a manifest that continues it.
LEMMA OrderlyVerified ==
    ASSUME BInv, CInv, HistoryInv, Succession, NEW c \in manifests,
           IsExtension(Last.final.cohort, c)
    PROVE  Verified(c, DOMAIN batches)
<1>. DEFINE N == Len(batches)
<1>1. N \in Nat /\ DOMAIN batches = 1..N /\ N \in DOMAIN batches
  BY LastFacts DEF BInv, Succession
<1>2. IsCohort(c) /\ IsExtension(Snapshot(N), c) /\ Origin(c, N)
  BY DEF CInv, Sound, Last, Snapshot, HistoryInv, OriginInv
<1>3. Done(c) = DOMAIN Snapshot(N)
  BY <1>1, <1>2, OrderlyDone
<1>. HIDE DEF N
<1>4. ASSUME NEW k \in DOMAIN batches
      PROVE  /\ IsExtension(Snapshot(k), Snapshot(N)) /\ IsExtension(Snapshot(k), c)
             /\ IsCohort(Snapshot(k)) /\ DOMAIN Snapshot(k) \subseteq DOMAIN Snapshot(N)
             /\ Len(Snapshot(k)) \in Nat /\ DOMAIN Snapshot(k) = 1..Len(Snapshot(k))
  <2>1. k <= N
    BY <1>1
  <2>2. IsExtension(Snapshot(k), Snapshot(N)) /\ IsCohort(Snapshot(k)) /\ IsCohort(Snapshot(N))
    BY <1>1, <2>1, OrderlyChain, OrderlyBatch
  <2>3. IsExtension(Snapshot(k), c)
    BY <1>2, <2>2, ExtensionTransitive
  <2>4. /\ Len(Snapshot(k)) \in Nat /\ DOMAIN Snapshot(k) = 1..Len(Snapshot(k))
        /\ Len(Snapshot(N)) \in Nat /\ DOMAIN Snapshot(N) = 1..Len(Snapshot(N))
    BY <2>2, CohortFacts
  <2>5. DOMAIN Snapshot(k) \subseteq DOMAIN Snapshot(N)
    BY <2>2, <2>4 DEF IsExtension
  <2>. QED  BY <2>2, <2>3, <2>4, <2>5
<1>5. ASSUME NEW k \in DOMAIN batches, NEW l \in DOMAIN batches, k < l
      PROVE  Executes(batches[k]) \intersect Executes(batches[l]) = {}
  <2>1. l # 1 /\ l - 1 \in DOMAIN batches /\ k <= l - 1
    BY <1>1, <1>5
  <2>2. PICK m : m = l - 1
    OBVIOUS
  <2>3. IsExtension(Snapshot(k), Snapshot(m))
    BY <2>1, <2>2, OrderlyChain
  <2>4. /\ Len(Snapshot(k)) \in Nat /\ DOMAIN Snapshot(k) = 1..Len(Snapshot(k))
        /\ Len(Snapshot(m)) \in Nat /\ DOMAIN Snapshot(m) = 1..Len(Snapshot(m))
    BY <1>4, <2>1, <2>2
  <2>5. DOMAIN Snapshot(k) \subseteq DOMAIN Snapshot(m)
    BY <2>3, <2>4 DEF IsExtension
  <2>6. Executes(batches[k]) \subseteq DOMAIN Snapshot(k)
    BY OrderlyBatch
  <2>7. Executes(batches[l]) = DOMAIN Snapshot(l) \ DOMAIN Snapshot(m)
    BY <2>1, <2>2, OrderlyExecutes
  <2>. QED  BY <2>5, <2>6, <2>7
<1>6. \A k, l \in DOMAIN batches :
          k # l => Executes(batches[k]) \intersect Executes(batches[l]) = {}
  <2>1. ASSUME NEW k \in DOMAIN batches, NEW l \in DOMAIN batches, k # l
        PROVE  Executes(batches[k]) \intersect Executes(batches[l]) = {}
    <3>1. k < l \/ l < k
      BY <1>1, <2>1
    <3>. QED  BY <1>5, <3>1
  <2>. QED  BY <2>1
<1>7. ASSUME NEW i \in Done(c)
      PROVE  \E k \in DOMAIN batches : i \in Executes(batches[k])
  <2>. DEFINE T == {k \in DOMAIN batches : i \in DOMAIN Snapshot(k)}
  <2>1. N \in T /\ T \subseteq Nat
    BY <1>1, <1>3
  <2>. HIDE DEF T
  <2>2. PICK k \in T : \A m \in T : k <= m
    BY <2>1, Smallest
  <2>3. k \in DOMAIN batches /\ i \in DOMAIN Snapshot(k)
    BY <2>2 DEF T
  <2>4. CASE k = 1
    BY <2>3, <2>4, OrderlyExecutes
  <2>5. CASE k # 1
    <3>1. k - 1 \in DOMAIN batches /\ ~(k <= k - 1)
      BY <1>1, <2>3, <2>5
    <3>2. i \notin DOMAIN Snapshot(k - 1)
      BY <2>2, <3>1 DEF T
    <3>. QED  BY <2>3, <2>5, <3>2, OrderlyExecutes
  <2>. QED  BY <2>4, <2>5
<1>8. \A k \in DOMAIN batches : Executes(batches[k]) \subseteq Done(c)
  <2>1. ASSUME NEW k \in DOMAIN batches  PROVE Executes(batches[k]) \subseteq Done(c)
    <3>1. Executes(batches[k]) \subseteq DOMAIN Snapshot(k)
      BY OrderlyBatch
    <3>. QED  BY <1>3, <1>4, <3>1
  <2>. QED  BY <2>1
<1>9. UNION {Executes(batches[k]) : k \in DOMAIN batches} = Done(c)
  BY <1>7, <1>8
<1>10. ASSUME NEW k \in DOMAIN batches
       PROVE  /\ BatchAgrees(batches[k], c)
              /\ \A i \in Executes(batches[k]) : TrialAgrees(batches[k], c, i)
  <2>1. PICK b : b = batches[k]
    OBVIOUS
  <2>2. BatchOK(b) /\ Complete(b) /\ IsExtension(b.final.cohort, c)
    BY <1>4, <2>1, OrderlyBatch DEF Snapshot
  <2>3. \A i \in Executes(b) : b.final.cohort[i].result.integrity = "VERIFIED"
    BY <2>1 DEF Succession
  <2>. QED  BY <1>2, <2>1, <2>2, <2>3, CompleteAgrees
<1>11. Valid(c)
  <2>1. ASSUME NEW i \in Done(c)  PROVE c[i].result.infrastructure # Unknown
    <3>1. PICK k \in DOMAIN batches : i \in Executes(batches[k])
      BY <1>7
    <3>2. Snapshot(k)[i].result.integrity = "VERIFIED"
      BY <3>1 DEF Succession, Snapshot
    <3>3. i \in DOMAIN Snapshot(k)
      BY <3>1, OrderlyBatch
    <3>4. c[i] = Snapshot(k)[i] /\ i \in DOMAIN c
      BY <1>4, <3>3 DEF IsExtension, Done
    <3>5. c[i].result \in Assessments \union {NoResult}
      BY <1>2, <3>4 DEF IsCohort, RowOK
    <3>6. c[i].result \in Assessments
      BY <3>2, <3>4, <3>5 DEF NoResult
    <3>7. c[i].result.infrastructure \in Booleans
      BY <3>2, <3>4, <3>6, CohortAssumption DEF CohortAssumption
    <3>. QED  BY <3>7 DEF Booleans, Unknown
  <2>2. ~Undetermined(c)
    BY <2>1 DEF Undetermined, Done
  <2>. QED  BY <2>2 DEF CInv, Sound
<1>12. DOMAIN batches # {}
  BY <1>1
<1>. QED  BY <1>6, <1>9, <1>10, <1>11, <1>12 DEF Verified

\* Batches completed one after the other, each from what the one before it
\* returned, and with verified trials only, are found to agree with whatever
\* manifest the researcher has got to since the last.
THEOREM OrderlyHistories == Spec => []OrderlyIsVerified
<1>1. BInv /\ CInv /\ HistoryInv => OrderlyIsVerified
  BY OrderlyVerified DEF OrderlyIsVerified
<1>. QED  BY <1>1, HistoryInvariance, PTL
-----------------------------------------------------------------------------
(* The cohort implements a study.  An arm's allocations form a chain in     *)
(* which all but the last were verified failures of the infrastructure; the *)
(* directories are written a row at a time, and nothing but the last one.   *)

IsReplaced(c, i) == \E j \in DOMAIN c : c[j].replacement_of = i

\* An allocation has a result exactly when it is finished, and replaces an earlier
\* one of its arm that failed; of two in one arm one is replaced.
Chained(c) ==
    /\ \A i \in DOMAIN c :
        /\ c[i].arm \in 1..Originals
        /\ c[i].replacement_of \in 0..(i - 1)
        /\ c[i].status = "FINISHED" <=> c[i].result # NoResult
        /\ IsReplaced(c, i) => Replaceable(c[i])
    /\ \A i, j \in DOMAIN c : i # j /\ c[i].arm = c[j].arm => IsReplaced(c, i) \/ IsReplaced(c, j)

ChainInv == (\A c \in manifests : Chained(c)) /\ Chained(current)

\* build_cohort: an arm has one allocation, which waits.
LEMMA AllocationsChained == Chained(Allocations)
<1>. DEFINE c == Allocations
<1>1. Originals \in Nat \ {0}
  BY CohortAssumption DEF CohortAssumption
<1>2. DOMAIN c = 1..Originals /\ \A i \in 1..Originals : c[i] = Planned(i, 0)
  BY DEF Allocations
<1>. HIDE DEF c
<1>3. \A i \in DOMAIN c : /\ c[i].arm = i /\ c[i].replacement_of = 0
                          /\ c[i].status = "PLANNED" /\ c[i].result = NoResult
  BY <1>2 DEF Planned
<1>4. \A i \in DOMAIN c : ~IsReplaced(c, i)
  BY <1>1, <1>2, <1>3 DEF IsReplaced
<1>5. \A i \in DOMAIN c : c[i].replacement_of \in 0..(i - 1) /\ c[i].arm \in 1..Originals
  BY <1>1, <1>2, <1>3
<1>. QED  BY <1>3, <1>4, <1>5 DEF Chained, c

\* add_replacement lengthens the chain of an arm.
LEMMA ReplacementChained ==
    ASSUME NEW c, IsCohort(c), Chained(c), NEW i \in DOMAIN c, Replaceable(c[i]), ~IsReplaced(c, i)
    PROVE  Chained(Append(c, Planned(c[i].arm, i)))
<1>. DEFINE row == Planned(c[i].arm, i)
            d == Append(c, row)
            n == Len(c)
<1>1. /\ n \in Nat /\ DOMAIN c = 1..n
      /\ DOMAIN d = 1..(n + 1) /\ d[n + 1] = row /\ \A m \in 1..n : d[m] = c[m]
  BY CohortFacts, AppendFacts
<1>2. /\ row.arm = c[i].arm /\ row.replacement_of = i /\ row.status = "PLANNED"
      /\ row.result = NoResult
  BY DEF Planned
<1>. HIDE DEF row, d, n
<1>3. i \in 1..n /\ \A m \in 1..(n + 1) : m \in 1..n \/ m = n + 1
  BY <1>1
<1>7. \A m \in 1..n : m \in 1..(n + 1)
  BY <1>1
<1>4. \A m \in 1..(n + 1) : IsReplaced(d, m) <=> (m \in 1..n /\ IsReplaced(c, m)) \/ m = i
  <2>1. \A j \in 1..n : c[j].replacement_of # n + 1
    <3>. TAKE j \in 1..n
    <3>1. c[j].replacement_of \in 0..(j - 1)
      BY <1>1 DEF Chained
    <3>. QED  BY <1>1, <3>1
  <2>2. ASSUME NEW m \in 1..(n + 1)
        PROVE  IsReplaced(d, m) <=> (\E j \in 1..n : c[j].replacement_of = m) \/ m = i
    BY <1>1, <1>2, <1>3, <1>7 DEF IsReplaced
  <2>. QED  BY <1>1, <1>3, <2>1, <2>2 DEF IsReplaced
<1>5. ASSUME NEW m \in DOMAIN d
      PROVE  /\ d[m].arm \in 1..Originals
             /\ d[m].replacement_of \in 0..(m - 1)
             /\ d[m].status = "FINISHED" <=> d[m].result # NoResult
             /\ IsReplaced(d, m) => Replaceable(d[m])
  <2>1. CASE m \in 1..n
    BY <1>1, <1>4, <1>5, <2>1 DEF Chained
  <2>2. CASE m = n + 1
    <3>1. ~IsReplaced(d, m) /\ d[m] = row
      BY <1>1, <1>3, <1>4, <2>2
    <3>2. i \in 0..(m - 1)
      BY <1>1, <1>3, <2>2
    <3>3. c[i].arm \in 1..Originals
      BY DEF Chained
    <3>. QED  BY <1>2, <3>1, <3>2, <3>3
  <2>. QED  BY <1>1, <1>3, <1>5, <2>1, <2>2
<1>6. ASSUME NEW l \in DOMAIN d, NEW m \in DOMAIN d, l # m, d[l].arm = d[m].arm
      PROVE  IsReplaced(d, l) \/ IsReplaced(d, m)
  <2>1. CASE l \in 1..n /\ m \in 1..n
    <3>1. c[l].arm = c[m].arm /\ l \in DOMAIN c /\ m \in DOMAIN c
      BY <1>1, <1>6, <2>1
    <3>2. IsReplaced(c, l) \/ IsReplaced(c, m)
      BY <1>6, <3>1 DEF Chained
    <3>. QED  BY <1>1, <1>4, <1>6, <2>1, <3>2
  <2>2. ASSUME NEW p \in 1..n, d[p].arm = row.arm
        PROVE  IsReplaced(d, p)
    <3>1. p = i \/ IsReplaced(c, p)
      BY <1>1, <1>2, <1>3, <2>2 DEF Chained
    <3>. QED  BY <1>1, <1>7, <1>4, <3>1
  <2>3. CASE l = n + 1 /\ m \in 1..n
    BY <1>1, <1>6, <2>2, <2>3
  <2>4. CASE m = n + 1 /\ l \in 1..n
    BY <1>1, <1>6, <2>2, <2>4
  <2>. QED  BY <1>1, <1>3, <1>6, <2>1, <2>3, <2>4
<1>. QED  BY <1>5, <1>6 DEF Chained, d, row

\* A result does not change what is replaced.
LEMMA FinishedChained ==
    ASSUME CInv, pc = "trial", Chained(current), NEW a \in Assessments
    PROVE  Chained(Finished(a))
<1>. DEFINE c == current
            d == Finished(a)
<1>1. /\ at \in DOMAIN c /\ DOMAIN d = DOMAIN c
      /\ \A m \in DOMAIN c : m # at => d[m] = c[m]
  BY FinishedStatus
<1>2. c[at].status = "PLANNED" /\ IsCohort(c)
  BY DEF CInv, Pending, Sound
<1>3. /\ d[at].arm = c[at].arm /\ d[at].replacement_of = c[at].replacement_of
      /\ d[at].status = "FINISHED" /\ d[at].result = a
  <2>1. RowOK(c[at]) /\ c = [i \in DOMAIN c |-> c[i]]
    BY <1>1, <1>2, CohortFacts DEF IsCohort
  <2>2. PICK row : row = FinishedRow(c[at], a, Trial(a))
    OBVIOUS
  <2>3. d[at] = row
    BY <1>1, <2>1, <2>2 DEF Finished
  <2>. HIDE DEF d
  <2>. QED  BY <2>1, <2>2, <2>3, RowUpdated
<1>. HIDE DEF d, c
<1>4. a # NoResult
  BY CohortAssumption DEF CohortAssumption, NoResult
<1>5. \A m \in DOMAIN c : d[m].arm = c[m].arm /\ d[m].replacement_of = c[m].replacement_of
  BY <1>1, <1>3
<1>6. \A m : IsReplaced(d, m) <=> IsReplaced(c, m)
  BY <1>1, <1>5 DEF IsReplaced
<1>7. ~IsReplaced(c, at)
  BY <1>1, <1>2 DEF Chained, Replaceable, c
<1>8. Chained(c)
  BY DEF c
<1>. QED  BY <1>1, <1>3, <1>4, <1>5, <1>6, <1>7, <1>8 DEF Chained, d

\* Every step keeps the chains.
LEMMA ChainStep == CInv /\ ChainInv /\ [Next]_vars => ChainInv'
<1>. SUFFICES ASSUME CInv, ChainInv, [Next]_vars  PROVE ChainInv'
  OBVIOUS
<1>1. CASE AddReplacement
  <2>1. PICK c \in manifests : \E i \in DOMAIN c :
            /\ Replaceable(c[i]) /\ \A j \in DOMAIN c : c[j].replacement_of # i
            /\ manifests' = manifests \union {Append(c, Planned(c[i].arm, i))}
    BY <1>1 DEF AddReplacement
  <2>2. PICK i \in DOMAIN c :
            /\ Replaceable(c[i]) /\ \A j \in DOMAIN c : c[j].replacement_of # i
            /\ manifests' = manifests \union {Append(c, Planned(c[i].arm, i))}
    BY <2>1
  <2>3. IsCohort(c) /\ Chained(c) /\ ~IsReplaced(c, i)
    BY <2>2 DEF CInv, Sound, ChainInv, IsReplaced
  <2>4. Chained(Append(c, Planned(c[i].arm, i)))
    BY <2>2, <2>3, ReplacementChained
  <2>. QED  BY <1>1, <2>2, <2>4 DEF ChainInv, AddReplacement
<1>2. CASE RunPreflight
  BY <1>2 DEF RunPreflight, ChainInv
<1>3. CASE RunTrial
  <2>1. PICK a \in Assessments : current' = Finished(a)
    BY <1>3 DEF RunTrial
  <2>2. Chained(Finished(a))
    BY <1>3, FinishedChained DEF RunTrial, ChainInv
  <2>. QED  BY <1>3, <2>1, <2>2 DEF RunTrial, ChainInv
<1>4. CASE Finish
  BY <1>4, AllocationsChained DEF Finish, Leave, ChainInv
<1>5. CASE Interrupt
  BY <1>5, AllocationsChained DEF Interrupt, Leave, ChainInv
<1>6. CASE WritePlan \/ AppendCohort \/ StartAllocation \/ AppendFinished \/ UNCHANGED vars
  BY <1>6 DEF WritePlan, AppendCohort, StartAllocation, AppendFinished, vars, ChainInv
<1>. QED  BY <1>1, <1>2, <1>3, <1>4, <1>5, <1>6 DEF Next

\* What the steps of the study are derived from.
StudyInv == BInv /\ CInv /\ HistoryInv /\ ChainInv

\* It holds in every behaviour of the cohort.
THEOREM StudyInvariance == Spec => []StudyInv
<1>1. Init => ChainInv
  BY AllocationsChained DEF Init, ChainInv
<1>. QED  BY <1>1, ChainStep, InitInv, HistoryInit, StepInv, BatchStep, HistoryStep, PTL
          DEF Spec, StudyInv
-----------------------------------------------------------------------------
(* What a directory tells                                                  *)

Page(b) == [i \in 1..MaxRows |-> Evidence(b, i)]

\* The three kinds of evidence differ.
LEMMA EvidenceFacts ==
    ASSUME NEW b, NEW i
    PROVE  /\ b.trials[i] = NoRecord =>
                Evidence(b, i) =
                    Allotted!Attempt(IF Started(b, i) THEN "announced" ELSE "none", NoResult)
           /\ b.trials[i] = Broken => Evidence(b, i) = Allotted!Attempt("broken", NoResult)
           /\ b.trials[i].kind = "TRIAL" =>
                Evidence(b, i) = Allotted!Attempt(IF Ended(b, i) THEN "reported" ELSE "executed",
                                                  b.trials[i].assessment)
<1>1. NoRecord.kind = "NONE" /\ Broken.kind = "BROKEN"
  BY DEF NoRecord, Broken
<1>2. CASE b.trials[i] = NoRecord
  BY <1>1, <1>2 DEF Evidence, Allotted!Attempt
<1>3. CASE b.trials[i] = Broken
  BY <1>1, <1>3 DEF Evidence, Allotted!Attempt
<1>4. CASE b.trials[i].kind = "TRIAL"
  BY <1>1, <1>4 DEF Evidence, Allotted!Attempt
<1>. QED  BY <1>1, <1>2, <1>3, <1>4

\* The directories as the ledger of the study.
LEMMA LedgerFacts ==
    ASSUME BInv
    PROVE  /\ Len(Directories) = Len(batches) /\ DOMAIN Directories = DOMAIN batches
           /\ IsSequence(Directories) /\ DOMAIN batches = 1..Len(batches) /\ Len(batches) \in Nat
           /\ \A k \in DOMAIN batches : Directories[k] = Page(batches[k])
           /\ pc # "idle" => Len(batches) \in DOMAIN batches /\ Allotted!Last = Page(Last)
<1>. DEFINE n == Len(batches)
<1>1. n \in Nat /\ DOMAIN batches = 1..n /\ (pc # "idle" => n \in 1..n)
  BY LastFacts DEF BInv
<1>. HIDE DEF n
<1>2. DOMAIN Directories = 1..n /\ Directories = [k \in 1..n |-> Directories[k]]
  BY <1>1 DEF Directories
<1>3. IsSequence(Directories) /\ Len(Directories) = n
  BY <1>1, <1>2, IsSequenceFacts
<1>4. \A k \in DOMAIN batches : Directories[k] = Page(batches[k])
  BY <1>1 DEF Directories, Page
<1>5. pc # "idle" => Allotted!Last = Page(Last)
  BY <1>1, <1>3, <1>4 DEF Allotted!Last, Last, n
<1>. QED  BY <1>1, <1>2, <1>3, <1>4, <1>5 DEF n

\* A step of the batch in progress writes on the last page.
LEMMA PageNoted ==
    ASSUME BInv, pc # "idle", NEW b, Batch(b)
    PROVE  /\ Page(b) = Page(Last) => Directories' = Directories
           /\ \A i, e : Page(b) = [Page(Last) EXCEPT ![i] = e] => Allotted!Note(i, e)
<1>. DEFINE n == Len(batches)
            D == Directories
<1>1. /\ Len(D) = n /\ n \in Nat /\ n \in 1..n /\ D = [k \in 1..n |-> D[k]]
      /\ D[n] = Page(Last) /\ \A k \in 1..n : D[k] = Page(batches[k])
  <2>1. /\ Len(D) = n /\ IsSequence(D) /\ n \in Nat /\ n \in 1..n /\ DOMAIN batches = 1..n
        /\ \A k \in 1..n : D[k] = Page(batches[k])
    BY LedgerFacts
  <2>2. D = [k \in 1..n |-> D[k]]
    BY <2>1, LastFacts
  <2>. QED  BY <2>1, <2>2 DEF Last
<1>2. /\ DOMAIN batches' = 1..n /\ batches'[n] = b
      /\ \A k \in 1..n : k # n => batches'[k] = batches[k]
  BY OthersStay
<1>3. D' = [k \in 1..n |-> Page(batches'[k])]
  BY <1>2 DEF Directories, Page, Evidence, Started, Ended, Mentions
<1>. HIDE DEF n, D
<1>4. D' = [k \in 1..n |-> IF k = n THEN Page(b) ELSE D[k]]
  BY <1>1, <1>2, <1>3
<1>5. D' = [D EXCEPT ![n] = Page(b)]
  BY <1>1, <1>4
<1>6. Page(b) = Page(Last) => D' = D
  BY <1>1, <1>4
<1>7. ASSUME NEW i, NEW e, Page(b) = [Page(Last) EXCEPT ![i] = e]
      PROVE  Allotted!Note(i, e)
  <2>1. D' = [D EXCEPT ![n] = [@ EXCEPT ![i] = e]]
    BY <1>1, <1>5, <1>7
  <2>. QED  BY <1>1, <2>1 DEF Allotted!Note, D
<1>. QED  BY <1>6, <1>7 DEF D

\* Two directories that tell the same of every allocation but i.
AlikeBut(b, d, i) ==
    \A j \in 1..MaxRows : j # i => /\ d.trials[j] = b.trials[j]
                                   /\ Started(d, j) <=> Started(b, j)
                                   /\ Ended(d, j) <=> Ended(b, j)

\* What is not mentioned stays as it is.
LEMMA PageUpdated ==
    ASSUME NEW b, NEW d, NEW i \in 1..MaxRows, AlikeBut(b, d, i)
    PROVE  Page(d) = [Page(b) EXCEPT ![i] = Evidence(d, i)]
<1>1. \A j \in 1..MaxRows : j # i => Evidence(d, j) = Evidence(b, j)
  BY DEF Evidence, AlikeBut
<1>2. /\ Page(b) = [j \in 1..MaxRows |-> Evidence(b, j)]
      /\ Page(d) = [j \in 1..MaxRows |-> Evidence(d, j)]
  BY DEF Page
<1>. QED  BY <1>1, <1>2

\* The files of a directory other than the journal and the exports tell nothing.
LEMMA PageOfFile ==
    ASSUME NEW b, b.journal = Last.journal, b.trials = Last.trials
    PROVE  Page(b) = Page(Last)
<1>1. \A i : (Started(b, i) = Started(Last, i)) /\ (Ended(b, i) = Ended(Last, i))
  BY DEF Started, Ended, Mentions
<1>. QED  BY <1>1 DEF Page, Evidence

\* What the directory of the batch in progress tells, by its copy of the manifest:
\* the outcome of everything executed, reported or about to be.
LEMMA PageInProgress ==
    ASSUME BInv, CInv, EvidenceInv, pc \in Executing
    PROVE  LET past == Past(Last, current) IN
           /\ past \subseteq DOMAIN current /\ DOMAIN current \subseteq 1..MaxRows
           /\ DOMAIN current # {}
           /\ \A i \in 1..MaxRows :
                IF i \in past
                THEN /\ Page(Last)[i] =
                            Allotted!Attempt(IF Ended(Last, i) THEN "reported" ELSE "executed",
                                             current[i].result)
                     /\ Started(Last, i) /\ Last.trials[i].kind = "TRIAL"
                ELSE /\ Page(Last)[i] =
                            Allotted!Attempt(IF Started(Last, i) THEN "announced" ELSE "none", NoResult)
                     /\ ~Ended(Last, i) /\ Last.trials[i] = NoRecord
<1>. DEFINE l == Last
            past == Past(l, current)
<1>1. Core(l, current) /\ Announced(l)
  BY LastQuiet DEF Quiet, EvidenceInv, Running, Executing
<1>2. DOMAIN current \subseteq 1..MaxRows /\ DOMAIN current # {}
  <2>1. PICK p : p = l.plan.cohort
    OBVIOUS
  <2>2. IsCohort(p) /\ Valid(p) /\ Len(p) <= MaxRows /\ DOMAIN current = DOMAIN p
    BY <1>1, <2>1 DEF Core, PlanReadable
  <2>3. Len(p) \in Nat /\ DOMAIN p = 1..Len(p) /\ Len(p) >= 1 /\ MaxRows \in Nat
    BY <2>2, CohortFacts, CohortAssumption DEF CohortAssumption, Valid
  <2>. QED  BY <2>2, <2>3
<1>3. past \subseteq DOMAIN current
  BY <1>1 DEF Core, Past, Pending
<1>. HIDE DEF l
<1>4. ASSUME NEW i \in 1..MaxRows, i \in past
      PROVE  /\ Evidence(l, i) = Allotted!Attempt(IF Ended(l, i) THEN "reported" ELSE "executed",
                                                  current[i].result)
             /\ Started(l, i) /\ l.trials[i].kind = "TRIAL"
  <2>1. /\ l.trials[i] # NoRecord /\ l.trials[i].kind = "TRIAL"
        /\ l.trials[i].assessment = current[i].result
    BY <1>1, <1>4 DEF Core, RecordOf
  <2>. QED  BY <1>1, <2>1, EvidenceFacts DEF Announced
<1>5. ASSUME NEW i \in 1..MaxRows, i \notin past
      PROVE  /\ Evidence(l, i) =
                    Allotted!Attempt(IF Started(l, i) THEN "announced" ELSE "none", NoResult)
             /\ ~Ended(l, i) /\ l.trials[i] = NoRecord
  <2>1. l.trials[i] = NoRecord
    BY <1>1, <1>5 DEF Core
  <2>2. l.trials[i].kind # "TRIAL"
    BY <2>1 DEF NoRecord
  <2>. QED  BY <1>1, <2>1, <2>2, EvidenceFacts DEF Announced
<1>6. \A i \in 1..MaxRows : Page(l)[i] = Evidence(l, i)
  BY DEF Page
<1>. HIDE DEF past
<1>. QED  BY <1>2, <1>3, <1>4, <1>5, <1>6 DEF l, past
-----------------------------------------------------------------------------
(* The steps of a batch as steps of the study                              *)

\* The copy of the manifest as the study sees it.
LEMMA AccountFacts ==
    ASSUME NEW c, IsCohort(c)
    PROVE  /\ Account(c) = [i \in DOMAIN c |-> Account(c)[i]] /\ DOMAIN Account(c) = DOMAIN c
           /\ IsSequence(Account(c)) /\ Len(Account(c)) = Len(c)
           /\ \A i \in DOMAIN c : Account(c)[i] = Allotted!Allocation(c[i].arm, c[i].result)
           /\ DOMAIN c # {} => Account(c) # <<>>
<1>1. Len(c) \in Nat /\ DOMAIN c = 1..Len(c)
  BY CohortFacts
<1>2. /\ Account(c) = [i \in DOMAIN c |-> Account(c)[i]] /\ DOMAIN Account(c) = DOMAIN c
      /\ \A i \in DOMAIN c : Account(c)[i] = Allotted!Allocation(c[i].arm, c[i].result)
  BY DEF Account, Allotted!Allocation
<1>3. IsSequence(Account(c)) /\ Len(Account(c)) = Len(c)
  BY <1>1, <1>2, IsSequenceFacts
<1>4. DOMAIN c # {} => Account(c) # <<>>
  BY <1>2
<1>. QED  BY <1>2, <1>3, <1>4

\* A batch in progress has a copy, of the allocations its directory has room for.
LEMMA CopyFacts ==
    ASSUME StudyInv, pc # "idle"
    PROVE  /\ InProgress = Account(current) /\ Allotted!Running /\ IsCohort(current)
           /\ DOMAIN InProgress = DOMAIN current /\ DOMAIN current \subseteq 1..MaxRows
           /\ \A i \in DOMAIN current :
                /\ InProgress[i] = Allotted!Allocation(current[i].arm, current[i].result)
                /\ InProgress[i].outcome = NoResult <=> i \in Pending(current)
<1>1. IsCohort(current) /\ Chained(current) /\ EvidenceInv /\ InProgress = Account(current)
  BY DEF StudyInv, CInv, Sound, ChainInv, HistoryInv, InProgress
<1>2. DOMAIN current \subseteq 1..MaxRows /\ DOMAIN current # {}
  <2>1. CASE pc = "plan"
    <3>1. Valid(current) /\ Len(current) <= MaxRows
      BY <1>1, <2>1 DEF EvidenceInv
    <3>2. /\ Len(current) \in Nat /\ DOMAIN current = 1..Len(current) /\ Len(current) >= 1
          /\ MaxRows \in Nat
      BY <1>1, <3>1, CohortFacts, CohortAssumption DEF CohortAssumption, Valid
    <3>. QED  BY <3>1, <3>2
  <2>2. CASE pc \in Executing
    BY <1>1, <2>2, PageInProgress DEF StudyInv
  <2>. QED  BY <1>1, <2>1, <2>2 DEF EvidenceInv
<1>3. /\ DOMAIN InProgress = DOMAIN current /\ InProgress # <<>>
      /\ \A i \in DOMAIN current :
            InProgress[i] = Allotted!Allocation(current[i].arm, current[i].result)
  BY <1>1, <1>2, AccountFacts
<1>4. \A i \in DOMAIN current : InProgress[i].outcome = NoResult <=> i \in Pending(current)
  <2>1. \A i \in DOMAIN current : /\ current[i].status \in {"PLANNED", "FINISHED"}
                                  /\ current[i].status = "FINISHED" <=> current[i].result # NoResult
    BY <1>1 DEF IsCohort, RowOK, Chained
  <2>. QED  BY <1>3, <2>1 DEF Pending, Allotted!Allocation
<1>. QED  BY <1>1, <1>2, <1>3, <1>4 DEF Allotted!Running

\* A file other than the journal and the exports says nothing of an attempt.
LEMMA FileNoted ==
    ASSUME BInv, pc # "idle", NEW b, Batch(b), b.journal = Last.journal, b.trials = Last.trials
    PROVE  Directories' = Directories
BY PageOfFile, PageNoted

\* Nor does the row with which the journal begins.
LEMMA CohortNoted ==
    ASSUME BInv, pc = "started", Batch(Logged(Last, CohortStarted(current)))
    PROVE  Directories' = Directories
<1>1. PICK l, d : l = Last /\ d = Logged(l, CohortStarted(current))
  OBVIOUS
<1>2. BatchOK(l) /\ l.journal = <<>>
  BY <1>1, LastQuiet DEF Quiet, Phase
<1>3. \A i : ~Started(d, i) /\ ~Ended(d, i) /\ ~Started(l, i) /\ ~Ended(l, i)
  BY <1>1, <1>2, CohortAppended DEF Started, Ended, Mentions
<1>4. d.trials = l.trials
  BY <1>1, <1>2, LoggedFields DEF BatchOK
<1>5. Page(d) = Page(l)
  BY <1>3, <1>4 DEF Page, Evidence
<1>. QED  BY <1>1, <1>5, PageNoted

\* The study is settled between two attempts.
LEMMA NothingOpen ==
    ASSUME StudyInv, pc = "next"
    PROVE  /\ Allotted!Settled
           /\ \A i \in Pending(current) : i \in 1..MaxRows =>
                Page(Last)[i] = Allotted!NoAttempt /\ ~Started(Last, i) /\ ~Ended(Last, i)
                /\ Last.trials[i] = NoRecord
<1>1. BInv /\ CInv /\ EvidenceInv /\ pc \in Executing
  BY DEF StudyInv, HistoryInv, Executing
<1>2. \A i \in 1..MaxRows : Started(Last, i) => Ended(Last, i)
  BY <1>1, LastQuiet DEF Phase
<1>3. ASSUME NEW i \in 1..MaxRows
      PROVE  /\ Page(Last)[i].stage \in {"none", "reported"}
             /\ i \in Pending(current) => /\ Page(Last)[i] = Allotted!NoAttempt
                                          /\ ~Started(Last, i) /\ ~Ended(Last, i)
                                          /\ Last.trials[i] = NoRecord
  <2>1. i \in Pending(current) => i \notin Past(Last, current)
    BY DEF Past
  <2>2. CASE i \in Past(Last, current)
    <3>1. /\ Page(Last)[i] = Allotted!Attempt(IF Ended(Last, i) THEN "reported" ELSE "executed",
                                             current[i].result)
          /\ Started(Last, i)
      BY <1>1, <2>2, PageInProgress
    <3>. QED  BY <1>2, <2>1, <2>2, <3>1 DEF Allotted!Attempt
  <2>3. CASE i \notin Past(Last, current)
    <3>1. /\ Page(Last)[i] = Allotted!Attempt(IF Started(Last, i) THEN "announced" ELSE "none",
                                             NoResult)
          /\ ~Ended(Last, i) /\ Last.trials[i] = NoRecord
      BY <1>1, <2>3, PageInProgress
    <3>. QED  BY <1>2, <3>1 DEF Allotted!Attempt, Allotted!NoAttempt
  <2>. QED  BY <2>2, <2>3
<1>4. Allotted!Last = Page(Last)
  BY <1>1, LedgerFacts
<1>. QED  BY <1>3, <1>4 DEF Allotted!Settled

\* An attempt is announced.
LEMMA StartNoted ==
    ASSUME StudyInv, pc = "next", NEW i, IsFirst(i, current),
           Batch(Logged(Last, AllocationStarted(i)))
    PROVE  i \in 1..MaxRows /\ Allotted!Announces(i)
<1>1. /\ BInv /\ pc # "idle" /\ i \in Pending(current) /\ i \in DOMAIN current
      /\ i \in 1..MaxRows
  BY CopyFacts DEF StudyInv, IsFirst, Pending
<1>2. PICK l, d : l = Last /\ d = Logged(l, AllocationStarted(i))
  OBVIOUS
<1>3. /\ \A m : (Started(d, m) <=> Started(l, m) \/ m = i) /\ (Ended(d, m) <=> Ended(l, m))
      /\ d.trials = l.trials
  BY <1>1, <1>2, StartAppended, LastQuiet, LoggedFields DEF Quiet, BatchOK
<1>4. /\ Page(l)[i] = Allotted!NoAttempt /\ ~Started(l, i) /\ ~Ended(l, i)
      /\ l.trials[i] = NoRecord /\ Allotted!Settled
  BY <1>1, <1>2, NothingOpen
<1>5. Evidence(d, i) = Allotted!Attempt("announced", NoResult)
  BY <1>3, <1>4, EvidenceFacts
<1>6. Page(d) = [Page(l) EXCEPT ![i] = Evidence(d, i)]
  <2>1. AlikeBut(l, d, i)
    BY <1>3 DEF AlikeBut
  <2>. QED  BY <1>1, <2>1, PageUpdated
<1>7. Allotted!Note(i, Allotted!Attempt("announced", NoResult))
  BY <1>1, <1>2, <1>5, <1>6, PageNoted
<1>8. InProgress[i].outcome = NoResult
      /\ \A j \in DOMAIN InProgress : j < i => InProgress[j].outcome # NoResult
  <2>1. \A j \in DOMAIN current : j < i => j \notin Pending(current)
    <3>1. \A j \in Pending(current) : i <= j
      BY DEF IsFirst
    <3>2. Len(current) \in Nat /\ DOMAIN current = 1..Len(current)
      BY <1>1, CopyFacts, CohortFacts
    <3>. QED  BY <1>1, <3>1, <3>2
  <2>. QED  BY <1>1, <2>1, CopyFacts
<1>9. DOMAIN InProgress = DOMAIN current /\ Allotted!Last[i] = Allotted!NoAttempt
  BY <1>1, <1>2, <1>4, CopyFacts, LedgerFacts
<1>. QED  BY <1>1, <1>4, <1>7, <1>8, <1>9 DEF Allotted!Announces

\* What is announced is executed, or breaks.
LEMMA TrialNoted ==
    ASSUME StudyInv, pc = "trial", NEW t, Batch(Exported(Last, t))
    PROVE  /\ at \in 1..MaxRows
           /\ t.kind = "TRIAL" => Allotted!Executes(at, t.assessment)
           /\ t = Broken => Allotted!Breaks(at)
<1>1. /\ BInv /\ CInv /\ EvidenceInv /\ pc # "idle" /\ pc \in Executing
      /\ at \in Pending(current) /\ at \in 1..MaxRows
  BY CopyFacts DEF StudyInv, HistoryInv, CInv, Pending, Executing
<1>2. PICK l, d : l = Last /\ d = Exported(l, t)
  OBVIOUS
<1>3. BatchOK(l) /\ Started(l, at)
  BY <1>1, <1>2, LastQuiet DEF Quiet, Phase
<1>4. d.journal = l.journal /\ d.trials = [l.trials EXCEPT ![at] = t]
  BY <1>2, <1>3, ExportFields
<1>5. l.trials = [m \in 1..MaxRows |-> l.trials[m]]
  BY <1>3 DEF BatchOK
<1>6. \A m : Started(d, m) = Started(l, m) /\ Ended(d, m) = Ended(l, m)
  BY <1>4 DEF Started, Ended, Mentions
<1>7. d.trials[at] = t /\ \A m \in 1..MaxRows : m # at => d.trials[m] = l.trials[m]
  BY <1>1, <1>4, <1>5
<1>8. at \notin Past(l, current)
  BY <1>1 DEF Past
<1>9. Page(l)[at] = Allotted!Attempt("announced", NoResult) /\ ~Ended(l, at)
  BY <1>1, <1>2, <1>3, <1>8, PageInProgress
<1>10. Page(d) = [Page(l) EXCEPT ![at] = Evidence(d, at)]
  <2>1. AlikeBut(l, d, at)
    BY <1>6, <1>7 DEF AlikeBut
  <2>. QED  BY <1>1, <2>1, PageUpdated
<1>11. Allotted!Note(at, Evidence(d, at))
  BY <1>1, <1>2, <1>10, PageNoted
<1>12. Allotted!Last[at].stage = "announced"
  BY <1>1, <1>2, <1>9, LedgerFacts DEF Allotted!Attempt
<1>13. /\ t.kind = "TRIAL" => Evidence(d, at) = Allotted!Attempt("executed", t.assessment)
       /\ t = Broken => Evidence(d, at) = Allotted!Attempt("broken", NoResult)
  BY <1>6, <1>7, <1>9, EvidenceFacts
<1>. QED  BY <1>1, <1>11, <1>12, <1>13 DEF Allotted!Executes, Allotted!Breaks

\* What is executed is reported.
LEMMA FinishNoted ==
    ASSUME StudyInv, pc = "finish", Batch(Logged(Last, AllocationFinished(at, current[at])))
    PROVE  at \in 1..MaxRows /\ (Allotted!Reports(at) \/ Directories' = Directories)
<1>1. /\ BInv /\ CInv /\ EvidenceInv /\ pc # "idle" /\ pc \in Executing
      /\ at \in Past(Last, current) /\ at \in 1..MaxRows
  <2>1. BInv /\ CInv /\ EvidenceInv /\ pc # "idle" /\ pc \in Executing
    BY DEF StudyInv, HistoryInv, Executing
  <2>2. at \in Past(Last, current)
    BY <2>1 DEF EvidenceInv, Running, Executing
  <2>. QED  BY <2>1, <2>2, PageInProgress
<1>2. PICK l, d : l = Last /\ d = Logged(l, AllocationFinished(at, current[at]))
  OBVIOUS
<1>3. /\ \A m : (Started(d, m) <=> Started(l, m)) /\ (Ended(d, m) <=> Ended(l, m) \/ m = at)
      /\ d.trials = l.trials
  BY <1>1, <1>2, FinishAppended, LastQuiet, LoggedFields DEF Quiet, BatchOK
<1>4. /\ Page(l)[at] = Allotted!Attempt(IF Ended(l, at) THEN "reported" ELSE "executed",
                                        current[at].result)
      /\ l.trials[at].kind = "TRIAL"
  BY <1>1, <1>2, PageInProgress
<1>5. Page(d) = [Page(l) EXCEPT ![at] = Evidence(d, at)]
  <2>1. AlikeBut(l, d, at)
    BY <1>3 DEF AlikeBut
  <2>. QED  BY <1>1, <2>1, PageUpdated
<1>6. /\ Evidence(d, at) = Allotted!Attempt("reported", l.trials[at].assessment)
      /\ Page(l)[at] = Allotted!Attempt(IF Ended(l, at) THEN "reported" ELSE "executed",
                                        l.trials[at].assessment)
  BY <1>1, <1>3, <1>4, EvidenceFacts DEF Page
<1>7. CASE Ended(l, at)
  <2>1. Page(d) = Page(l)
    BY <1>1, <1>5, <1>6, <1>7 DEF Page
  <2>. QED  BY <1>1, <1>2, <2>1, PageNoted
<1>8. CASE ~Ended(l, at)
  <2>1. Allotted!Last[at] = Allotted!Attempt("executed", l.trials[at].assessment)
    BY <1>1, <1>2, <1>6, <1>8, LedgerFacts
  <2>2. Allotted!Note(at, Allotted!Attempt("reported", l.trials[at].assessment))
    BY <1>1, <1>2, <1>5, <1>6, PageNoted
  <2>. QED  BY <1>1, <2>1, <2>2 DEF Allotted!Reports, Allotted!Attempt
<1>. QED  BY <1>7, <1>8

\* Appending a row appends what the study sees of it.
LEMMA AccountAppended ==
    ASSUME NEW c, IsCohort(c), NEW row
    PROVE  Account(Append(c, row)) = Append(Account(c), Allotted!Allocation(row.arm, row.result))
<1>. DEFINE e == Allotted!Allocation(row.arm, row.result)
            n == Len(c)
            s == Append(Account(c), e)
            d == Append(c, row)
<1>1. /\ n \in Nat /\ DOMAIN c = 1..n /\ DOMAIN d = 1..(n + 1) /\ d[n + 1] = row
      /\ \A i \in 1..n : d[i] = c[i]
  BY CohortFacts, AppendFacts
<1>2. /\ IsSequence(Account(c)) /\ Len(Account(c)) = n /\ DOMAIN Account(c) = DOMAIN c
      /\ \A i \in DOMAIN c : Account(c)[i] = Allotted!Allocation(c[i].arm, c[i].result)
  BY AccountFacts
<1>. HIDE DEF n, e
<1>3. /\ DOMAIN s = 1..(n + 1) /\ s[n + 1] = e /\ \A i \in 1..n : s[i] = Account(c)[i]
      /\ s = [i \in 1..(n + 1) |-> s[i]]
  <2>1. /\ IsSequence(s) /\ Len(s) = n + 1 /\ DOMAIN s = 1..(n + 1) /\ s[n + 1] = e
        /\ \A i \in 1..n : s[i] = Account(c)[i]
    BY <1>2, Appending
  <2>. HIDE DEF s
  <2>2. s = [i \in 1..(n + 1) |-> s[i]]
    BY <2>1, LastFacts
  <2>. QED  BY <2>1, <2>2
<1>. HIDE DEF s, d
<1>4. Account(d) = [i \in 1..(n + 1) |-> Allotted!Allocation(d[i].arm, d[i].result)]
  BY <1>1 DEF Account, Allotted!Allocation
<1>5. \A i \in 1..(n + 1) : Allotted!Allocation(d[i].arm, d[i].result) = s[i]
  <2>1. \A i \in 1..n : Allotted!Allocation(d[i].arm, d[i].result) = s[i]
    BY <1>1, <1>2, <1>3
  <2>2. Allotted!Allocation(d[n + 1].arm, d[n + 1].result) = s[n + 1]
    BY <1>1, <1>3 DEF e
  <2>3. \A i \in 1..(n + 1) : i \in 1..n \/ i = n + 1
    BY <1>1
  <2>. QED  BY <2>1, <2>2, <2>3
<1>. QED  BY <1>3, <1>4, <1>5 DEF s, d, e

\* add_replacement: an arm is tried again when all its attempts have failed.
LEMMA ReplacementStudied ==
    ASSUME StudyInv, AddReplacement
    PROVE  Allotted!Replace
<1>1. PICK c \in manifests : \E i \in DOMAIN c :
          /\ Replaceable(c[i]) /\ \A j \in DOMAIN c : c[j].replacement_of # i
          /\ manifests' = manifests \union {Append(c, Planned(c[i].arm, i))}
  BY DEF AddReplacement
<1>2. PICK i \in DOMAIN c :
          /\ Replaceable(c[i]) /\ \A j \in DOMAIN c : c[j].replacement_of # i
          /\ manifests' = manifests \union {Append(c, Planned(c[i].arm, i))}
  BY <1>1
<1>3. IsCohort(c) /\ Chained(c) /\ ~IsReplaced(c, i) /\ Account(c) \in Accounts
  BY <1>2 DEF StudyInv, CInv, Sound, ChainInv, IsReplaced, Accounts
<1>4. PICK row : row = Planned(c[i].arm, i)
  OBVIOUS
<1>5. row.arm = c[i].arm /\ row.result = NoResult /\ c[i].arm \in 1..Originals
  BY <1>3, <1>4 DEF Planned, Chained
<1>6. Accounts' = Accounts \union {Append(Account(c), Allotted!Allocation(c[i].arm, NoResult))}
  <2>1. Account(Append(c, row)) = Append(Account(c), Allotted!Allocation(c[i].arm, NoResult))
    BY <1>3, <1>5, AccountAppended
  <2>2. Accounts' = Accounts \union {Account(Append(c, row))}
    BY <1>2, <1>4 DEF Accounts
  <2>. QED  BY <2>1, <2>2
<1>7. \A m \in DOMAIN c : c[m].arm = c[i].arm => Replaceable(c[m])
  BY <1>2, <1>3 DEF Chained
<1>8. \A m \in DOMAIN Account(c) :
          Account(c)[m].arm = c[i].arm => Account(c)[m].outcome \in Failures
  <2>1. \A m \in DOMAIN c : Replaceable(c[m]) => c[m].result \in Failures
    BY <1>3 DEF IsCohort, RowOK, Chained, Replaceable, Failures
  <2>2. DOMAIN Account(c) = DOMAIN c
        /\ \A m \in DOMAIN c : /\ Account(c)[m].arm = c[m].arm
                               /\ Account(c)[m].outcome = c[m].result
    BY DEF Account
  <2>. QED  BY <1>7, <2>1, <2>2
<1>9. pc = "idle" /\ pc' = "idle" /\ batches' = batches
  BY DEF AddReplacement
<1>10. InProgress = <<>> /\ InProgress' = InProgress /\ Directories' = Directories
  BY <1>9 DEF InProgress, Directories, Evidence, Started, Ended, Mentions
<1>. QED  BY <1>3, <1>5, <1>6, <1>8, <1>10 DEF Allotted!Replace, Allotted!Running, Failures

\* run_preflight makes a directory.
LEMMA PreflightStudied ==
    ASSUME StudyInv, RunPreflight
    PROVE  Allotted!Open
<1>1. /\ pc = "idle" /\ pc' = "plan" /\ current' \in manifests /\ manifests' = manifests
      /\ batches' = Append(batches, NewBatch)
  BY DEF RunPreflight
<1>2. ~Allotted!Running /\ InProgress' \in Accounts /\ Accounts' = Accounts
  BY <1>1 DEF Allotted!Running, InProgress, Accounts
<1>. DEFINE n == Len(batches)
            e == [i \in 1..MaxRows |-> Allotted!NoAttempt]
            s == Append(Directories, e)
<1>3. PICK b : b = NewBatch
  OBVIOUS
<1>4. /\ n \in Nat /\ DOMAIN batches' = 1..(n + 1) /\ batches'[n + 1] = b
      /\ \A k \in 1..n : batches'[k] = batches[k]
  BY <1>1, <1>3, Appending, LastFacts DEF StudyInv, BInv
<1>5. Page(b) = e
  <2>1. \A i \in 1..MaxRows : b.trials[i] = NoRecord /\ ~Started(b, i)
    BY <1>3 DEF NewBatch, Started, Mentions
  <2>2. \A i \in 1..MaxRows : Evidence(b, i) = Allotted!NoAttempt
    BY <2>1, EvidenceFacts DEF Allotted!NoAttempt
  <2>. QED  BY <2>2 DEF Page
<1>6. Directories' = [k \in 1..(n + 1) |-> Page(batches'[k])]
  BY <1>4 DEF Directories, Page, Evidence, Started, Ended, Mentions
<1>7. /\ Len(Directories) = n /\ IsSequence(Directories)
      /\ \A k \in 1..n : Directories[k] = Page(batches[k])
  BY LedgerFacts DEF StudyInv
<1>. HIDE DEF n, e
<1>8. /\ DOMAIN s = 1..(n + 1) /\ s[n + 1] = e /\ \A k \in 1..n : s[k] = Directories[k]
      /\ s = [k \in 1..(n + 1) |-> s[k]]
  <2>1. /\ IsSequence(s) /\ Len(s) = n + 1 /\ DOMAIN s = 1..(n + 1) /\ s[n + 1] = e
        /\ \A k \in 1..n : s[k] = Directories[k]
    BY <1>7, Appending
  <2>. HIDE DEF s
  <2>2. s = [k \in 1..(n + 1) |-> s[k]]
    BY <2>1, LastFacts
  <2>. QED  BY <2>1, <2>2
<1>. HIDE DEF s
<1>9. \A k \in 1..(n + 1) : Page(batches'[k]) = s[k]
  <2>1. \A k \in 1..n : Page(batches'[k]) = s[k]
    BY <1>4, <1>7, <1>8
  <2>2. Page(batches'[n + 1]) = s[n + 1]
    BY <1>4, <1>5, <1>8
  <2>3. \A k \in 1..(n + 1) : k \in 1..n \/ k = n + 1
    BY <1>4
  <2>. QED  BY <2>1, <2>2, <2>3
<1>10. Directories' = s
  BY <1>6, <1>8, <1>9
<1>. QED  BY <1>2, <1>10 DEF Allotted!Open, s, e

\* The trial's outcome comes into the copy.
LEMMA OutcomeNoted ==
    ASSUME StudyInv, pc = "trial", NEW a \in Assessments
    PROVE  Account(Finished(a)) = [InProgress EXCEPT ![at] = Allotted!Allocation(@.arm, a)]
<1>. DEFINE d == Finished(a)
            c == current
<1>1. CInv /\ IsCohort(c) /\ InProgress = Account(c)
      /\ \A i \in DOMAIN c : InProgress[i] = Allotted!Allocation(c[i].arm, c[i].result)
  BY CopyFacts DEF StudyInv
<1>2. /\ at \in DOMAIN c /\ DOMAIN d = DOMAIN c /\ \A m \in DOMAIN c : m # at => d[m] = c[m]
  BY <1>1, FinishedStatus
<1>3. d[at].arm = c[at].arm /\ d[at].result = a
  <2>1. RowOK(c[at]) /\ c = [i \in DOMAIN c |-> c[i]]
    BY <1>1, <1>2, CohortFacts DEF IsCohort
  <2>2. PICK row : row = FinishedRow(c[at], a, Trial(a))
    OBVIOUS
  <2>3. d[at] = row
    BY <1>2, <2>1, <2>2 DEF Finished
  <2>. HIDE DEF d
  <2>. QED  BY <2>1, <2>2, <2>3, RowUpdated
<1>. HIDE DEF d, c
<1>4. InProgress = [i \in DOMAIN c |-> InProgress[i]]
  BY <1>1, AccountFacts
<1>5. Account(d) = [i \in DOMAIN c |->
                        IF i = at THEN Allotted!Allocation(c[at].arm, a) ELSE InProgress[i]]
  <2>1. Account(d) = [i \in DOMAIN c |-> Allotted!Allocation(d[i].arm, d[i].result)]
    BY <1>2 DEF Account, Allotted!Allocation
  <2>2. Allotted!Allocation(d[at].arm, d[at].result) = Allotted!Allocation(c[at].arm, a)
    BY <1>3
  <2>3. \A i \in DOMAIN c : i # at => Allotted!Allocation(d[i].arm, d[i].result) = InProgress[i]
    BY <1>1, <1>2 DEF c
  <2>. QED  BY <2>1, <2>2, <2>3
<1>6. InProgress[at].arm = c[at].arm
  <2>1. InProgress[at] = Allotted!Allocation(c[at].arm, c[at].result)
    BY <1>1, <1>2
  <2>. QED  BY <2>1 DEF Allotted!Allocation
<1>. QED  BY <1>2, <1>4, <1>5, <1>6 DEF d

\* A last step that the study may know of.
LastWord ==
    \/ Directories' = Directories
    \/ \E i \in 1..MaxRows :
          \/ Allotted!Announces(i) \/ Allotted!Breaks(i) \/ Allotted!Reports(i)
          \/ \E a \in Assessments : Allotted!Executes(i, a)

\* Whatever interrupts a batch, of its last step the study knows or it does not.
LEMMA InterruptionStudied ==
    ASSUME StudyInv, Interrupt
    PROVE  Allotted!Abandon
<1>1. pc # "idle" /\ pc' = "idle" /\ Cut /\ manifests' = manifests /\ BInv
  BY DEF Interrupt, Leave, StudyInv
<1>2. Allotted!Running /\ InProgress' = <<>> /\ Accounts' = Accounts
  BY <1>1, CopyFacts DEF InProgress, Accounts
<1>3. ASSUME NEW b, Batch(b), FileOf(b)
      PROVE  LastWord
  BY <1>1, <1>3, FileNoted DEF FileOf, LastWord
<1>4. /\ FileOf(Last) /\ FileOf(Torn(Last)) /\ FileOf([Last EXCEPT !.opened = TRUE])
      /\ \A x : FileOf([Last EXCEPT !.plan = x]) /\ FileOf([Last EXCEPT !.final = x])
  BY <1>1, FilesOfLast
<1>5. ASSUME \/ Batch(Last) \/ Batch(Torn(Last)) \/ Batch([Last EXCEPT !.opened = TRUE])
             \/ Batch([Last EXCEPT !.plan = Invalid])
             \/ Batch([Last EXCEPT !.plan = File(current)])
             \/ Batch([Last EXCEPT !.final = Invalid])
             \/ Batch([Last EXCEPT !.final = File(current)])
      PROVE  LastWord
  BY <1>3, <1>4, <1>5
<1>6. ASSUME pc = "started", Batch(Logged(Last, CohortStarted(current)))
      PROVE  LastWord
  BY <1>1, <1>6, CohortNoted DEF LastWord
<1>7. ASSUME pc = "next", NEW i, IsFirst(i, current), Batch(Logged(Last, AllocationStarted(i)))
      PROVE  LastWord
  BY <1>7, StartNoted DEF LastWord
<1>8. ASSUME pc = "trial", Batch(Exported(Last, Broken))
      PROVE  LastWord
  BY <1>8, TrialNoted DEF LastWord
<1>9. ASSUME pc = "trial", NEW a \in Assessments, Batch(Exported(Last, Trial(a)))
      PROVE  LastWord
  <2>1. PICK t : t = Trial(a)
    OBVIOUS
  <2>2. t.kind = "TRIAL" /\ t.assessment = a
    BY <2>1 DEF Trial
  <2>3. Batch(Exported(Last, t))
    BY <1>9, <2>1
  <2>4. at \in 1..MaxRows /\ Allotted!Executes(at, a)
    BY <1>9, <2>2, <2>3, TrialNoted
  <2>. QED  BY <2>4 DEF LastWord
<1>10. ASSUME pc = "finish", Batch(Logged(Last, AllocationFinished(at, current[at])))
       PROVE  LastWord
  BY <1>10, FinishNoted DEF LastWord
<1>11. LastWord
  BY <1>1, <1>5, <1>6, <1>7, <1>8, <1>9, <1>10 DEF Cut
<1>. QED  BY <1>2, <1>11 DEF Allotted!Abandon, LastWord

\* Every step of the cohort is one of the study or changes nothing in it.
LEMMA StepIsStudied ==
    ASSUME StudyInv, [Next]_vars
    PROVE  [Allotted!Next]_(Allotted!vars)
<1>0. BInv /\ CInv
  BY DEF StudyInv
<1>1. ASSUME pc # "idle", pc' # "idle", current' = current, manifests' = manifests
      PROVE  InProgress' = InProgress /\ Accounts' = Accounts
  BY <1>1 DEF InProgress, Accounts, Account
<1>. DEFINE Still == UNCHANGED <<Accounts, Directories, InProgress>>
<1>2. Still => [Allotted!Next]_(Allotted!vars)
  BY DEF Allotted!vars
<1>. HIDE DEF Still
<1>3. CASE AddReplacement
  BY <1>3, ReplacementStudied DEF Allotted!Next
<1>4. CASE RunPreflight
  BY <1>4, PreflightStudied DEF Allotted!Next
<1>5. CASE WritePlan
  <2>1. PICK l, b : l = Last /\ b = [l EXCEPT !.plan = File(current)]
    OBVIOUS
  <2>2. pc = "plan" /\ Batch(b) /\ UNCHANGED <<manifests, current>> /\ pc' = "started"
    BY <1>5, <2>1 DEF WritePlan
  <2>3. BatchOK(l)
    BY <1>0, <2>1, <2>2, LastQuiet DEF Quiet
  <2>4. b.journal = l.journal /\ b.trials = l.trials
    BY <2>1, <2>3, OtherFields
  <2>. QED  BY <1>0, <1>1, <1>2, <2>1, <2>2, <2>4, FileNoted DEF Still
<1>6. CASE AppendCohort
  BY <1>0, <1>1, <1>2, <1>6, CohortNoted DEF AppendCohort, Still
<1>7. CASE StartAllocation
  <2>1. PICK i : IsFirst(i, current) /\ Batch(Logged(Last, AllocationStarted(i)))
    BY <1>7 DEF StartAllocation
  <2>2. pc = "next" /\ pc' # "idle" /\ UNCHANGED <<manifests, current>>
    BY <1>7 DEF StartAllocation
  <2>3. i \in 1..MaxRows /\ Allotted!Announces(i) /\ Allotted!Running
    BY <2>1, <2>2, StartNoted, CopyFacts
  <2>. QED  BY <1>1, <2>2, <2>3 DEF Allotted!Proceed, Allotted!Next
<1>8. CASE RunTrial
  <2>1. PICK a \in Assessments : Batch(Exported(Last, Trial(a))) /\ current' = Finished(a)
    BY <1>8 DEF RunTrial
  <2>2. pc = "trial" /\ pc' = "finish" /\ manifests' = manifests
    BY <1>8 DEF RunTrial
  <2>3. PICK t : t = Trial(a)
    OBVIOUS
  <2>4. t.kind = "TRIAL" /\ t.assessment = a
    BY <2>3 DEF Trial
  <2>5. at \in 1..MaxRows /\ Allotted!Executes(at, a) /\ Allotted!Running
    BY <2>1, <2>2, <2>3, <2>4, TrialNoted, CopyFacts
  <2>6. InProgress' = [InProgress EXCEPT ![at] = Allotted!Allocation(@.arm, a)]
    <3>1. InProgress' = Account(Finished(a))
      BY <2>1, <2>2 DEF InProgress, Account
    <3>. QED  BY <2>2, <3>1, OutcomeNoted
  <2>7. Accounts' = Accounts
    BY <2>2 DEF Accounts
  <2>. QED  BY <2>5, <2>6, <2>7 DEF Allotted!Proceed, Allotted!Next
<1>9. CASE AppendFinished
  <2>1. /\ pc = "finish" /\ pc' # "idle" /\ UNCHANGED <<manifests, current>>
        /\ Batch(Logged(Last, AllocationFinished(at, current[at])))
    BY <1>9 DEF AppendFinished
  <2>2. /\ at \in 1..MaxRows /\ Allotted!Running
        /\ Allotted!Reports(at) \/ Directories' = Directories
    BY <2>1, FinishNoted, CopyFacts
  <2>3. InProgress' = InProgress /\ Accounts' = Accounts
    BY <1>1, <2>1
  <2>4. CASE Allotted!Reports(at)
    BY <2>2, <2>3, <2>4 DEF Allotted!Proceed, Allotted!Next
  <2>. QED  BY <1>2, <2>2, <2>3, <2>4 DEF Still
<1>10. CASE Finish
  <2>1. PICK l, b : l = Last /\ b = [l EXCEPT !.final = File(current)]
    OBVIOUS
  <2>2. /\ pc = "next" /\ Pending(current) = {} /\ Batch(b) /\ pc' = "idle"
        /\ manifests' = manifests \union {current}
    BY <1>10, <2>1 DEF Finish, Leave
  <2>3. BatchOK(l)
    BY <1>0, <2>1, <2>2, LastQuiet DEF Quiet
  <2>4. b.journal = l.journal /\ b.trials = l.trials
    BY <2>1, <2>3, OtherFields
  <2>5. Directories' = Directories
    BY <1>0, <2>1, <2>2, <2>4, FileNoted
  <2>6. Allotted!Running /\ Allotted!Settled /\ InProgress = Account(current)
        /\ \A i \in DOMAIN InProgress : InProgress[i].outcome # NoResult
    BY <2>2, CopyFacts, NothingOpen
  <2>7. Accounts' = Accounts \union {InProgress} /\ InProgress' = <<>>
    BY <2>2, <2>6 DEF Accounts, InProgress
  <2>. QED  BY <2>5, <2>6, <2>7 DEF Allotted!Return, Allotted!Next
<1>11. CASE Interrupt
  BY <1>11, InterruptionStudied DEF Allotted!Next
<1>12. CASE UNCHANGED vars
  BY <1>2, <1>12 DEF vars, Still, Accounts, Directories, InProgress, Account, Evidence, Started,
                     Ended, Mentions
<1>. QED  BY <1>3, <1>4, <1>5, <1>6, <1>7, <1>8, <1>9, <1>10, <1>11, <1>12 DEF Next

\* The frozen plan, before any batch.
LEMMA InitIsStudied == Init => Allotted!Init
<1>. SUFFICES ASSUME Init  PROVE Allotted!Init
  OBVIOUS
<1>1. manifests = {Allocations} /\ batches = <<>> /\ pc = "idle"
  BY DEF Init
<1>2. Account(Allocations) = [i \in 1..Originals |-> Allotted!Allocation(i, NoResult)]
  BY DEF Account, Allocations, Planned, Allotted!Allocation
<1>3. Directories = <<>>
  <2>1. BInv
    BY <1>1 DEF BInv, IsSequence
  <2>2. IsSequence(Directories) /\ Len(Directories) = 0
    BY <1>1, <2>1, LedgerFacts
  <2>. QED  BY <2>2, LastFacts
<1>4. Accounts = {Account(Allocations)}
  BY <1>1 DEF Accounts
<1>5. InProgress = <<>>
  BY <1>1 DEF InProgress
<1>. QED  BY <1>2, <1>3, <1>4, <1>5 DEF Allotted!Init

\* Whatever is run, interrupted, forked and replaced: what the manifests and the
\* directories say is at any moment a study in which attempts are announced,
\* executed and reported one by one and nothing written is taken back.
THEOREM CohortImplementsStudy == Spec => ImplementsStudy
<1>1. StudyInv /\ [Next]_vars => [Allotted!Next]_(Allotted!vars)
  BY StepIsStudied
<1>. QED  BY <1>1, InitIsStudied, StudyInvariance, PTL DEF Spec, ImplementsStudy, Allotted!Spec
-----------------------------------------------------------------------------
(* What the study is good for                                              *)

\* An outcome in the copy is reported, or executed in the batch in progress.
BackedInv ==
    /\ \A c \in Accounts : Allotted!Backed(c)
    /\ Allotted!Running =>
        \A i \in DOMAIN InProgress : InProgress[i].outcome # NoResult =>
            \/ \E k \in DOMAIN Directories :
                  Directories[k][i] = Allotted!Attempt("reported", InProgress[i].outcome)
            \/ i \in 1..MaxRows
               /\ Allotted!Last[i] = Allotted!Attempt("executed", InProgress[i].outcome)

\* What is reported stays so.
ReportsStay ==
    \A k \in DOMAIN Directories : \A i, o :
        Directories[k][i] = Allotted!Attempt("reported", o) =>
            k \in DOMAIN Directories' /\ Directories'[k][i] = Directories[k][i]

\* A step of the batch in progress, written over what is not reported yet.
LEMMA NoteFacts ==
    ASSUME StudyInv, Allotted!Running, NEW i \in 1..MaxRows, NEW e, Allotted!Note(i, e),
           Allotted!Last[i].stage # "reported"
    PROVE  /\ ReportsStay /\ Len(Directories) \in DOMAIN Directories'
           /\ Directories'[Len(Directories)] = Allotted!Last'
           /\ Allotted!Last'[i] = e
           /\ \A j \in 1..MaxRows : j # i => Allotted!Last'[j] = Allotted!Last[j]
<1>. DEFINE n == Len(Directories)
            D == Directories
            l == Allotted!Last
            d == [l EXCEPT ![i] = e]
<1>1. BInv /\ pc # "idle"
  BY DEF StudyInv, Allotted!Running, InProgress
<1>2. /\ n \in Nat /\ n \in 1..n /\ D = [k \in 1..n |-> D[k]] /\ D[n] = l
      /\ l = [j \in 1..MaxRows |-> l[j]]
  <2>1. n \in Nat /\ n \in 1..n /\ IsSequence(D) /\ l = Page(Last) /\ D[n] = l
    BY <1>1, LedgerFacts DEF Allotted!Last
  <2>2. D = [k \in 1..n |-> D[k]]
    BY <2>1, LastFacts
  <2>. QED  BY <2>1, <2>2 DEF Page
<1>3. D' = [D EXCEPT ![n] = d]
  BY <1>2 DEF Allotted!Note
<1>. HIDE DEF n, D, l, d
<1>4. D' = [k \in 1..n |-> IF k = n THEN d ELSE D[k]]
  BY <1>2, <1>3
<1>5. /\ DOMAIN D' = 1..n /\ D'[n] = d /\ \A k \in 1..n : k # n => D'[k] = D[k]
      /\ D' = [k \in 1..n |-> D'[k]]
  BY <1>2, <1>4
<1>6. d[i] = e /\ \A j : j # i => d[j] = l[j]
  <2>1. d[i] = e
    BY <1>2 DEF d
  <2>2. d = [j \in 1..MaxRows |-> IF j = i THEN e ELSE l[j]]
    BY <1>2 DEF d
  <2>3. DOMAIN d = DOMAIN l
    BY <1>2, <2>2
  <2>. QED  BY <2>1 DEF d
<1>7. Allotted!Last' = d
  <2>1. Len(D') = n
    BY <1>2, <1>5, IsSequenceFacts
  <2>. QED  BY <1>5, <2>1 DEF Allotted!Last, D
<1>8. ReportsStay
  <2>1. ASSUME NEW k \in 1..n, NEW j, NEW o, D[k][j] = Allotted!Attempt("reported", o)
        PROVE  D'[k][j] = D[k][j]
    <3>1. CASE k # n
      BY <1>5, <3>1
    <3>2. CASE k = n
      <4>1. l[j].stage = "reported"
        <5>1. Allotted!Attempt("reported", o).stage = "reported"
          BY DEF Allotted!Attempt
        <5>. QED  BY <1>2, <2>1, <3>2, <5>1
      <4>2. j # i
        BY <4>1 DEF l
      <4>. QED  BY <1>2, <1>5, <1>6, <3>2, <4>2
    <3>. QED  BY <3>1, <3>2
  <2>. QED  BY <1>2, <1>5, <2>1 DEF ReportsStay, D
<1>. QED  BY <1>2, <1>5, <1>6, <1>7, <1>8 DEF D, n, l

\* What backs a study goes on backing it.
LEMMA BackedStays ==
    ASSUME ReportsStay, NEW c, Allotted!Backed(c)
    PROVE  Allotted!Backed(c)'
<1>1. ASSUME NEW i \in DOMAIN c, c[i].outcome # NoResult
      PROVE  \E k \in DOMAIN Directories' :
                Directories'[k][i] = Allotted!Attempt("reported", c[i].outcome)
  <2>1. PICK k \in DOMAIN Directories :
            Directories[k][i] = Allotted!Attempt("reported", c[i].outcome)
    BY <1>1 DEF Allotted!Backed
  <2>. QED  BY <2>1 DEF ReportsStay
<1>. QED  BY <1>1 DEF Allotted!Backed

\* The fields of an attempt.
LEMMA AttemptFacts ==
    \A stage, outcome : /\ Allotted!Attempt(stage, outcome).stage = stage
                        /\ Allotted!Attempt(stage, outcome).outcome = outcome
BY DEF Allotted!Attempt

\* No step of an attempt writes over a report.
LEMMA Overwritten ==
    ASSUME NEW i,
           \/ Allotted!Announces(i) \/ Allotted!Breaks(i) \/ Allotted!Reports(i)
           \/ \E a \in Assessments : Allotted!Executes(i, a)
    PROVE  \E e : Allotted!Note(i, e) /\ Allotted!Last[i].stage # "reported"
<1>1. CASE Allotted!Announces(i)
  BY <1>1, AttemptFacts DEF Allotted!Announces, Allotted!NoAttempt
<1>2. CASE Allotted!Breaks(i)
  BY <1>2 DEF Allotted!Breaks
<1>3. CASE Allotted!Reports(i)
  BY <1>3 DEF Allotted!Reports
<1>4. CASE \E a \in Assessments : Allotted!Executes(i, a)
  BY <1>4 DEF Allotted!Executes
<1>. QED  BY <1>1, <1>2, <1>3, <1>4

\* The attempts of the batch in progress, when a step of it is written.
LEMMA CopyBacked ==
    ASSUME StudyInv, BackedInv, Allotted!Running, NEW i \in 1..MaxRows,
           NEW j \in DOMAIN InProgress, InProgress[j].outcome # NoResult,
           \/ Allotted!Announces(i) \/ Allotted!Reports(i)
           \/ i # j /\ \E a \in Assessments : Allotted!Executes(i, a)
    PROVE  \/ \E k \in DOMAIN Directories' :
                 Directories'[k][j] = Allotted!Attempt("reported", InProgress[j].outcome)
           \/ j \in 1..MaxRows
              /\ Allotted!Last'[j] = Allotted!Attempt("executed", InProgress[j].outcome)
<1>. DEFINE o == InProgress[j].outcome
            n == Len(Directories)
<1>1. PICK e : /\ Allotted!Note(i, e) /\ Allotted!Last[i].stage # "reported"
               /\ i = j /\ Allotted!Last[i].stage = "executed" =>
                    e = Allotted!Attempt("reported", Allotted!Last[i].outcome)
  <2>1. CASE Allotted!Announces(i)
    BY <2>1, AttemptFacts DEF Allotted!Announces, Allotted!NoAttempt
  <2>2. CASE Allotted!Reports(i)
    BY <2>2 DEF Allotted!Reports
  <2>3. CASE i # j /\ \E a \in Assessments : Allotted!Executes(i, a)
    BY <2>3 DEF Allotted!Executes
  <2>. QED  BY <2>1, <2>2, <2>3
<1>2. /\ ReportsStay /\ n \in DOMAIN Directories' /\ Directories'[n] = Allotted!Last'
      /\ Allotted!Last'[i] = e
      /\ \A m \in 1..MaxRows : m # i => Allotted!Last'[m] = Allotted!Last[m]
  BY <1>1, NoteFacts
<1>3. CASE \E k \in DOMAIN Directories : Directories[k][j] = Allotted!Attempt("reported", o)
  BY <1>2, <1>3 DEF ReportsStay
<1>4. CASE j \in 1..MaxRows /\ Allotted!Last[j] = Allotted!Attempt("executed", o)
  <2>1. CASE i # j
    BY <1>2, <1>4, <2>1
  <2>2. CASE i = j
    <3>1. Allotted!Last[i].stage = "executed" /\ Allotted!Last[i].outcome = o
      BY <1>4, <2>2 DEF Allotted!Attempt
    <3>2. Directories'[n][j] = Allotted!Attempt("reported", o)
      BY <1>1, <1>2, <2>2, <3>1
    <3>. QED  BY <1>2, <3>2
  <2>. QED  BY <2>1, <2>2
<1>. HIDE DEF n
<1>. QED  BY <1>3, <1>4 DEF BackedInv

\* Every step of the study keeps its outcomes backed.
LEMMA BackedStep ==
    ASSUME StudyInv, BackedInv, [Allotted!Next]_(Allotted!vars)
    PROVE  BackedInv'
<1>1. CASE Allotted!Replace
  <2>1. PICK c \in Accounts, a \in 1..Originals :
            Accounts' = Accounts \union {Append(c, Allotted!Allocation(a, NoResult))}
    BY <1>1 DEF Allotted!Replace
  <2>2. ~Allotted!Running' /\ Directories' = Directories
    BY <1>1 DEF Allotted!Replace, Allotted!Running
  <2>3. PICK e, d : e = Allotted!Allocation(a, NoResult) /\ d = Append(c, e)
    OBVIOUS
  <2>4. IsSequence(c)
    <3>1. PICK m \in manifests : c = Account(m)
      BY DEF Accounts
    <3>2. IsCohort(m)
      BY DEF StudyInv, CInv, Sound
    <3>. QED  BY <3>1, <3>2, AccountFacts
  <2>5. /\ DOMAIN d = 1..(Len(c) + 1) /\ d[Len(c) + 1] = e
        /\ \A i \in 1..Len(c) : d[i] = c[i]
        /\ Len(c) \in Nat /\ DOMAIN c = 1..Len(c)
    BY <2>3, <2>4, Appending, LastFacts
  <2>6. \A i \in DOMAIN d : i \in DOMAIN c \/ i = Len(c) + 1
    BY <2>5
  <2>7. e.outcome = NoResult
    BY <2>3 DEF Allotted!Allocation
  <2>8. Allotted!Backed(c) /\ \A s \in Accounts : Allotted!Backed(s)
    BY DEF BackedInv
  <2>9. Allotted!Backed(d)
    BY <2>5, <2>6, <2>7, <2>8 DEF Allotted!Backed
  <2>10. \A s : Allotted!Backed(s) => Allotted!Backed(s)'
    BY <2>2 DEF Allotted!Backed
  <2>11. \A s \in Accounts' : Allotted!Backed(s)'
    BY <2>1, <2>3, <2>8, <2>9, <2>10
  <2>. QED  BY <2>2, <2>11 DEF BackedInv
<1>2. CASE Allotted!Open
  <2>1. /\ InProgress' \in Accounts /\ Accounts' = Accounts
        /\ Directories' = Append(Directories, [i \in 1..MaxRows |-> Allotted!NoAttempt])
    BY <1>2 DEF Allotted!Open
  <2>2. ReportsStay
    <3>1. IsSequence(Directories)
      BY LedgerFacts DEF StudyInv
    <3>2. PICK e : e = [i \in 1..MaxRows |-> Allotted!NoAttempt]
      OBVIOUS
    <3>3. /\ DOMAIN Directories = 1..Len(Directories) /\ Len(Directories) \in Nat
          /\ DOMAIN Directories' = 1..(Len(Directories) + 1)
          /\ \A k \in 1..Len(Directories) : Directories'[k] = Directories[k]
      BY <2>1, <3>1, <3>2, Appending, LastFacts
    <3>. QED  BY <3>3 DEF ReportsStay
  <2>3. \A s \in Accounts' : Allotted!Backed(s)'
    BY <2>1, <2>2, BackedStays DEF BackedInv
  <2>4. Allotted!Backed(InProgress)'
    <3>1. PICK s : s = InProgress'
      OBVIOUS
    <3>2. Allotted!Backed(s)'
      BY <2>1, <2>3, <3>1
    <3>. QED  BY <3>1, <3>2 DEF Allotted!Backed
  <2>. QED  BY <2>3, <2>4 DEF BackedInv, Allotted!Backed
<1>3. CASE Allotted!Proceed
  <2>1. PICK i \in 1..MaxRows :
            \/ (Allotted!Announces(i) \/ Allotted!Reports(i)) /\ InProgress' = InProgress
            \/ \E a \in Assessments :
                  /\ Allotted!Executes(i, a)
                  /\ InProgress' = [InProgress EXCEPT ![i] = Allotted!Allocation(@.arm, a)]
    BY <1>3 DEF Allotted!Proceed
  <2>2. Accounts' = Accounts /\ Allotted!Running
    BY <1>3 DEF Allotted!Proceed
  <2>3. PICK e : Allotted!Note(i, e) /\ Allotted!Last[i].stage # "reported"
    BY <2>1, Overwritten
  <2>4. ReportsStay
    BY <2>2, <2>3, NoteFacts
  <2>5. \A s \in Accounts' : Allotted!Backed(s)'
    BY <2>2, <2>4, BackedStays DEF BackedInv
  <2>6. ASSUME NEW j \in DOMAIN InProgress', InProgress'[j].outcome # NoResult
        PROVE  \/ \E k \in DOMAIN Directories' :
                     Directories'[k][j] = Allotted!Attempt("reported", InProgress'[j].outcome)
               \/ j \in 1..MaxRows
                  /\ Allotted!Last'[j] = Allotted!Attempt("executed", InProgress'[j].outcome)
    <3>1. CASE (Allotted!Announces(i) \/ Allotted!Reports(i)) /\ InProgress' = InProgress
      BY <2>2, <2>6, <3>1, CopyBacked
    <3>2. ASSUME NEW a \in Assessments, Allotted!Executes(i, a),
                 InProgress' = [InProgress EXCEPT ![i] = Allotted!Allocation(@.arm, a)]
          PROVE  \/ \E k \in DOMAIN Directories' :
                       Directories'[k][j] = Allotted!Attempt("reported", InProgress'[j].outcome)
                 \/ j \in 1..MaxRows
                    /\ Allotted!Last'[j] = Allotted!Attempt("executed", InProgress'[j].outcome)
      <4>1. j \in DOMAIN InProgress
        BY <2>6, <3>2
      <4>2. CASE j # i
        <5>1. InProgress'[j] = InProgress[j]
          BY <3>2, <4>1, <4>2
        <5>. QED  BY <2>2, <2>6, <3>2, <4>1, <4>2, <5>1, CopyBacked
      <4>3. CASE j = i
        <5>1. InProgress'[j].outcome = a
          BY <3>2, <4>1, <4>3 DEF Allotted!Allocation
        <5>2. /\ Allotted!Note(i, Allotted!Attempt("executed", a))
              /\ Allotted!Last[i].stage # "reported"
          BY <3>2 DEF Allotted!Executes
        <5>3. Allotted!Last'[i] = Allotted!Attempt("executed", a)
          BY <2>2, <5>2, NoteFacts
        <5>. QED  BY <4>3, <5>1, <5>3
      <4>. QED  BY <4>2, <4>3
    <3>. QED  BY <2>1, <3>1, <3>2
  <2>. QED  BY <2>5, <2>6 DEF BackedInv
<1>4. CASE Allotted!Return
  <2>1. /\ Allotted!Running /\ Allotted!Settled /\ Accounts' = Accounts \union {InProgress}
        /\ ~Allotted!Running' /\ Directories' = Directories
    BY <1>4 DEF Allotted!Return, Allotted!Running
  <2>2. \A i \in 1..MaxRows : \A o : Allotted!Last[i] # Allotted!Attempt("executed", o)
    BY <2>1 DEF Allotted!Settled, Allotted!Attempt
  <2>3. Allotted!Backed(InProgress)
    BY <2>1, <2>2 DEF BackedInv, Allotted!Backed
  <2>4. \A s : Allotted!Backed(s) => Allotted!Backed(s)'
    BY <2>1 DEF Allotted!Backed
  <2>5. \A s \in Accounts' : Allotted!Backed(s)'
    BY <2>1, <2>3, <2>4 DEF BackedInv
  <2>. QED  BY <2>1, <2>5 DEF BackedInv
<1>5. CASE Allotted!Abandon
  <2>1. Allotted!Running /\ ~Allotted!Running' /\ Accounts' = Accounts
    BY <1>5 DEF Allotted!Abandon, Allotted!Running
  <2>2. ReportsStay
    <3>1. CASE Directories' = Directories
      BY <3>1 DEF ReportsStay
    <3>2. ASSUME NEW i \in 1..MaxRows,
                 \/ Allotted!Announces(i) \/ Allotted!Breaks(i) \/ Allotted!Reports(i)
                 \/ \E a \in Assessments : Allotted!Executes(i, a)
          PROVE  ReportsStay
      <4>1. PICK e : Allotted!Note(i, e) /\ Allotted!Last[i].stage # "reported"
        BY <3>2, Overwritten
      <4>. QED  BY <2>1, <4>1, NoteFacts
    <3>. QED  BY <1>5, <3>1, <3>2 DEF Allotted!Abandon
  <2>3. \A s \in Accounts' : Allotted!Backed(s)'
    BY <2>1, <2>2, BackedStays DEF BackedInv
  <2>. QED  BY <2>1, <2>3 DEF BackedInv
<1>6. CASE UNCHANGED Allotted!vars
  BY <1>6 DEF Allotted!vars, BackedInv, Allotted!Backed, Allotted!Running, Allotted!Last
<1>. QED  BY <1>1, <1>2, <1>3, <1>4, <1>5, <1>6 DEF Allotted!Next

\* Of the attempts of an arm all but one are failures.
LEMMA ArmsCount == ASSUME StudyInv, NEW c \in Accounts  PROVE Allotted!CountsOnce(c)
<1>1. PICK m \in manifests : c = Account(m)
  BY DEF Accounts
<1>2. IsCohort(m) /\ Chained(m)
  BY DEF StudyInv, CInv, Sound, ChainInv
<1>3. DOMAIN c = DOMAIN m /\ \A i \in DOMAIN m : c[i].arm = m[i].arm /\ c[i].outcome = m[i].result
  BY <1>1 DEF Account
<1>4. \A i \in DOMAIN m : IsReplaced(m, i) => m[i].result \in Failures
  BY <1>2 DEF IsCohort, RowOK, Chained, Replaceable, Failures
<1>5. ASSUME NEW i \in DOMAIN m, NEW j \in DOMAIN m, i # j, m[i].arm = m[j].arm
      PROVE  m[i].result \in Failures \/ m[j].result \in Failures
  BY <1>2, <1>4, <1>5 DEF Chained
<1>. QED  BY <1>3, <1>5 DEF Allotted!CountsOnce, Failures

\* In every manifest of every history an arm has at most one attempt that is not a
\* verified failure of the infrastructure, and every outcome is the one that some
\* directory reports of that allocation, however the batches were cut off.
THEOREM StudiesAreSound == Spec => []Allotted!StudiesAreSound
<1>1. Init => BackedInv
  <2>. SUFFICES ASSUME Init  PROVE BackedInv
    OBVIOUS
  <2>1. Accounts = {Account(Allocations)} /\ ~Allotted!Running
    BY DEF Init, Accounts, Allotted!Running, InProgress
  <2>2. \A i \in DOMAIN Account(Allocations) : Account(Allocations)[i].outcome = NoResult
    BY DEF Account, Allocations, Planned
  <2>. QED  BY <2>1, <2>2 DEF BackedInv, Allotted!Backed
<1>2. StudyInv /\ BackedInv /\ [Next]_vars => BackedInv'
  BY StepIsStudied, BackedStep
<1>3. StudyInv /\ BackedInv => Allotted!StudiesAreSound
  BY ArmsCount DEF BackedInv, Allotted!StudiesAreSound
<1>. QED  BY <1>1, <1>2, <1>3, StudyInvariance, PTL DEF Spec
=============================================================================
