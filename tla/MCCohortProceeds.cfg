\* One batch of two trials, of which the audit may say anything.
SPECIFICATION Spec
CONSTANTS
    Originals = 2
    MaxRows = 2
    MaxBatches = 1
    Assessments <- MCAll
INVARIANTS
    BatchProceeds
\* The researcher runs a bounded number of batches.
CHECK_DEADLOCK FALSE
