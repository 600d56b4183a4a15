\* Three batches with replacements in between, each cut off anywhere.
SPECIFICATION Spec
CONSTANTS
    Originals = 2
    MaxRows = 4
    MaxBatches = 3
    Assessments <- MCFailing
INVARIANTS
    ManifestsStayValid
    EvidenceTells
    OrderlyIsVerified
PROPERTIES
    ImplementsStudy
\* The researcher runs a bounded number of batches.
CHECK_DEADLOCK FALSE
