\* All pairs of programs of up to four statements and uexit.
SPECIFICATION FairSpec
CONSTANTS
  MaxLength = 4
  Programs <- MCPrograms
  Words = 26
\* The program ends.
CHECK_DEADLOCK FALSE
PROPERTIES ImplementsCoroutines MainFinishes
