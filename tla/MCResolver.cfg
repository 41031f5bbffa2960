\* Rows that arrive while the command runs, with up to three failures.
\* The command ends, and need not be run again.
CHECK_DEADLOCK FALSE
SPECIFICATION Spec
CONSTANTS
  NumRows = 4
  IPsOf <- MCIPsOf
  Unparsable = {2}
  BatchSize = 2
  MaxFailures = 3
INVARIANT AnswersAreWhole
PROPERTY RowsGetResolved
