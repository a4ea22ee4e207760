CONSTANTS
  Clients = {c1, c2}
  Rows <- MCRows
  Cells0 <- MCCells
  Columns <- MCColumns
  SingleRow <- MCSingleRow
  Browsed <- MCBrowsed
  Inputs <- MCInputs
  Passwords = {"1234", "new"}
  StrangeDrive = TRUE
SPECIFICATION Spec
INVARIANTS RowsComplete PasswordsFollow
PROPERTY GetReadsCell
SYMMETRY Symmetric
