\* A client that asks up to four times, rightly or wrongly.
SPECIFICATION Spec
CONSTANTS
  Width = 16
  MaxAuth = 4
  Names <- MCNames
  Passwords <- MCPasswords
  ExpectedUsername <- MCUsername
  ExpectedPassword <- MCPassword
INVARIANTS
  TypeOK
  PatientIsAdmitted
PROPERTIES
  RetryIsAdmitted
\* The login is over: nothing is left to do.
CHECK_DEADLOCK FALSE
