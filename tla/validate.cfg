SPECIFICATION CheckSpec
CONSTANTS
  Size = 3
  MaxLine = 10
  Letters <- MCLetters
  Names <- MCNames
  Words <- MCWords
  Passwords <- MCPasswords
INVARIANT VerdictRight
CHECK_DEADLOCK FALSE
