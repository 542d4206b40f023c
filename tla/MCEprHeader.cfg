SPECIFICATION Spec
CONSTANTS
  Chars <- MCChars
  Headers <- MCHeaders
  Members <- MCMembers
  Misread = Misread
  Capacity = 2
INVARIANTS TypeOK OwnValues MalformedReported CrashCauses
PROPERTY Forward
