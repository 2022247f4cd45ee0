\* Two processes, a wallet that is created, migrated and rebuilt, one torn write.
SPECIFICATION Spec
CONSTANTS
  Processes = {daemon, cli}
  Mnemonics = {m1, m2}
  Passwords = {pw1, pw2}
  NoPassword = NoPassword
  CommKeys = {k1, k2}
  NoKey = NoKey
  MaxIndex = 2
  MaxCrashes = 1
  MaxRebuilds = 1
PROPERTIES LostOnlyFromBackup  AddressesAreKept
CHECK_DEADLOCK FALSE
SYMMETRY MCSymmetry
