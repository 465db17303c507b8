\* What the gate decides at staging, and what reaches a contact later.
SPECIFICATION Spec
CONSTANTS
  a = a
  b = b
  Contacts = {a, b}
  Day = 3
  MaxOptOutWords = 4
  Configs <- MCConfigs
  FirstConfig <- MCFirstConfig
  Rows <- MCRows
  MaxActs = 3
  MaxEdits = 1
SYMMETRY Symmetry
INVARIANTS NightStagingSendsNothing QuietHoursExact ConsentOnRecord
PROPERTY SendsHadConsent
