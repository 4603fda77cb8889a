\* Changes that stop twice, are resumed and retired, beside an edit of a person.
CONSTANTS
  N = 1
  Unowned <- FirstUnowned
  Templates = 2
  MaxInodes = 3
  MaxEdits = 1
  MaxFaults = 2
SPECIFICATION FairSpec
INVARIANTS TypeOK OneRevision Resumable HistoryIsExact KnownStands
PROPERTIES PersonalBytes NeverOlder ChangesAreAtomic ResumeCompletes
CHECK_DEADLOCK FALSE
