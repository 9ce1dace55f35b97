CONSTANTS
  Words = 2
  MaxSeq = 3
  MaxAssigns = 3
SPECIFICATION MailboxSpec
INVARIANTS ServedAsCommitted ServesLoaded
CHECK_DEADLOCK FALSE
