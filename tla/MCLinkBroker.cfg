\* Two requests at once, four edits, one crash or failed read or write of a store.
SPECIFICATION Spec
CONSTANTS
  Topics = {t1}
  Actions = {peek, wipe}
  Destructive = {wipe}
  Info = Info
  w1 = w1
  w2 = w2
  Workers = {w1, w2}
  Counts = {0, 1}
  MaxRequests = 2
  MaxEdits = 4
  MaxFaults = 1
SYMMETRY Goroutines
INVARIANTS TypeOK DeliveredOnce PolicyBudget ApprovalOnRecord NoStaleAuthority ApprovesWhatWasShown
CHECK_DEADLOCK FALSE
