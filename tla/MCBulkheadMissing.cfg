SPECIFICATION Spec
CONSTANTS
  chromedp = chromedp
  fetch = fetch
  AllKinds <- MCKinds
  NumWorkers <- MCWorkers
  Cap <- MCCap
  Tasks = {1, 2, 3, 4, 5}
  KindOf <- MCKindOf
  Hangs = {1, 2}
INVARIANTS
  NothingRunsOnFailure
CHECK_DEADLOCK FALSE
