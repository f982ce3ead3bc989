SPECIFICATION Spec
CONSTANTS
  Requests = {1, 2}
  Prompt <- MCPrompt
  Family <- MCFamily
  Options <- MCOptions
  Pages = {1, 2, 3}
  Chunk = 2
  Layouts = {"full", "recurrent"}
  MaxPendingRestores = 1
  MaxPendingStores = 1
  MaxDecode = 2
  MaxPreemptions = 1
INVARIANTS
  StoresRight
  StoresAtBoundary
  ComputedRight
  LoadsAdmitted
  BudgetReturns
