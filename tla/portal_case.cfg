SPECIFICATION ViewsSpec
INVARIANTS ClientCaseOpens
