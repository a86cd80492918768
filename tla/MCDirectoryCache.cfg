SPECIFICATION CacheSpec
CONSTANTS
    Names = {"a", "b"}
    Fold <- Differ
    CaseSensitive = FALSE
    Conns = {"c1"}
    Trees <- AllTrees
    Ops = {"list", "dele", "rmd", "mkd", "rename", "stor", "chmod", "raw"}
    Abandon = {"dele", "stor"}
    MkdFullPath = FALSE
    MaxLru = 2
    Limits <- TwoLimits
    MaxCommands = 5
INVARIANTS BooksAgree SureIsTrue AbsentIsAbsent
CHECK_DEADLOCK FALSE
