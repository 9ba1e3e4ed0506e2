SPECIFICATION Spec
CONSTANTS
    HookNames <- MCHookNames
    Special = {"LocalSystem"}
    ExitCodes = {"5"}
    EntryOf <- MCEntryOf
    RefOf <- MCRefOf
    Inherited <- MCInherited
    DirectoryOf <- MCDirectoryOf
    Directories = {"dir"}
    Masks = {"0"}
    NumberOf <- MCNumberOf
    Service = "svc"
    Executable = "ansm.exe"
    TrimOf <- MCTrimOf
    BadNames = {"", "a/b"}
    Runs = {"p", "q"}
    Scenarios <- MCEditor
    MaxTyped = 4
    MaxDialogs = 2
    MaxFaults = 1
INVARIANT
    EditWritesChangedValuesOnly
CHECK_DEADLOCK FALSE
