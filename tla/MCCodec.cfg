SPECIFICATION CodecSpec
CONSTANTS
    Base = 8
    Null = Null
    Bom <- MCBom
    Hint = 2
    Inputs <- MCInputs
    MaxFields = 2
    Spoils = {0, 3, 7}
    Minute = 4
    Day = 3
    Kilo = 10
    Guess = 1000
    MaxInt = 40000
    MaxCells = 2
    Instants <- MCInstants
    Others <- MCOthers
    Configs <- MCConfigs
    DeclTypes <- MCDecl
    Names = {"?", "a", "b", "c"}
    Anonymous = "?"
    Scripts <- MCScripts
    ArgLists <- MCArgLists
INVARIANTS
    TypeOK
    WrittenAlike
    ReadBack
    DamageSeenAlike
    ValuesReadBack
    TimesSort
    ScriptBinds
CHECK_DEADLOCK FALSE
