SPECIFICATION MCSpec
CONSTANTS
    Desks = {"gate", "governed", "host", "bars", "calendar", "decision", "account"}
    GateTimes = {0, 1, 2}
    Symbols = {SPY, QQQ}
    NoSymbol = NoSymbol
    NoTime = NoTime
    NoEnvelope = NoEnvelope
    QuoteAge = 0
    ProbeAge = 1
    Contemporary = 1
    ClockSlack = 1
    TradeAge = 1
    P0Checks = {p1}
    SessionTimes = {1, 2}
    Files = {arm, halt}
    ArmMarker = arm
    HaltMarker = halt
    Contents = {x}
    Absent = Absent
    NoBaseline = NoBaseline
    MaxChanges = 3
    MaxTickCrashes = 1
    DaySlots = {s1, s2}
    MaxBroken = 2
    BarInterval = 2
    MaxLag = 3
    NoStamp = NoStamp
    Years = {1900, 1925, 1954, 1981, 2000, 2008, 2016, 2018, 2019, 2022, 2023, 2024, 2025, 2026, 2027, 2028, 2029, 2030, 2031, 2032, 2033, 2038, 2040, 2045, 2060, 2076, 2100, 2285}
    MaxBars = 3
    BarTimesUsed = {0, 1, 2, 3, 4, 5, 6}
    Unknown = Unknown
    Null = Null
    Configs <- MCConfigs
    History = {0, 4}
    MaxTrades = 6
    Inputs <- MCInputs
    References = {"SPY", "QQQ"}
    Policy <- MCPolicy
CHECK_DEADLOCK FALSE
INVARIANTS
    GoIsEarned
    LossIsBounded
    EntryIsEarned
    ReadyMeansSlotsCanRun
    BarsPassAreAGrid
    CalendarFollowsRules
PROPERTIES
    StandingChangeOnRecord
