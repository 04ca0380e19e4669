SPECIFICATION MCSpec
CONSTANTS
    Off = Off
    p0 = p0
    p1 = p1
    p2 = p2
    p3 = p3
    p4 = p4
    s1 = s1
    sd = sd
    NoMap = NoMap
    Threads = {1, 2}
    Maps <- LibMaps
    Files <- MCFiles
    ExpectedArch = "arm64"
    CachingEnabled = FALSE
    Calls = {"GetElf", "GetFunctionName", "GetBuildID"}
    MaxCalls = 2
INVARIANTS ReturnsElf RelPcRight MapsHaveRightElf FramesRight ViewsShow
    HeadersRight StepRight ListsFirstEntryFound NamesFound
PROPERTIES SetOnce BuildIdSavedOnce AnswersStay AllReturn CallsEnd
