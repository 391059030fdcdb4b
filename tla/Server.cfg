SPECIFICATION MCServerSpec
CONSTANTS
  t0 = t0  t1 = t1  t2 = t2
  Nothing = Nothing
  Garbled = Garbled
  DayLen = 6
  Horizon = 12
  Zone <- Zones
  Offset <- ZoneOffset
  Rest = {0, 1}
  MaxAge = 4
  Asked = {0, 1, 2, 3, 4, 5}
  UsbThread <- UsbThreads  UsbNobody = t0  JobKinds <- SomeKinds
  MaxJobs = 2  MaxFaults = 2  MaxResets = 1
  Users <- SomeUsers  NoName = ""  NoPw = ""
  Logins <- SomeLogins  Wrong = 0
  Hours = 3  Minutes = 3  Poll = 2  Configs <- SomeConfigs
  MaxBack = 2  MaxForward = 2  MaxSlow = 2
  Number <- Numbers  Line <- Lines  Late = TRUE  MaxOps = 1
  FontThread <- FontThreads  Script = {"cjk", "rtl", "braille"}  Base = "mono"
  Candidates <- SomeFonts  Installed = {"bidi"}  Usable = {"cjk2", "cjk3", "rtl2"}  MaxRuns = 5
SYMMETRY Symmetry
INVARIANTS TypeOK FirstOpening OpensInTime AnswersJustified AccessEarned 
INVARIANTS BriefingKept  FontsAgree
