SPECIFICATION SettlesSpec
CONSTANTS
  Thread = {"t1", "t2"}
  NoThread = "nobody"
  Kinds = {"qr", "blink"}
  MaxJobs = 2
  MaxFaults = 1
  MaxResets = 0
PROPERTIES ServiceSpec ServerSettles PagesSettle
