SPECIFICATION Spec
CONSTANTS
  f1 = f1
  f2 = f2
  w1 = w1
  w2 = w2
  m1 = m1
  m2 = m2
  m3 = m3
  NoFile = NoFile
  Files = {f1, f2}
  Mails = {m1, m2, m3}
  Flaky = {f2}
  Workers = {w1}
  Content <- OneVersion
  MaxVersion = 1
  Faults = {"raise"}
  MaxRuns = 1
  MaxDeaths = 0
PROPERTIES WriteFailureIsLogged
CHECK_DEADLOCK FALSE
