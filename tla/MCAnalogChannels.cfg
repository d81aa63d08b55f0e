SPECIFICATION Spec
CONSTANTS
  NumChnls = 2
  Volt <- MCVolt
  Tc <- MCTc
  Off = "OFF"
  Low <- MCLow
  High <- MCHigh
  FullScale = 4
  Value <- MCValue
  Celsius <- MCCelsius
  Unknown = Unknown
INVARIANTS
  TypeOK
  ReadingTrue
  OutputTrue
  FakeReadsBack
