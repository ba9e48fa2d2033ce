SPECIFICATION MCSpec
CONSTANTS
  Calls = {c1}
  Limits = {0, 2, 3}
  DelaySeconds = 1
  RequestSeconds = 4
INVARIANTS TypeOK EndsInTime ResultOfOneAttempt RaisesWhatItMet
PROPERTIES EveryCallEnds
