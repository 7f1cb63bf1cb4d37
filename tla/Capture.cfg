CONSTANTS
  Exchanges = 3
  Faults = 4
SPECIFICATION Spec
INVARIANTS NeverAcrossSessions MixedOnlyIfUnheard ReadersAgree TraceWholeOrAbsent
