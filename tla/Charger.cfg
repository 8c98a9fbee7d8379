CONSTANT
  Top = 3
SPECIFICATION ChargerSpec
INVARIANTS
  EmptyIsDark
  NoMainsNoPwm
PROPERTY
  LoadNeedsMains
