CONSTANTS
  Credentials = {"home", "proxy"}
  EnforceQop = FALSE
  RejectMd5 = FALSE
  Margin = 3
  Expiry = 8
  Guards <- MCGuards
  Proxies = {"proxy"}
  MinExpires = 9
  Grants = {6, 7}
  ByHeader = TRUE
  EchoesZero = FALSE
  MaxLate = 1
  MaxRegisters = 3
  MaxStale = 2
SPECIFICATION Spec
INVARIANTS CredentialsVerify BindingKept ExchangeEnds
CHECK_DEADLOCK FALSE
