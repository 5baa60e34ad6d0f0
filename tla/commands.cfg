SPECIFICATION Spec
CONSTANTS
  Names <- MCNames
  Texts <- MCTexts
  Units = {u1, u2}
  MaxCommands = 3
  MaxRc = 10
  Tokens <- MCTokens
  MaxArgs = 4
  ServerConfs <- MCServerConfs
  Protocols <- MCProtocols
  Bases <- MCBases
  Forwards <- MCForwards
INVARIANT MeaningKept NothingLeftOpen VerdictHonest ForwardHonest NoServiceWithoutUnit UninstallThorough
PROPERTY UserTextKept
CHECK_DEADLOCK FALSE
