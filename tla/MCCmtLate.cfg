SPECIFICATION MCSpec
CONSTANTS
  Tapes = {a, b}
  Length <- MCLength
  BitTicks = 1
  WordTicks = 2
  Chunk = 2
  Half = 16
  Steps <- MCSteps
  MaxGap = 2
  LongTape = 3
  NoFile = nofile
  MaxChoices = 2
INVARIANT HeardIsOnTape
