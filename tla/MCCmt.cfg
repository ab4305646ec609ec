SPECIFICATION MCSpec
CONSTANTS
  Tapes = {a, b}
  Length <- MCLength
  BitTicks = 1
  WordTicks = 2
  Chunk = 2
  Half = 10
  Steps <- MCSteps
  MaxGap = 1
  LongTape = 3
  NoFile = nofile
  MaxChoices = 2
INVARIANTS TypeOK WindowFollowsTape ProgressBehindTape SpeedFollowsDeck
PROPERTIES DeckSpec TapeStops
