SPECIFICATION LanSpec
CONSTANTS
  MaxGames = 2
  Slots = {1, 2}
  InfoTicks = 2
  NewTicks = 2
  MaxNet = 2
PROPERTIES ChangesTold HostedAreListed GoneAreUnlisted
