SPECIFICATION Spec
CONSTANTS
  None = None
  Letters = {"a", "b"}
  Joiners = {"nbsp"}
  Users <- FourUsers
  Nick <- Nicks
  Me = "U1"
  Workspace = {"U1", "U2", "U3"}
  Channels <- ThreeChannels
  Listed <- ListedChannels
  NickMaps <- MapsOfNicks
  NameMaps <- MapsOfNames
  Members <- MemberLists
  Topic <- Topics
  SetBy <- Setters
  NamesLimit = 4
  Motd <- MotdLines
  ClientLines <- Lines
  SlackEvents <- Events
INVARIANT OwnWordsMarked
CHECK_DEADLOCK FALSE
