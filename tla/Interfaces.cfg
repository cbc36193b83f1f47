SPECIFICATION MCSpec
CONSTANTS
  PresenceScenes <- MCPresenceScenes
  OlpcScenes <- MCOlpcScenes
  Activities = {"r1", "r2"}
  Buddies = {"c1", "c2"}
  SearchScenes <- MCSearchScenes
  Searches = {s1, s2}
  ImScenes <- MCImScenes
  Friends = {"a"}
  MaxHeard = 2
  MaxSent = 2
  AliasScenes <- MCAliasScenes
  Pals = {"me", "pal"}
  Calls = {"q1"}
  AvatarScenes <- MCAvatarScenes
  AvatarCalls = {"k1", "k2"}
  InfoScenes <- MCInfoScenes
  InfoCalls = {"k1", "k2"}
  MaxRefresh = 2
  MetaScenes <- MCMetaScenes
  Peers = {"a", "self"}
  MetaCalls = {"k1", "k2"}
  Handlers = {"h1"}
  MaxPorters = 2
  MailScenes <- MCMailScenes
  Threads = {"t1", "t2"}
  UrlCalls = {"u1"}
  MaxPolls = 2
  LocationScenes <- MCLocationScenes
  Places = {"me", "pal"}
  LocationCalls = {"l1", "l2"}
INVARIANTS
  OwnPresenceSound
  ActivitiesSound
  SearchesSound
  ImSound
  ContactsSound
  ServicesSound
CHECK_DEADLOCK FALSE
