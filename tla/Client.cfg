\* Two threads, two files, a callback with two data (for the list the same as two
\* callbacks with one), every failure of connect.
CONSTANTS
  main = main
  t2 = t2
  contact = contact
  group = group
  f = f
  NoWatch = NoWatch
  Threads = {main, t2}
  Main = main
  Paths = {contact, group}
  Callbacks = {f}
  Datas = {1, 2}
  Orders = {"firstlast", "lastfirst"}
  DefaultOrder = "firstlast"
  Calls <- MCCalls
  MaxChanges = 2
  Faults = {"socket", "db", "view", "inotify", "vconf"}
SPECIFICATION FairSpec
INVARIANTS TypeOK ConnectionWhole SubscribedIsWatched
PROPERTIES MissedOnlyInCalls AllSubscribersCalled MainLoopServes
CHECK_DEADLOCK FALSE
