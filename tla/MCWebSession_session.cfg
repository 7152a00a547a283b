\* Two browsers, one of them with two tabs.
SPECIFICATION LiveSpec
CONSTANTS
  b1 = b1
  b2 = b2
  Browsers = {b1, b2}
  t1 = t1
  t2 = t2
  t3 = t3
  Tabs = {t1, t2, t3}
  TabsOf <- TwoTabs
  Accounts = {"admin", "user"}
  Admins = {"admin"}
  Sids = {s1, s2}
  NoSid = NoSid
  Timeout = 1
INVARIANTS
  OneHolder
PROPERTIES
  NotTakenOver
  RenewedByHolder
  OrphanEnds
