CONSTANTS
  t1 = t1
  t2 = t2
  i1 = i1
  i2 = i2
  s1 = s1
  s2 = s2
  s3 = s3
  NoClient = NoClient
  NoSession = NoSession
  Threads = {t1, t2}
  Clients = {i1, i2}
  Sessions = {s1, s2}
  Ops = {"get_session", "subscribe", "unsubscribe", "is_subscribed", "orders", "certain"}
SPECIFICATION Spec
SYMMETRY Symmetry
INVARIANTS ReverseSound SessionFindable BroadcastSafe
PROPERTIES AtomicSpec
\* A process whose broadcast dereferences a null session is over.
CHECK_DEADLOCK FALSE
