\* Two tasks that share activities, leases and approvals; three published
\* revisions over two bases; two runners and two leases.
CONSTANTS
  Task = {t1, t2}
  Runner = {r1, r2}
  Artifact = {x1, x2, x3}
  Activity = {a1, a2}
  Lease = {l1, l2}
  Approval = {p1}
  BaseSha = {b1, b2}
  HeadSha = {h1}
  Digest = {d1}
  Token = {1, 2}
  Time = {0, 1}
  None = None
SPECIFICATION Spec
SYMMETRY Identities
CHECK_DEADLOCK FALSE
INVARIANTS StoredStateValid
PROPERTIES NothingRevives ImplementsMergeGate
