\* Users move, permissions and secrets change, the secrets server fails, the
\* agent, the reply or the process fails, and deliveries repeat.
SPECIFICATION FairSpec
CONSTANTS
  u1 = u1  a = a  b = b  t1 = t1  m1 = m1  m2 = m2  m3 = m3
  v1 = v1  v2 = v2  None = None
  Users = {u1}
  Workspaces = {a, b}
  Threads = {t1}
  Messages = {m1, m2, m3}
  Signed = {m1, m2}
  Readable = {m1, m2, m3}
  Identified = {m1}
  Sender <- SenderOf
  Thread <- OneThread
  SpecRounds <- Specs
  DefaultRounds = 2
  Vars = {v1, v2}
  Globals = {v1}
  OfWorkspace = {}
  OfUser = {v2}
  Troubles = {"timeout"}
  Faults = {"agent", "send", "crash"}
  MaxFaults = 1
  MaxChanges = 2
  MaxRedeliveries = 1
INVARIANTS TurnsAdmitted SecretsWhole TurnsBounded NothingUnheard
PROPERTIES MessagesSettle
