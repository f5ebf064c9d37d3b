\* Four clients: the smallest list with a first, a last and two inner clients.
CONSTANTS
  Client = {c1, c2, c3, c4}
  NULL = NULL
  MaxClients = 4
SPECIFICATION Spec
INVARIANTS TypeOK Represents ReadsAreLive NothingLeaked
PROPERTY ImplementsRounds
\* The server stops after deleteServer().
CHECK_DEADLOCK FALSE
