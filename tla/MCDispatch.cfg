\* A plain and a striped connection, or two striped ones; two permits, two
\* sessions over two edges, room for one flow per session.
CONSTANTS
  Conns = {c1, c2}
  Kinds = {{c2}, {c1, c2}}
  Sessions = {1, 2}
  CDN <- TwoEdges
  NoSession = NoSession
  Legs = 2
  MuxCon = 1
  QueueSize = 1
  Permits = 2
  MaxTries = 1
SPECIFICATION FairSpec
INVARIANTS BooksBalance HandedOffOrClosed
PROPERTY SetupEnds
CHECK_DEADLOCK FALSE
