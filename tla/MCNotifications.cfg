SPECIFICATION NotifySpec
CONSTANTS
  EventNames = {order_placed, order_cancelled}
  Handlers = {whatsapp, slow}
  Stuck = {slow}
  Workers = {w1, w2}
  Publishers = {p1, p2}
  QueueSize = 1
  MaxPublished = 2
INVARIANT EachHandlerOnce
PROPERTIES PublishNeverBlocks QueuedJobsStart
