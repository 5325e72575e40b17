SPECIFICATION NotifySpec
CONSTANTS
  EventNames = {order_placed}
  Handlers = {whatsapp}
  Stuck = {}
  Workers = {w1}
  Publishers = {p1}
  QueueSize = 2
  MaxPublished = 1
INVARIANT OnlyWhatsAppLosesMessages
