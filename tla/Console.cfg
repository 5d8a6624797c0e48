SPECIFICATION Spec
CONSTANTS Readers = {r1}
  Writers = {w1, w2}
  Nobody = nobody
  Letters = {x}
  NL = nl
  EOF = eof
  BS = bs
  KILL = kill
  INPUT_BUF_SIZE = 2
  UINT = 4
  ReadSizes = {2}
  WriteSizes = {2}
  ERASE = 1
  Start = 3
  RxSize = 1
  MaxTyped = 3
 
PROPERTIES ImplementsTty SenderWoken
CHECK_DEADLOCK FALSE
