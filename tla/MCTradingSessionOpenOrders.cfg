SPECIFICATION Spec
CONSTANTS
  Ids = {o1, o2}
  Symbols = {s1}
  Cash = cash
  Prices = {2, 3}
  Qtys = {1, 3}
  MaxEvents = 3
  MaxLag = 2
INVARIANT OpenOrdersAreCurrent
