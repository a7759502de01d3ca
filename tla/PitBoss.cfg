SPECIFICATION PBSpec
CONSTANTS
    c1 = c1
    c2 = c2
    c3 = c3
    c4 = c4
    t1 = t1
    t2 = t2
    WebClients = {c1, c2, c3, c4}
    Tables = {t1, t2}
    TableOf <- MCTableOf
    MaxDealers = 4
    ChanCap = 3
SYMMETRY Symmetry
INVARIANTS
  SeatedClientsShareTheTablesDealer
  DealersOnShiftHaveClients
CHECK_DEADLOCK FALSE
