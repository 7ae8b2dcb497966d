\* Every interleaving of place, adjust and release requests on one account.
SPECIFICATION HoldsSpec
CONSTANTS
  r1 = r1
  r2 = r2
  acct = acct
  c1 = c1
  c2 = c2
  c3 = c3
  Refs = {r1, r2}
  Accounts = {acct}
  AccountOf <- MCAccountOf
  Ledger <- MCLedger
  Amounts = {1, 2}
  Calls = {c1, c2, c3}
SYMMETRY Symmetric
INVARIANTS
  WithinLedgerUnlessOverlapped
PROPERTIES
  ReleasedIsFinal
