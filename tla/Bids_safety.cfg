\* Concurrent requests, time-outs, crashes, failed transactions and lost commits.
SPECIFICATION BidsSpec
CONSTANTS
  q1 = q1
  q2 = q2
  q3 = q3
  investor = investor
  bank = bank
  p1 = p1
  p2 = p2
  a1 = a1
  a2 = a2
  k = k
  NoKey = NoKey
  NoReq = NoReq
  Reqs = {q1, q2, q3}
  Investors = {investor}
  InvestorOf <- MCInvestorOf
  Accounts = {bank}
  BankOf <- MCBankOf
  Ledger <- MCLedger
  Amounts = {1, 2}
  Keys = {k}
  Grants = {p1, p2, a1, a2}
  ScopeOf <- MCScopeOf
  Ceiling <- MCCeiling
  Faults = TRUE
SYMMETRY Symmetric
INVARIANTS
  HoldsFollowBids
  OneBidPerKey
  BidIsApproved
CHECK_DEADLOCK FALSE
