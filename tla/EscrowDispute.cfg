SPECIFICATION Spec
CONSTANTS
  Alice = Alice
  Bob = Bob
  Sam = Sam
  Accounts <- MCAccounts
  Keys <- MCKeys
  InitBalance <- MCBalance
  Terms <- MCTerms
  Amounts = {1, 2}
  MaxTime = 3
INVARIANT DisputedOnDeadline
CHECK_DEADLOCK FALSE
