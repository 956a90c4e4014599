SPECIFICATION Spec
CONSTANTS
  Lines <- MCLines
  Empty = ""
  Numbers <- MCNumbers
  Decimal <- MCDecimal
  Keys <- MCKeys
  Zero = "0"
  Base58 <- MCBase58
  TooLong <- MCTooLong
  MaxRecipients = 2
  MaxEdits = 6
INVARIANTS TypeOK CommandPays SubmitsWhatWasShown EditKeepsCommand
