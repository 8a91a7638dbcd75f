SPECIFICATION Spec
CONSTANTS
  chat = chat
  system = system
  Chats <- OneChat
  Systems <- OneSystem
  MaxSid = 2
  MaxCfg = 2
  MaxCap = 3
CONSTRAINTS
  OneKeyMoves
  InjectionsApart
  HarnessApart
INVARIANTS
  ConversationContinues
  SwitchApplied
  BudgetApplied
