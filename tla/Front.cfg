SPECIFICATION Spec
CONSTANTS
    Commands <- AllCommands
    Foreign <- ForeignTokens
    Leading <- LeadingTokens
    MaxTail = 3
INVARIANTS RefusedDoesNothing SchemaIsObeyed NoWordIsSwallowed ShowTouchesNothing
