CONSTANTS
    t1 = t1
    t2 = t2
    Threads <- MCTwoThreads
    Operands <- MCOperands
    WordBits = 2
    MaxOps = 3
SPECIFICATION Spec
CHECK_DEADLOCK FALSE
INVARIANT TypeOK
PROPERTY ImplementsAtomicWord
PROPERTY ExchangeReturns
