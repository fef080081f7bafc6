CONSTANT Operands <- AllBytes
SPECIFICATION MCSpec
INVARIANTS TypeOK BinaryAdd BinarySubtract DecimalAdd DecimalSubtract CompareOrders
INVARIANTS FailsForOverflowOnly
PROPERTY EndsAsDocumented
CHECK_DEADLOCK FALSE
