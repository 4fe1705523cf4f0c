SPECIFICATION ServerSpec
CONSTANTS
    Exchanges = {x1, x2, x3}
    Ips = {i1, i2}
    RateLimitPerMinute = 0
    MaxRefills = 2
    MaxLines = 3
SYMMETRY Symmetric
CHECK_DEADLOCK FALSE
INVARIANTS BudgetPerIp ToolsAfterInitialize AuditAgrees SequentialOverStdio
