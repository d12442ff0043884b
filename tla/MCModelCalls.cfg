SPECIFICATION CallFairSpec
CONSTANTS
    Callers = {c1, c2}
    FailureThreshold = 2
    SuccessThreshold = 2
    HalfOpenMax = 2
    Checked = TRUE
    Threads = {t1, t2}
    Providers <- MCProviders
    Keyed <- MCKeyed
    Chain <- MCChain
    ProviderOf <- MCProviderOf
    MaxDay = 1
    Scenarios = {"limited", "legacy", "day", "midnight"}
PROPERTIES
    CircuitSound
    FallbackSound
    ServiceGoesOn
