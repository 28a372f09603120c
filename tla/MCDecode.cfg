CONSTANTS
    Samples = {3}
    Prompts <- PromptSet
    Lengths = {0, 1, 2, 3}
    Jobs <- JobSet
    Slack = 1
    Ops = {"mm", "sdpa"}
    Results <- ResultSet
SPECIFICATION Spec
INVARIANTS
    StaleUnseen
    OnlyLongWarmupFails
    VerdictFaithful
PROPERTIES
    Autoregressive
    Delivers
\* A driver ends when it has returned its text.
CHECK_DEADLOCK FALSE
