SPECIFICATION FairSpec
CONSTANTS
    Conversations = {c1, c2}
    Tabs = {t1, t2}
    MaxTexts = 2
    MaxRuns = 2
CHECK_DEADLOCK FALSE
INVARIANTS TypeOK ConversationsAreSound StoredOnce
PROPERTY SendsEnd
