CONSTANTS
    i1 = i1
    i2 = i2
    m1 = m1
    bot = bot
    ann = ann
    ben = ben
    NoEmail = NoEmail
    Issues = {i1, i2}
    Messages = {m1, bot}
    Worded = {i1}
    Humans = {m1}
    Author <- MCAuthor
    JiraLimit = 1
    SlackLimit = 1
    MaxTime = 4
    MaxFailures = 1
SPECIFICATION Spec
INVARIANT JiraNothingLost
