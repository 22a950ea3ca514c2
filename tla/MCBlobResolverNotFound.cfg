SPECIFICATION Spec
CONSTANTS
    b1 = b1
    b2 = b2
    None = None
    MaxAttempts = 3
    MaxHops = 2
    Blob = {b1}
    PingAnswers = {"anonymous", "bearer", "basic", "error"}
    HeadAnswers = {"cdn", "samehost", "unauthorized", "notfound", "unanswered", "ctx"}
    GetAnswers = {"full", "unauthorized", "notfound", "error", "ctx"}
PROPERTY NotFoundConfirmed
