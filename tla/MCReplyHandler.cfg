SPECIFICATION RepliesSpec
CONSTANTS
    Boards = {c1}
    RequestIds = {r1, r2}
INVARIANTS
    NoLeak
    ReplyInTimeIsReturned
    LostClientWakesCallers
