---------------------------- MODULE MCBoardCards ----------------------------
\* Three cards of one board: two are about one thread, and not every call is
\* made on each of them.
EXTENDS BoardCards

CardIds == 1..3
MCThreadOf == [c \in CardIds |-> IF c = 3 THEN NoThread ELSE "t"]
MCCalls == [c \in CardIds |->
    CASE c = 1 -> {"create", "resolve", "patch", "revise", "move",
                   "archive", "trash", "restore", "purge"}
      [] c = 2 -> {"create", "move"}
      [] c = 3 -> {"create"}]
=============================================================================
