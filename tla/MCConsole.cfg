\* printk on a small screen.
CONSTANTS
    W = 3
    H = 2
    tab_length = 2
    WORD = 2
    BUF = 8
    Literal = {"d", "%", "nl", "tab"}
    Number <- NumberValues
    Text <- TextValues
    Pieces = 2
    MaxPos = 12
    MaxCalls = 2
SPECIFICATION ConsoleSpec
INVARIANTS ScreenShowsText FormatsArguments OverrunsWhenTooLong
