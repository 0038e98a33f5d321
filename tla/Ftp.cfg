SPECIFICATION FtpSpec
CONSTANTS
    Slots = {s1, s2}
    Netconns = 3
    MailboxSize = 1
    FTP_CWD_SIZE = 2
    FS_LOCK = 2
INVARIANTS NothingLeaked PassiveListens WorkingDirectoryKept
PROPERTY VanishedClientDropped
CHECK_DEADLOCK FALSE
