SPECIFICATION CommandsSpec
CONSTANTS
    r1 = r1
    r2 = r2
    Repl <- MCTwo
    MaxId = 2
    MaxMsg = 1
    Ancestors <- MCAncestors
    Env = {}
    ByteOrder <- MCByteOrder
    LowerCase <- MCLowerCase
    Sanitized <- MCSanitized
    GivenSkills <- MCGivenSkills
    SkillSource <- MCSkillSource
    Installer = {1, 2}
SYMMETRY MCSymmetry
INVARIANTS
    NothingLost
    NoMixing
    ShownIsOnDisk
    SkillRunsAsListed
CHECK_DEADLOCK FALSE
