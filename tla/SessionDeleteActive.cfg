SPECIFICATION CommandsSpec
CONSTANTS
    r1 = r1
    r2 = r2
    Repl <- MCOne
    MaxId = 2
    MaxMsg = 1
    Ancestors <- MCAncestors
    Env = {}
    ByteOrder <- MCByteOrder
    LowerCase <- MCLowerCase
    Sanitized <- MCSanitized
    GivenSkills <- MCGivenSkills
    SkillSource <- MCSkillSource
    Installer = {1}
PROPERTIES
    DeleteSparesActive
CHECK_DEADLOCK FALSE
