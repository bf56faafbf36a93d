\* Up to two updates of up to two changes each, over a base in either style.
SPECIFICATION Spec
CONSTANTS
    b1 = b1
    b2 = b2
    XRefBody = XRefBody
    Bodies = {b1, b2}
    CallerNums = {0, 1, 2, 4}
    Base <- MCBase
    Declared = 2
    BaseInfo = 2
    BaseXmp = 1
    Styles = {"Table", "Stream"}
    MaxNum = 9
    Limit = 9
    MaxChanges = 2
    MaxSections = 3
INVARIANTS SizeCovers FreeChain OneRowPerNumber
PROPERTIES FreshNumbers ImplementsRevisions
CHECK_DEADLOCK FALSE
