\* CreateMessage alone: the owner sends three lines to the first channel.
CONSTANTS
    o = o  g1 = g1  g2 = g2  ch1 = ch1  ch2 = ch2  a = a  b = b  c = c
    Users <- MCUsers
    Owner = o
    Groups <- MCGroups
    Chans <- MCChans
    Lines = {a, b, c}
    EditLine = EditLine
    FirstGroup = g1
    FirstChan = ch1
    NoGroup = NoGroup
    NoChan = NoChan
    Ops = {"create"}

SPECIFICATION Spec

CHECK_DEADLOCK FALSE

INVARIANT CommittedLinesKept
