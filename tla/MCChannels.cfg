\* Every handler: the owner, the first group and one more, the first
\* channel and one more, one line of text.
CONSTANTS
    o = o  g1 = g1  g2 = g2  ch1 = ch1  ch2 = ch2  a = a  b = b  c = c
    Users <- MCUsers
    Owner = o
    Groups <- MCGroups
    Chans <- MCChans
    Lines = {a}
    EditLine = EditLine
    FirstGroup = g1
    FirstChan = ch1
    NoGroup = NoGroup
    NoChan = NoChan
    Ops = {"create", "edit", "react", "select", "createChannel", "editChannel",
           "deleteChannel", "createGroup", "deleteGroup"}

SPECIFICATION Spec

INVARIANT TypeOK
