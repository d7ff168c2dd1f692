\* The hub, its goroutines and two connections: two topics (the opaque ids
\* of channels 100 and 65535), one broadcast,
\* one text frame per connection (a ping, a Subscribe or an Unsubscribe).
\* No symmetry: the temporal properties are checked in the same run.
CONSTANTS
    c1 = c1
    c2 = c2
    t1 = t1
    t2 = t2
    Conns <- MCConns
    Topics <- MCTopics
    Broadcasts = {b1}
    MaxFrames = 1
    NoTopic = NoTopic
    NoBcast = NoBcast

SPECIFICATION Spec

INVARIANT TypeOK
INVARIANT OnlySubscribersReceive
INVARIANT TopicsNameTheirChannels
PROPERTY GoroutinesReturn
PROPERTY ClosingLeavesRegistry
