\* Spec check of the hub: one topic, one broadcast, one frame per connection.
CONSTANTS
    c1 = c1
    c2 = c2
    t1 = t1
    t2 = t2
    Conns <- MCConns
    Topics = {t1}
    Broadcasts = {b1}
    MaxFrames = 2
    NoTopic = NoTopic
    NoBcast = NoBcast

SPECIFICATION Spec

INVARIANT BroadcastFollowsHubOrder
