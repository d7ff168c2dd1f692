----------------------------- MODULE MCChatHub -----------------------------
(* Model-checking instance of ChatHub: connections and topics are model   *)
(* values; the symmetry is used only by the runs that check invariants.   *)
EXTENDS ChatHub, TLC

CONSTANTS c1, c2, t1, t2

MCConns == {c1, c2}
MCTopics == {t1, t2}
MCSymmetry == Permutations(MCConns) \cup Permutations(MCTopics)

(* A topic is a channel's opaque id: create_message.go broadcasts to     *)
(* Encode(channelId, "Channel", channel.Salt) and clients subscribe with  *)
(* the id channel.go encoded the same way.  The hub only compares topics, *)
(* so they stay model values here, and ChannelTopic gives the string each *)
(* stands for.  The codec is instantiated at 16-bit ids (uint64 in the    *)
(* code) with a real uuid salt; channel 100's plaintext                   *)
(* "100/Channel/<uuid>" is exactly three AES blocks, channel 65535's is   *)
(* padded.                                                                *)
Codec == INSTANCE ObjectId WITH Width <- 16, Key <- "aes"

ChannelTag == <<67, 104, 97, 110, 110, 101, 108>>     \* model.CHANNELS_TYPE
ChannelSalt == <<49, 50, 51, 101, 52, 53, 54, 55, 45, 101, 56, 57, 98, 45, 49,
                 50, 100, 51, 45, 97, 52, 53, 54, 45, 52, 50, 54, 54, 49, 52,
                 49, 55, 52, 48, 48, 48>>
ChannelId == [t \in MCTopics |-> IF t = t1 THEN 100 ELSE 65535]
ChannelTopic == [t \in MCTopics |-> Codec!Encode(ChannelId[t], ChannelTag, ChannelSalt)]
DecodedTopic == [t \in MCTopics |-> Codec!Decode(ChannelTopic[t][2])]

(* The topics in use: in a client's subscription set or on a broadcast.   *)
TopicsInUse ==
    (UNION {client[c].topics : c \in Conns} \cup {bcast[b].topic : b \in Broadcasts})
        \ {NoTopic}

(* Every topic a connection is subscribed to or a broadcast is addressed  *)
(* to is an opaque id that Encode produced without a panic and that       *)
(* decodes, with the type tag "Channel", to the channel id it was encoded *)
(* from: the subscriber and the broadcaster, which encode the id apart,   *)
(* name the same channel, and a topic is never read as another channel or *)
(* another type (object_id.go Encode and Decode, the padding Decode       *)
(* leaves in the salt field included).                                    *)
TopicsNameTheirChannels ==
    \A t \in TopicsInUse :
        ChannelTopic[t][1] /\ DecodedTopic[t] = <<ChannelId[t], ChannelTag>>
=============================================================================
