----------------------------- MODULE MCChannels -----------------------------
EXTENDS Channels, TLC

CONSTANTS o, g1, g2, ch1, ch2, a, b, c

MCUsers == {o}
MCGroups == {g1, g2}
MCChans == {ch1, ch2}
====
