----------------------------- MODULE MCChatView -----------------------------
EXTENDS ChatView

CONSTANTS R1, R2, K1

RoomOfKey == [k \in Keys |-> R1]

==============================================================================
