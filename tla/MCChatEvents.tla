---------------------------- MODULE MCChatEvents ----------------------------
(* Small instances of ChatEvents for TLC.                                  *)
EXTENDS ChatEvents

MCMessages == 1..2

\* Nothing happens between the read and the subscription, or something does.
NoGaps == {{"slow", "crash"}}
OnlyGap == {{"gap"}}
=============================================================================
