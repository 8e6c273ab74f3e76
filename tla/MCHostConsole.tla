---------------------------- MODULE MCHostConsole ----------------------------
(* The dialogue for TLC: three commands, two with split reads. *)
EXTENDS HostConsole

MCReplies == <<"reply 0", "reply 1", "reply 2", "reply 3">>
MCCommands == [s \in BOOLEAN |-> IF s THEN 2 ELSE 3]
MCPolls == [s \in BOOLEAN |-> IF s THEN 3 ELSE 4]
==============================================================================
