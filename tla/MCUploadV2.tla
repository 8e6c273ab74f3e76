------------------------------ MODULE MCUploadV2 ------------------------------
(* Transfer v2 on small files: two blocks, a file of one block, a file the      *)
(* first stage refuses and an empty file.                                       *)
EXTENDS UploadV2

File(kind, addr, payload) ==
    <<Byte(kind), Byte(addr), Byte(Len(payload)), [crc |-> payload, i |-> 1]>> \o payload

MCFiles == {File(1, 0, <<Byte(1), Byte(2)>>), File(1, 1, <<Byte(1)>>), File(0, 0, <<Byte(1)>>), <<>>}
==============================================================================
