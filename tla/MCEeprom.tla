------------------------------ MODULE MCEeprom ------------------------------
(***************************************************************************)
(* Addresses of one and of three bits and words of two for TLC.  The       *)
(* command's second bit goes where the middle one of a long address does,  *)
(* so that an address half sent can leave a bit there.                     *)
(***************************************************************************)
EXTENDS Eeprom

Zeros   == [i \in 0 .. LongLen - 1 |-> 0]
Last    == [Zeros EXCEPT ![LongLen - 1] = 1]
LastTwo == [Last EXCEPT ![LongLen - 2] = 1]

MCAddresses == {Last, LastTwo}
MCContents  == {w \in WordType : w[0] # w[1]}
=============================================================================
