---------------------------- MODULE EepromProofs ----------------------------
(***************************************************************************)
(* Proofs about the EEPROM, for every length of addresses and words, every *)
(* set of addresses and contents.  EepromInv is inductive: to know that a  *)
(* word that was written stays (Kept), one has to know that the chip is in *)
(* step with the guest (InSync), and what a word half written holds.       *)
(***************************************************************************)
EXTENDS Eeprom, TLAPS

(* A chip with short addresses is never taken for one with long ones.      *)
SizeKnown == \A s \in {Machine} \cup slots : s.size = "LONG" => chip = "LONG"

(* The word under way: nothing is counted on at its address, and unless it *)
(* was loaded half done, it holds the bits that were sent and zeros.       *)
WordUnderWay ==
  req # NULL /\ req.op = "write" /\ AddrEnd <= sent =>
    /\ written[req.addr] = NULL
    /\ ~mixed => \A k \in 0 .. WordBits - 1 :
         gamepak_backup[req.addr][k] = IF k < sent - AddrEnd THEN req.word[k] ELSE 0

EepromInv == TypeOK /\ InSync /\ SizeKnown /\ Kept /\ WordUnderWay

----------------------------------------------------------------------------
(* The constants.                                                          *)

LEMMA Lengths ==
  ASSUME chip \in {"SHORT", "LONG"}
  PROVE  /\ Length(chip) \in Nat /\ 1 <= Length(chip) /\ Length(chip) <= LongLen
         /\ Skipped(chip) \in Nat /\ Skipped(chip) = LongLen - Length(chip)
         /\ LongLen \in Nat /\ 2 <= LongLen
         /\ WordBits \in Nat /\ 1 <= WordBits
         /\ CommandPos \in BufferBits /\ CommandPos + 1 \in BufferBits
BY LengthAssumption DEF Length, Skipped, BufferBits

LEMMA RequestFields ==
  ASSUME NEW r \in Requests
  PROVE  /\ r # NULL
         /\ r.op \in {"read", "write"}
         /\ r.addr \in Addresses /\ r.addr \in AddrType
         /\ r.op = "write" => r.word \in Contents /\ r.word \in WordType
<1>1. r # NULL
  BY NullAssumption
<1>2. CASE r \in [op : {"read"}, addr : Addresses, dma : BOOLEAN]
  BY <1>1, <1>2, DataAssumption
<1>3. CASE r \in [op : {"write"}, addr : Addresses, word : Contents, dma : BOOLEAN]
  BY <1>1, <1>3, DataAssumption
<1> QED
  BY <1>2, <1>3 DEF Requests

(* Where a request's address and word end.                                 *)
LEMMA Ends ==
  ASSUME chip \in {"SHORT", "LONG"}, NEW r \in Requests
  PROVE  /\ AddrEnd = 2 + Length(chip)
         /\ AddrEnd \in Nat /\ WordEnd(r) \in Nat
         /\ r.op = "read" => WordEnd(r) = AddrEnd
         /\ r.op = "write" => WordEnd(r) = AddrEnd + WordBits
BY Lengths, RequestFields DEF AddrEnd, WordEnd

LEMMA BitIsBit ==
  ASSUME chip \in {"SHORT", "LONG"}, NEW r \in Requests, NEW n \in Nat
  PROVE  Bit(r, n) \in Bits
<1>1. CASE n < 2
  BY <1>1 DEF Bit, Bits
<1>2. CASE 2 <= n /\ n < AddrEnd
  <2>1. Skipped(chip) + n - 2 \in 0 .. LongLen - 1
    BY <1>2, Lengths, Ends
  <2>2. r.addr \in [0 .. LongLen - 1 -> Bits]
    BY RequestFields DEF AddrType
  <2>3. Bit(r, n) = r.addr[Skipped(chip) + n - 2]
    BY <1>2 DEF Bit
  <2> QED
    BY <2>1, <2>2, <2>3
<1>3. CASE AddrEnd <= n /\ n < WordEnd(r)
  <2>1. r.op = "write" /\ n - AddrEnd \in 0 .. WordBits - 1
    BY <1>3, Ends, Lengths, RequestFields
  <2>2. r.word \in [0 .. WordBits - 1 -> Bits]
    BY <2>1, RequestFields DEF WordType
  <2>3. Bit(r, n) = r.word[n - AddrEnd]
    BY <1>3, Ends, Lengths DEF Bit
  <2> QED
    BY <2>1, <2>2, <2>3
<1>4. CASE AddrEnd <= n /\ WordEnd(r) <= n
  BY <1>4, Ends, Lengths DEF Bit, Bits
<1> QED
  BY <1>1, <1>2, <1>3, <1>4, Ends, Lengths

----------------------------------------------------------------------------
(* Being in step, of the machine's own variables.                          *)
InStep ==
  IF req = NULL THEN sent = 0 /\ got = 0 /\ eeprom_mode = "BASE" /\ eeprom_counter = 0
  ELSE /\ eeprom_size = chip
       /\ req.addr \in Words(chip)
       /\ sent <= WordEnd(req) + (IF req.op = "read" THEN 1 ELSE 0)
       /\ got < AnswerHeader + WordBits
       /\ sent <= WordEnd(req) => got = 0
       /\ sent < 2 =>
            /\ eeprom_mode = "BASE"
            /\ eeprom_counter = sent
            /\ eeprom_buffer[CommandPos + 1] = 0
            /\ sent = 1 => eeprom_buffer[CommandPos] = 1
       /\ 2 <= sent /\ sent < AddrEnd =>
            /\ eeprom_mode = IF req.op = "read" THEN "ADDRESS" ELSE "WRITE_ADDRESS"
            /\ eeprom_counter = sent - 2
            /\ eeprom_address_length = Length(chip)
            /\ eeprom_buffer = [n \in BufferBits |->
                                  IF n < sent - 2 THEN req.addr[Skipped(chip) + n] ELSE 0]
       /\ AddrEnd <= sent =>
            /\ eeprom_address = req.addr
            /\ eeprom_mode = IF sent < WordEnd(req) THEN "WRITE"
                             ELSE IF sent = WordEnd(req)
                               THEN IF req.op = "read" THEN "ADDRESS_FOOTER" ELSE "WRITE_FOOTER"
                             ELSE IF got < AnswerHeader THEN "READ_HEADER" ELSE "READ"
            /\ eeprom_counter = IF sent < WordEnd(req) THEN sent - AddrEnd
                                ELSE IF got < AnswerHeader THEN got ELSE got - AnswerHeader

LEMMA Flat ==
  ASSUME sent \in Nat, AddrEnd \in Nat, 2 <= AddrEnd
  PROVE  Follows(Machine) <=> InStep
BY DEF Follows, Machine, AtCommand, AtAddress, AfterAddress, InStep

LEMMA FlatNext ==
  ASSUME sent' \in Nat, AddrEnd' \in Nat, 2 <= AddrEnd'
  PROVE  Follows(Machine)' <=> InStep'
BY DEF Follows, Machine, AtCommand, AtAddress, AfterAddress, InStep

(* What a step that leaves the saved state alone has to show.              *)
LEMMA StepInSync ==
  ASSUME TypeOK, InSync, SizeKnown, chip' = chip, slots' = slots,
         sent' \in Nat, InStep', eeprom_size' = "LONG" => chip = "LONG"
  PROVE  InSync' /\ SizeKnown'
<1>1. AddrEnd' = AddrEnd /\ AddrEnd \in Nat /\ 2 <= AddrEnd
  BY Lengths DEF TypeOK, AddrEnd
<1>2. Follows(Machine)'
  BY <1>1, FlatNext
<1>3. ASSUME NEW s \in slots
      PROVE  Follows(s)'
  BY <1>3 DEF InSync, Follows, AtCommand, AtAddress, AfterAddress, WordEnd, AddrEnd
<1>4. Machine'.size = eeprom_size'
  BY DEF Machine
<1> QED
  BY <1>2, <1>3, <1>4 DEF InSync, SizeKnown
(* What the invariant says of the machine itself.                          *)
LEMMA Facts ==
  ASSUME EepromInv
  PROVE  /\ TypeOK /\ InSync /\ SizeKnown /\ Kept
         /\ chip \in {"SHORT", "LONG"}
         /\ eeprom_size \in {"SHORT", "LONG"} /\ (eeprom_size = "LONG" => chip = "LONG")
         /\ eeprom_counter \in 0 .. LongLen + WordBits
         /\ eeprom_mode \in Modes
         /\ eeprom_address_length \in 0 .. LongLen
         /\ req \in Requests \cup {NULL}
         /\ sent \in Nat /\ got \in Nat
         /\ eeprom_buffer \in [BufferBits -> Bits]
         /\ eeprom_address \in AddrType
         /\ gamepak_backup \in [AddrType -> WordType]
         /\ written \in [Addresses -> WordType \cup {NULL}]
         /\ mixed \in BOOLEAN
         /\ InStep
<1>1. Machine \in Machines
  BY DEF EepromInv, TypeOK
<1>2. /\ eeprom_size \in {"SHORT", "LONG"}
      /\ eeprom_counter \in 0 .. LongLen + WordBits
      /\ eeprom_mode \in Modes
      /\ eeprom_address_length \in 0 .. LongLen
      /\ req \in Requests \cup {NULL}
      /\ sent \in Nat /\ got \in Nat
      /\ eeprom_buffer \in [BufferBits -> Bits]
      /\ eeprom_address \in AddrType
  BY <1>1 DEF Machine, Machines
<1>3. InStep
  BY <1>2, Lengths, Flat DEF EepromInv, InSync, TypeOK, AddrEnd
<1>4. mixed \in BOOLEAN
  BY Zenon DEF EepromInv, TypeOK
<1> QED
  BY <1>2, <1>3, <1>4 DEF EepromInv, TypeOK, SizeKnown, Machine

(* What a step that leaves the saved state alone has to show of the types. *)
LEMMA StepTypeOK ==
  ASSUME TypeOK, chip' = chip, slots' = slots,
         eeprom_size' \in {"SHORT", "LONG"}, eeprom_mode' \in Modes,
         eeprom_counter' \in 0 .. LongLen + WordBits,
         eeprom_buffer' \in [BufferBits -> Bits], eeprom_address' \in AddrType,
         eeprom_address_length' \in 0 .. LongLen, req' \in Requests \cup {NULL},
         sent' \in Nat, got' \in Nat, gamepak_backup' \in [AddrType -> WordType],
         written' \in [Addresses -> WordType \cup {NULL}], mixed' \in BOOLEAN
  PROVE  TypeOK'
<1>1. Machine' \in Machines
  BY DEF Machine, Machines
<1>2. mixed' \in BOOLEAN
  OBVIOUS
<1> QED
  BY <1>1, <1>2 DEF TypeOK

LEMMA StartStep ==
  ASSUME EepromInv, Start
  PROVE  EepromInv'
<1>1. PICK r \in Requests :
        /\ r.addr \in Words(chip)
        /\ ~r.dma => eeprom_size = chip
        /\ req' = r
        /\ eeprom_size' = Detected(r.dma)
  BY DEF Start
<1>2. /\ req = NULL /\ sent = 0 /\ got = 0 /\ eeprom_mode = "BASE" /\ eeprom_counter = 0
      /\ eeprom_buffer[CommandPos + 1] # 1
  BY Facts DEF Start, InStep, CommandLeft
<1>3. eeprom_size' = chip
  BY <1>1, Facts DEF Detected
<1>4. eeprom_buffer[CommandPos + 1] = 0
  BY <1>2, Facts, Lengths DEF Bits
<1>5. r # NULL /\ r.op \in {"read", "write"}
  BY RequestFields
<1>6. InStep'
  <2>1. /\ eeprom_mode' = "BASE" /\ eeprom_counter' = 0 /\ sent' = 0 /\ got' = 0
        /\ eeprom_buffer' = eeprom_buffer /\ chip' = chip
    BY <1>2 DEF Start
  <2>2. (Words(chip))' = Words(chip) /\ (AddrEnd)' = AddrEnd /\ (WordEnd(req))' = WordEnd(r)
    BY <1>1, <2>1 DEF Words, AddrEnd, WordEnd
  <2>3. 2 <= AddrEnd /\ AddrEnd \in Nat /\ 0 <= WordEnd(r) /\ WordEnd(r) \in Nat
    BY Facts, Ends, Lengths
  <2>4. 0 < AnswerHeader + WordBits
    BY Facts, Lengths DEF AnswerHeader
  <2> QED
    BY <1>1, <1>3, <1>4, <1>5, <2>1, <2>2, <2>3, <2>4 DEF InStep
<1>7. TypeOK'
  BY <1>1, <1>3, Facts, StepTypeOK DEF Start
<1>8. InSync' /\ SizeKnown'
  BY <1>1, <1>3, <1>6, Facts, StepInSync DEF Start
<1>9. Kept'
  BY Facts DEF Start, Kept
<1>10. WordUnderWay'
  <2>1. sent' = 0 /\ AddrEnd' \in Nat /\ 2 <= AddrEnd'
    BY <1>2, Facts, Lengths DEF Start, AddrEnd
  <2> QED
    BY <2>1 DEF WordUnderWay
<1> QED
  BY <1>7, <1>8, <1>9, <1>10 DEF EepromInv

----------------------------------------------------------------------------
(* Sending a bit: of the command, of the address, of the word, the last.   *)

LEMMA SendFacts ==
  ASSUME EepromInv, Send
  PROVE  /\ req \in Requests /\ req # NULL /\ req.op \in {"read", "write"}
         /\ sent <= WordEnd(req) /\ got = 0
         /\ Bit(req, sent) \in Bits
         /\ AddrEnd \in Nat /\ 2 < AddrEnd /\ AddrEnd = 2 + Length(chip)
         /\ WordEnd(req) \in Nat /\ AddrEnd <= WordEnd(req)
         /\ eeprom_size = chip /\ req.addr \in Words(chip)
         /\ chip' = chip /\ got' = got /\ slots' = slots
         /\ eeprom_size' = eeprom_size
         /\ (AddrEnd)' = AddrEnd /\ (Words(chip))' = Words(chip)
         /\ \A r : (WordEnd(r))' = WordEnd(r)
<1>1. /\ req \in Requests /\ req # NULL /\ sent <= WordEnd(req)
      /\ chip' = chip /\ got' = got /\ slots' = slots
  BY Facts DEF Send
<1>2. eeprom_size' = eeprom_size
  <2> DEFINE b == Bit(req, sent)
  <2>1. WriteBase(b) \/ WriteAddress(b) \/ WriteData(b) \/ WriteFooter \/ WriteIgnored
    BY DEF Send, WriteEeprom
  <2> QED
    BY <2>1 DEF WriteBase, WriteAddress, WriteData, WriteFooter, WriteIgnored, registers
<1>3. got = 0 /\ eeprom_size = chip /\ req.addr \in Words(chip)
  BY <1>1, Facts DEF InStep
<1>4. req.op \in {"read", "write"} /\ Bit(req, sent) \in Bits
  BY <1>1, Facts, RequestFields, BitIsBit
<1>5. /\ AddrEnd \in Nat /\ 2 < AddrEnd /\ AddrEnd = 2 + Length(chip)
      /\ WordEnd(req) \in Nat /\ AddrEnd <= WordEnd(req)
  BY <1>1, <1>4, Facts, Ends, Lengths
<1>6. (AddrEnd)' = AddrEnd /\ (Words(chip))' = Words(chip) /\ \A r : (WordEnd(r))' = WordEnd(r)
  BY <1>1 DEF AddrEnd, Words, WordEnd
<1> QED
  BY <1>1, <1>2, <1>3, <1>4, <1>5, <1>6

LEMMA SendCommand ==
  ASSUME EepromInv, Send, sent < 2
  PROVE  EepromInv'
<1> DEFINE b == Bit(req, sent)
<1>1. /\ eeprom_mode = "BASE" /\ eeprom_counter = sent
      /\ eeprom_buffer[CommandPos + 1] = 0
      /\ sent = 1 => eeprom_buffer[CommandPos] = 1
  BY Facts, SendFacts DEF InStep
<1>2. WriteBase(b)
  BY <1>1 DEF Send, WriteEeprom, WriteAddress, WriteData, WriteFooter, WriteIgnored
<1>3. /\ sent' = sent + 1 /\ req' = req /\ mixed' = mixed
      /\ written' = written /\ gamepak_backup' = gamepak_backup
      /\ eeprom_address' = eeprom_address
  <2>1. sent # WordEnd(req) /\ sent + 1 # AddrEnd
    BY Facts, SendFacts
  <2>2. written' = written
    BY <2>1 DEF Send, Noted
  <2> QED
    BY <1>2, <2>1, <2>2 DEF Send, WriteBase
<1>4. /\ eeprom_counter' \in 0 .. LongLen + WordBits /\ eeprom_mode' \in Modes
      /\ eeprom_buffer' \in [BufferBits -> Bits]
      /\ eeprom_address_length' \in 0 .. LongLen
      /\ InStep'
  <2>1. CASE sent = 0
    <3>1. b = 1
      BY <2>1 DEF Bit
    <3>2. /\ eeprom_counter' = 1 /\ eeprom_mode' = "BASE"
          /\ eeprom_buffer' = Shifted(CommandPos, b)
          /\ eeprom_address_length' = eeprom_address_length
      BY <1>1, <1>2, <2>1, Lengths, Facts DEF WriteBase, BufferBits
    <3>3. /\ Shifted(CommandPos, b) \in [BufferBits -> Bits]
          /\ Shifted(CommandPos, b)[CommandPos] = 1
          /\ Shifted(CommandPos, b)[CommandPos + 1] = 0
      BY <1>1, <3>1, Facts, Lengths DEF Shifted, MaxOf, Bits, BufferBits
    <3>4. InStep'
      BY <1>3, <2>1, <3>2, <3>3, SendFacts, Facts, Lengths DEF InStep, AnswerHeader
    <3> QED
      BY <3>2, <3>3, <3>4, Facts, Lengths DEF Modes
  <2>2. CASE sent = 1
    <3>1. b = IF req.op = "read" THEN 1 ELSE 0
      BY <2>2 DEF Bit
    <3>2. /\ Shifted(CommandPos + 1, b)[CommandPos] = 1
          /\ Shifted(CommandPos + 1, b)[CommandPos + 1] = b
      BY <1>1, <2>2, <3>1, Facts, Lengths DEF Shifted, MaxOf, BufferBits
    <3>3. ModeOf(Shifted(CommandPos + 1, b)) = IF req.op = "read" THEN "ADDRESS" ELSE "WRITE_ADDRESS"
      BY <3>1, <3>2 DEF ModeOf
    <3>4. /\ eeprom_counter' = 0 /\ eeprom_buffer' = NoBits
          /\ eeprom_address_length' = Length(chip)
          /\ eeprom_mode' = IF req.op = "read" THEN "ADDRESS" ELSE "WRITE_ADDRESS"
      BY <1>1, <1>2, <2>2, <3>3, SendFacts DEF WriteBase
    <3>5. NoBits \in [BufferBits -> Bits]
      BY DEF NoBits, Bits
    <3>6. sent' = 2 /\ NoBits = [n \in BufferBits |->
                                   IF n < sent' - 2 THEN req.addr[Skipped(chip) + n] ELSE 0]
      BY <1>3, <2>2 DEF NoBits, BufferBits
    <3>7. InStep'
      BY <1>3, <2>2, <3>4, <3>6, SendFacts, Facts, Lengths DEF InStep, AnswerHeader, Skipped, Length
    <3> QED
      BY <3>4, <3>5, <3>7, Facts, Lengths DEF Modes
  <2> QED
    BY <2>1, <2>2, Facts
<1>5. TypeOK'
  BY <1>3, <1>4, Facts, SendFacts, StepTypeOK
<1>6. InSync' /\ SizeKnown'
  BY <1>3, <1>4, Facts, SendFacts, StepInSync
<1>7. Kept'
  BY <1>3, Facts DEF Kept
<1>8. WordUnderWay'
  BY <1>3, Facts, SendFacts DEF WordUnderWay
<1> QED
  BY <1>5, <1>6, <1>7, <1>8 DEF EepromInv

LEMMA SendAddress ==
  ASSUME EepromInv, Send, 2 <= sent, sent < AddrEnd
  PROVE  EepromInv'
<1> DEFINE b    == Bit(req, sent)
           upTo == [n \in BufferBits |-> IF n < sent - 1 THEN req.addr[Skipped(chip) + n] ELSE 0]
<1>1. /\ eeprom_mode = IF req.op = "read" THEN "ADDRESS" ELSE "WRITE_ADDRESS"
      /\ eeprom_counter = sent - 2
      /\ eeprom_address_length = Length(chip)
      /\ eeprom_buffer = [n \in BufferBits |->
                            IF n < sent - 2 THEN req.addr[Skipped(chip) + n] ELSE 0]
  BY Facts, SendFacts DEF InStep
<1>2. WriteAddress(b)
  BY <1>1, SendFacts DEF Send, WriteEeprom, WriteBase, WriteData, WriteFooter, WriteIgnored
<1>3. req.addr \in [0 .. LongLen - 1 -> Bits] /\ req.addr \in Addresses /\ req.addr \in AddrType
  BY SendFacts, RequestFields DEF AddrType
<1>0. /\ sent \in Nat /\ LongLen \in Nat /\ Length(chip) \in Nat /\ Skipped(chip) \in Nat
      /\ Skipped(chip) = LongLen - Length(chip)
      /\ sent < 2 + Length(chip) /\ AddrEnd = 2 + Length(chip)
      /\ BufferBits = 0 .. LongLen - 1
      /\ WordEnd(req) \in Nat /\ AddrEnd <= WordEnd(req)
  BY SendFacts, Facts, Lengths DEF BufferBits
<1>4. b = req.addr[Skipped(chip) + sent - 2]
  BY SendFacts, Facts DEF Bit
<1>5. Shifted(eeprom_counter, b) = upTo
  <2>1. ASSUME NEW n \in BufferBits
        PROVE  Shifted(eeprom_counter, b)[n] = upTo[n]
    <3>1. CASE n = sent - 2
      <4>1. eeprom_buffer[n] = 0 /\ b \in {0, 1}
        BY <1>1, <3>1, SendFacts, Facts DEF Bits
      <4>2. Shifted(eeprom_counter, b)[n] = b
        BY <1>1, <3>1, <4>1, Facts DEF Shifted, MaxOf
      <4>3. n < sent - 1 /\ Skipped(chip) + n = Skipped(chip) + sent - 2
        BY <3>1, Facts, Lengths
      <4> QED
        BY <1>4, <4>2, <4>3
    <3>2. CASE n # sent - 2
      <4>1. Shifted(eeprom_counter, b)[n] = eeprom_buffer[n]
        BY <1>1, <3>2, Facts DEF Shifted
      <4>2. n < sent - 1 <=> n < sent - 2
        <5>1. n \in Nat
          BY <1>0
        <5> QED
          BY ONLY <5>1, <3>2, <1>0
      <4> QED
        BY <1>1, <4>1, <4>2
    <3> QED
      BY <3>1, <3>2
  <2> QED
    BY <2>1, Facts DEF Shifted
<1>6. upTo \in [BufferBits -> Bits] /\ NoBits \in [BufferBits -> Bits]
  <2>1. ASSUME NEW n \in BufferBits, n < sent - 1
        PROVE  req.addr[Skipped(chip) + n] \in Bits
    <3>1. Skipped(chip) + n \in 0 .. LongLen - 1
      BY ONLY <1>0, <2>1
    <3> QED
      BY <1>3, <3>1
  <2> QED
    BY <2>1 DEF NoBits, Bits
<1>7. /\ sent' = sent + 1 /\ req' = req /\ mixed' = mixed
      /\ eeprom_address_length' = eeprom_address_length
  <2>1. sent # WordEnd(req)
    BY <1>0
  <2>2. sent' = sent + 1 /\ req' = req /\ mixed' = mixed
    BY <2>1, Zenon DEF Send
  <2> QED
    BY <1>2, <2>2 DEF WriteAddress
<1>8. CASE sent + 1 < AddrEnd
  <2>1. /\ eeprom_counter' = sent - 1 /\ eeprom_buffer' = upTo
        /\ eeprom_mode' = eeprom_mode /\ eeprom_address' = eeprom_address
        /\ gamepak_backup' = gamepak_backup
    BY <1>1, <1>2, <1>5, <1>8, SendFacts, Facts, Lengths DEF WriteAddress
  <2>2. written' = written
    <3>1. sent # WordEnd(req) /\ sent + 1 # AddrEnd
      BY <1>0, <1>8
    <3> QED
      BY <3>1 DEF Send, Noted
  <2>3. upTo = [n \in BufferBits |->
                  IF n < sent' - 2 THEN req.addr[Skipped(chip) + n] ELSE 0]
    <3>1. sent' - 2 = sent - 1
      BY <1>7, Facts
    <3> QED
      BY <3>1
  <2>4. InStep'
    <3>1. (Skipped(chip))' = Skipped(chip) /\ (Length(chip))' = Length(chip)
      BY SendFacts DEF Skipped, Length
    <3>2. eeprom_counter' = sent' - 2 /\ 2 <= sent' /\ sent' <= WordEnd(req) /\ sent' < AddrEnd
      BY <1>7, <1>8, <2>1, SendFacts, Facts
    <3> HIDE DEF upTo
    <3> QED
      BY <1>1, <1>7, <2>1, <2>3, <3>1, <3>2, SendFacts, Facts, Lengths DEF InStep, AnswerHeader
  <2>5. TypeOK'
    <3>1. sent - 1 \in 0 .. LongLen + WordBits /\ sent' \in Nat
      BY <1>7, <1>8, SendFacts, Facts, Lengths
    <3> QED
      BY <1>6, <1>7, <2>1, <2>2, <3>1, SendFacts, Facts, StepTypeOK
  <2>6. InSync' /\ SizeKnown'
    BY <1>7, <2>4, Facts, SendFacts, StepInSync
  <2>7. Kept'
    BY <2>1, <2>2, Facts DEF Kept
  <2>8. WordUnderWay'
    BY <1>7, <1>8, Facts, SendFacts DEF WordUnderWay
  <2> QED
    BY <2>5, <2>6, <2>7, <2>8 DEF EepromInv
<1>9. CASE sent + 1 = AddrEnd
  <2>1. Decoded(upTo) = req.addr
    <3>1. ASSUME NEW n \in 0 .. LongLen - 1
          PROVE  Decoded(upTo)[n] = req.addr[n]
      <4>1. CASE n < Skipped(chip)
        BY <4>1, SendFacts, Facts, Lengths DEF Decoded, Words
      <4>2. CASE ~(n < Skipped(chip))
        <5>1. /\ n - Skipped(chip) \in BufferBits
              /\ n - Skipped(chip) < sent - 1
              /\ Skipped(chip) + (n - Skipped(chip)) = n
          <6>1. n \in Nat /\ n < LongLen
            BY ONLY <1>0, n \in 0 .. LongLen - 1
          <6>2. /\ n - Skipped(chip) \in Int
                /\ 0 <= n - Skipped(chip) /\ n - Skipped(chip) <= LongLen - 1
            BY <1>0, <4>2, <6>1
          <6>3. /\ n - Skipped(chip) < sent - 1
                /\ Skipped(chip) + (n - Skipped(chip)) = n
            BY <1>0, <1>9, <6>1
          <6> QED
            BY <1>0, <6>2, <6>3
        <5>2. Decoded(upTo)[n] = upTo[n - Skipped(chip)]
          BY <4>2, SendFacts DEF Decoded
        <5>3. upTo[n - Skipped(chip)] = req.addr[Skipped(chip) + (n - Skipped(chip))]
          BY <5>1
        <5> QED
          BY <5>1, <5>2, <5>3
      <4> QED
        BY <4>1, <4>2
    <3>2. DOMAIN Decoded(upTo) = 0 .. LongLen - 1 /\ Decoded(upTo) = [n \in 0 .. LongLen - 1 |-> Decoded(upTo)[n]]
      BY DEF Decoded
    <3> HIDE DEF upTo
    <3> QED
      BY <1>3, <3>1, <3>2
  <2>2. /\ eeprom_address' = req.addr /\ eeprom_buffer' = NoBits /\ eeprom_counter' = 0
        /\ req.op = "read" => eeprom_mode' = "ADDRESS_FOOTER" /\ gamepak_backup' = gamepak_backup
        /\ req.op = "write" => eeprom_mode' = "WRITE" /\ gamepak_backup' = Cleared(req.addr)
    <3> HIDE DEF upTo
    <3> QED
      BY <1>1, <1>2, <1>5, <1>9, <2>1, SendFacts, Facts, Lengths DEF WriteAddress
  <2>3. /\ req.op = "read" => written' = written
        /\ req.op = "write" => written' = [written EXCEPT ![req.addr] = NULL]
    BY <1>9, SendFacts, Facts DEF Send, Noted
  <2>4. InStep'
    BY <1>7, <1>9, <2>2, SendFacts, Facts, Ends, Lengths DEF InStep, AnswerHeader
  <2>5. TypeOK'
    <3>1. Cleared(req.addr) \in [AddrType -> WordType]
      BY Facts DEF Cleared, NoWord, WordType, Bits
    <3>2. written' \in [Addresses -> WordType \cup {NULL}]
      BY <1>3, <2>3, SendFacts, Facts
    <3>3. eeprom_mode' \in Modes /\ gamepak_backup' \in [AddrType -> WordType]
      BY <2>2, <3>1, SendFacts, Facts DEF Modes
    <3>4. sent' \in Nat /\ 0 \in 0 .. LongLen + WordBits
      BY <1>7, Facts, Lengths
    <3> QED
      BY <1>3, <1>6, <1>7, <2>2, <3>2, <3>3, <3>4, SendFacts, Facts, StepTypeOK
  <2>6. InSync' /\ SizeKnown'
    BY <1>7, <2>4, Facts, SendFacts, StepInSync
  <2>7. Kept'
    <3>1. CASE req.op = "read"
      BY <2>2, <2>3, <3>1, Facts DEF Kept
    <3>2. CASE req.op = "write"
      <4>1. ASSUME NEW a \in Addresses, written'[a] # NULL
            PROVE  a # req.addr /\ written'[a] = written[a] /\ gamepak_backup'[a] = gamepak_backup[a]
        BY <1>3, <2>2, <2>3, <3>2, <4>1, Facts, DataAssumption DEF Cleared
      <4> QED
        BY <4>1, Facts DEF Kept
    <3> QED
      BY <3>1, <3>2, SendFacts
  <2>8. WordUnderWay'
    <3> SUFFICES ASSUME req.op = "write"
                 PROVE  /\ written'[req.addr] = NULL
                        /\ \A k \in 0 .. WordBits - 1 :
                             gamepak_backup'[req.addr][k] = IF k < sent' - AddrEnd THEN req.word[k] ELSE 0
      BY <1>7, SendFacts DEF WordUnderWay
    <3>1. written'[req.addr] = NULL
      BY <1>3, <2>3, Facts
    <3>2. gamepak_backup'[req.addr] = NoWord
      BY <1>3, <2>2, Facts DEF Cleared
    <3>3. sent' - AddrEnd = 0
      BY <1>7, <1>9, SendFacts, Facts
    <3> QED
      BY <3>1, <3>2, <3>3, Facts, Lengths DEF NoWord
  <2> QED
    BY <2>5, <2>6, <2>7, <2>8 DEF EepromInv
<1> QED
  BY <1>8, <1>9, SendFacts, Facts

LEMMA SendWord ==
  ASSUME EepromInv, Send, AddrEnd <= sent, sent < WordEnd(req)
  PROVE  EepromInv'
<1> DEFINE b    == Bit(req, sent)
           k0   == sent - AddrEnd
           word == [gamepak_backup[req.addr] EXCEPT ![k0] = MaxOf(@, b)]
<1>0. /\ sent \in Nat /\ AddrEnd \in Nat /\ 2 < AddrEnd /\ LongLen \in Nat
      /\ WordBits \in Nat /\ 1 <= WordBits
      /\ req.op = "write" /\ WordEnd(req) = AddrEnd + WordBits
  BY SendFacts, Facts, Ends, Lengths
<1>1. /\ eeprom_mode = "WRITE" /\ eeprom_counter = k0 /\ eeprom_address = req.addr
  BY <1>0, Facts, SendFacts DEF InStep
<1>2. WriteData(b)
  BY <1>1 DEF Send, WriteEeprom, WriteBase, WriteAddress, WriteFooter, WriteIgnored
<1>3. req.addr \in Addresses /\ req.addr \in AddrType /\ req.word \in [0 .. WordBits - 1 -> Bits]
  BY <1>0, SendFacts, RequestFields DEF WordType
<1>4. k0 \in 0 .. WordBits - 1
  BY <1>0
<1>5. b = req.word[k0] /\ b \in Bits
  BY <1>0, SendFacts DEF Bit
<1>6. gamepak_backup[req.addr] \in [0 .. WordBits - 1 -> Bits]
  BY <1>3, Facts DEF WordType
<1>7. gamepak_backup' = [gamepak_backup EXCEPT ![req.addr] = word]
  <2>1. gamepak_backup' =
          [gamepak_backup EXCEPT ![eeprom_address][eeprom_counter] = MaxOf(@, b)]
    BY <1>2 DEF WriteData
  <2> QED
    BY <1>1, <2>1
<1>8. word \in [0 .. WordBits - 1 -> Bits]
  BY <1>4, <1>5, <1>6 DEF MaxOf, Bits
<1>9. /\ sent' = sent + 1 /\ req' = req /\ mixed' = mixed /\ written' = written
  <2>1. sent # WordEnd(req) /\ sent + 1 # AddrEnd
    BY <1>0
  <2>2. written' = written
    BY <2>1 DEF Send, Noted
  <2>3. sent' = sent + 1 /\ req' = req /\ mixed' = mixed
    BY <2>1, Zenon DEF Send
  <2> QED
    BY <2>2, <2>3
<1>10. /\ eeprom_counter' = IF sent + 1 = WordEnd(req) THEN 0 ELSE k0 + 1
       /\ eeprom_mode' = IF sent + 1 = WordEnd(req) THEN "WRITE_FOOTER" ELSE "WRITE"
       /\ eeprom_buffer' = eeprom_buffer /\ eeprom_address' = eeprom_address
       /\ eeprom_address_length' = eeprom_address_length
  BY <1>0, <1>1, <1>2 DEF WriteData
<1>11. InStep'
  <2>1. k0 + 1 = sent' - AddrEnd
    BY <1>0, <1>9
  <2>2. /\ AddrEnd <= sent' /\ sent' <= WordEnd(req) /\ ~(sent' < 2) /\ ~(sent' < AddrEnd)
        /\ (sent' < WordEnd(req) <=> sent + 1 # WordEnd(req))
    BY <1>0, <1>9
  <2> HIDE DEF k0
  <2> QED
    BY <1>0, <1>1, <1>9, <1>10, <2>1, <2>2, SendFacts, Facts DEF InStep, AnswerHeader
<1>12. TypeOK'
  <2>1. gamepak_backup' \in [AddrType -> WordType]
    <3> HIDE DEF word
    <3> QED
      BY <1>3, <1>7, <1>8, Facts DEF WordType
  <2>2. sent' \in Nat /\ eeprom_counter' \in 0 .. LongLen + WordBits /\ eeprom_mode' \in Modes
    BY <1>0, <1>4, <1>9, <1>10 DEF Modes
  <2> QED
    BY <1>9, <1>10, <2>1, <2>2, SendFacts, Facts, StepTypeOK
<1>13. InSync' /\ SizeKnown'
  BY <1>0, <1>9, <1>11, Facts, SendFacts, StepInSync
<1>14. written[req.addr] = NULL
  BY <1>0, SendFacts DEF EepromInv, WordUnderWay
<1>15. Kept'
  <2>1. ASSUME NEW a \in Addresses, written'[a] # NULL
        PROVE  written'[a] = written[a] /\ gamepak_backup'[a] = gamepak_backup[a]
    <3>1. a # req.addr
      BY <1>9, <1>14, <2>1
    <3> HIDE DEF word
    <3> QED
      BY <1>7, <1>9, <3>1, Facts, DataAssumption
  <2> QED
    BY <2>1, Facts DEF Kept
<1>16. WordUnderWay'
  <2> SUFFICES ASSUME ~mixed, NEW k \in 0 .. WordBits - 1
               PROVE  gamepak_backup'[req.addr][k] = IF k < sent' - AddrEnd THEN req.word[k] ELSE 0
    BY <1>9, <1>14, SendFacts DEF WordUnderWay
  <2>1. gamepak_backup[req.addr][k] = IF k < k0 THEN req.word[k] ELSE 0
    BY <1>0, SendFacts DEF EepromInv, WordUnderWay
  <2>2. gamepak_backup'[req.addr] = word
    <3> HIDE DEF word
    <3> QED
      BY <1>3, <1>7, Facts
  <2>3. CASE k = k0
    <3>1. gamepak_backup[req.addr][k0] = 0
      BY <1>4, <2>1, <2>3
    <3>2. word[k] = b
      <4>1. word[k0] = MaxOf(gamepak_backup[req.addr][k0], b)
        BY <1>4, <1>6
      <4>2. MaxOf(0, b) = b
        BY <1>5 DEF MaxOf, Bits
      <4> QED
        BY <2>3, <3>1, <4>1, <4>2
    <3>3. k < sent' - AddrEnd
      BY <1>0, <1>9, <2>3
    <3> QED
      BY <1>5, <2>2, <2>3, <3>2, <3>3
  <2>4. CASE k # k0
    <3>1. word[k] = gamepak_backup[req.addr][k]
      BY <1>6, <2>4
    <3>2. k < sent' - AddrEnd <=> k < k0
      BY <1>0, <1>9, <2>4
    <3> QED
      BY <2>1, <2>2, <3>1, <3>2
  <2> QED
    BY <2>3, <2>4
<1> QED
  BY <1>12, <1>13, <1>15, <1>16 DEF EepromInv

LEMMA SendLast ==
  ASSUME EepromInv, Send, sent = WordEnd(req)
  PROVE  EepromInv'
<1>0. /\ sent \in Nat /\ AddrEnd \in Nat /\ 2 < AddrEnd /\ AddrEnd <= sent
      /\ WordBits \in Nat /\ 1 <= WordBits
      /\ req.op = "write" => sent = AddrEnd + WordBits
      /\ req.addr \in Addresses /\ req.addr \in AddrType
      /\ req.op = "write" => req.word \in WordType
  BY SendFacts, Facts, Ends, Lengths, RequestFields
<1>1. /\ eeprom_mode = IF req.op = "read" THEN "ADDRESS_FOOTER" ELSE "WRITE_FOOTER"
      /\ eeprom_address = req.addr
  BY <1>0, Facts, SendFacts DEF InStep
<1>2. WriteFooter
  BY <1>1 DEF Send, WriteEeprom, WriteBase, WriteAddress, WriteData, WriteIgnored
<1>3. /\ eeprom_counter' = 0
      /\ eeprom_mode' = IF req.op = "read" THEN "READ_HEADER" ELSE "BASE"
      /\ eeprom_buffer' = eeprom_buffer /\ eeprom_address' = eeprom_address
      /\ eeprom_address_length' = eeprom_address_length
      /\ gamepak_backup' = gamepak_backup
  BY <1>1, <1>2 DEF WriteFooter
<1>4. 0 \in 0 .. LongLen + WordBits /\ eeprom_mode' \in Modes
  BY <1>0, <1>3, Facts, Lengths DEF Modes
<1>5. CASE req.op = "read"
  <2>1. sent' = sent + 1 /\ req' = req /\ mixed' = mixed
    <3>1. req.op # "write"
      BY <1>5
    <3> QED
      BY <3>1, Zenon DEF Send
  <2>2. written' = written
    BY <1>5 DEF Send, Noted
  <2>3. InStep'
    BY <1>0, <1>1, <1>3, <1>5, <2>1, SendFacts, Facts DEF InStep, AnswerHeader
  <2>4. TypeOK'
    BY <1>3, <1>4, <2>1, <2>2, SendFacts, Facts, StepTypeOK
  <2>5. InSync' /\ SizeKnown'
    BY <1>0, <2>1, <2>3, Facts, SendFacts, StepInSync
  <2>6. Kept'
    BY <1>3, <2>2, Facts DEF Kept
  <2>7. WordUnderWay'
    BY <1>5, <2>1 DEF WordUnderWay
  <2> QED
    BY <2>4, <2>5, <2>6, <2>7 DEF EepromInv
<1>6. CASE req.op = "write"
  <2>1. sent' = 0 /\ req' = NULL /\ mixed' = FALSE
    BY <1>6, Zenon DEF Send
  <2>2. written' = IF mixed THEN written ELSE [written EXCEPT ![req.addr] = req.word]
    <3>1. sent + 1 # AddrEnd
      BY <1>0
    <3>2. sent = WordEnd(req)
      OBVIOUS
    <3>3. written' = Noted
      BY DEF Send
    <3> QED
      BY <1>6, <3>1, <3>2, <3>3 DEF Noted
  <2>3. InStep'
    BY <1>3, <1>6, <2>1, SendFacts DEF InStep
  <2>4. TypeOK'
    <3>1. written' \in [Addresses -> WordType \cup {NULL}]
      BY <1>0, <1>6, <2>2, Facts
    <3>2. mixed' \in BOOLEAN
      BY <2>1, Zenon
    <3> QED
      BY <1>3, <1>4, <2>1, <3>1, <3>2, SendFacts, Facts, StepTypeOK
  <2>5. InSync' /\ SizeKnown'
    BY <2>1, <2>3, Facts, SendFacts, StepInSync
  <2>6. Kept'
    <3>1. CASE mixed
      BY <1>3, <2>2, <3>1, Facts DEF Kept
    <3>2. CASE ~mixed
      <4>1. gamepak_backup[req.addr] = req.word
        <5>1. \A k \in 0 .. WordBits - 1 :
                gamepak_backup[req.addr][k] = IF k < sent - AddrEnd THEN req.word[k] ELSE 0
          BY <1>0, <1>6, <3>2, SendFacts DEF EepromInv, WordUnderWay
        <5>2. sent - AddrEnd = WordBits
          BY <1>0, <1>6
        <5>3. \A k \in 0 .. WordBits - 1 : gamepak_backup[req.addr][k] = req.word[k]
          BY <1>0, <5>1, <5>2
        <5>4. /\ gamepak_backup[req.addr] \in [0 .. WordBits - 1 -> Bits]
              /\ req.word \in [0 .. WordBits - 1 -> Bits]
          BY <1>0, <1>6, Facts DEF WordType
        <5>5. /\ gamepak_backup[req.addr] =
                   [k \in 0 .. WordBits - 1 |-> gamepak_backup[req.addr][k]]
              /\ req.word = [k \in 0 .. WordBits - 1 |-> req.word[k]]
          BY <5>4
        <5> QED
          BY <5>3, <5>5
      <4>2. \A a \in Addresses : written'[a] = IF a = req.addr THEN req.word ELSE written[a]
        BY <2>2, <3>2, Facts
      <4> QED
        BY <1>3, <4>1, <4>2, Facts DEF Kept
    <3> QED
      BY <3>1, <3>2
  <2>7. WordUnderWay'
    BY <2>1 DEF WordUnderWay
  <2> QED
    BY <2>4, <2>5, <2>6, <2>7 DEF EepromInv
<1> QED
  BY <1>5, <1>6, SendFacts

LEMMA SendStep ==
  ASSUME EepromInv, Send
  PROVE  EepromInv'
<1>1. /\ sent \in Nat /\ AddrEnd \in Nat /\ WordEnd(req) \in Nat
      /\ AddrEnd <= WordEnd(req) /\ sent <= WordEnd(req)
  BY SendFacts, Facts
<1> QED
  BY <1>1, SendCommand, SendAddress, SendWord, SendLast

----------------------------------------------------------------------------
(* Reading a bit: of the answer, or between requests.                      *)

LEMMA ReadKeeps ==
  ASSUME EepromInv, ReadEeprom, chip' = chip, slots' = slots, written' = written,
         mixed' = mixed, req' \in Requests \cup {NULL}, sent' \in Nat, got' \in Nat,
         InStep',
         req' # NULL => req' = req /\ sent' = sent
  PROVE  EepromInv'
<1>1. /\ eeprom_counter' \in 0 .. LongLen + WordBits
      /\ eeprom_mode' \in Modes
  <2>1. eeprom_counter \in 0 .. WordBits + LongLen /\ LongLen \in Nat /\ WordBits \in Nat
        /\ eeprom_mode \in Modes /\ 2 <= LongLen /\ 1 <= WordBits
    BY Facts, Lengths
  <2>2. CASE ReadData
    <3>1. req # NULL /\ AddrEnd \in Nat /\ 2 < AddrEnd /\ req \in Requests
          /\ WordEnd(req) \in Nat /\ AddrEnd <= WordEnd(req)
          /\ req.op \in {"read", "write"}
      BY <2>2, Facts, Ends, Lengths, RequestFields DEF ReadData, InStep
    <3>2. eeprom_counter = got - AnswerHeader /\ got < AnswerHeader + WordBits
      BY <2>2, <3>1, Facts DEF ReadData, InStep
    <3>3. eeprom_counter + 1 <= WordBits
      BY <2>1, <3>2, Facts DEF AnswerHeader
    <3> QED
      BY <2>1, <2>2, <3>3 DEF ReadData, Modes
  <2>3. CASE ReadHeader
    <3>1. req # NULL /\ AddrEnd \in Nat /\ 2 < AddrEnd /\ req \in Requests
          /\ WordEnd(req) \in Nat /\ AddrEnd <= WordEnd(req)
          /\ req.op \in {"read", "write"}
      BY <2>3, Facts, Ends, Lengths, RequestFields DEF ReadHeader, InStep
    <3>2. eeprom_counter = got /\ got < AnswerHeader
      BY <2>3, <3>1, Facts DEF ReadHeader, InStep
    <3> QED
      BY <2>1, <2>3, <3>2, Facts DEF ReadHeader, Modes, AnswerHeader, HeaderBits
  <2>4. CASE ReadNothing
    BY <2>1, <2>4 DEF ReadNothing
  <2> QED
    BY <2>2, <2>3, <2>4 DEF ReadEeprom
<1>2. /\ eeprom_size' = eeprom_size /\ eeprom_buffer' = eeprom_buffer
      /\ eeprom_address' = eeprom_address /\ eeprom_address_length' = eeprom_address_length
      /\ gamepak_backup' = gamepak_backup
  BY DEF ReadEeprom
<1>3. TypeOK'
  BY <1>1, <1>2, Facts, StepTypeOK
<1>4. InSync' /\ SizeKnown'
  BY <1>2, Facts, StepInSync
<1>5. Kept'
  BY <1>2, Facts DEF Kept
<1>6. WordUnderWay'
  <2>1. (AddrEnd)' = AddrEnd
    BY DEF AddrEnd
  <2> QED
    BY <1>2, <2>1 DEF EepromInv, WordUnderWay
<1> QED
  BY <1>3, <1>4, <1>5, <1>6 DEF EepromInv

LEMMA ReceiveStep ==
  ASSUME EepromInv, Receive
  PROVE  EepromInv'
<1>1. /\ req # NULL /\ req \in Requests /\ sent = WordEnd(req) + 1
      /\ chip' = chip /\ slots' = slots /\ written' = written /\ mixed' = mixed
      /\ ReadEeprom /\ eeprom_size' = eeprom_size /\ eeprom_address' = eeprom_address
  BY Facts DEF Receive, ReadEeprom
<1>2. /\ sent \in Nat /\ got \in Nat /\ WordBits \in Nat /\ 1 <= WordBits
      /\ AddrEnd \in Nat /\ WordEnd(req) \in Nat /\ 2 < AddrEnd /\ AddrEnd <= WordEnd(req)
      /\ req.op \in {"read", "write"}
  BY <1>1, Facts, Ends, Lengths, RequestFields
<1>3. /\ eeprom_size = chip /\ req.addr \in Words(chip) /\ req.op = "read"
      /\ got < AnswerHeader + WordBits /\ eeprom_address = req.addr
      /\ eeprom_mode = IF got < AnswerHeader THEN "READ_HEADER" ELSE "READ"
      /\ eeprom_counter = IF got < AnswerHeader THEN got ELSE got - AnswerHeader
  BY <1>1, <1>2, Facts DEF InStep
<1>4. CASE got < AnswerHeader
  <2>1. req' = req /\ sent' = sent /\ got' = got + 1
    BY <1>2, <1>4 DEF Receive, AnswerHeader
  <2>2. /\ eeprom_mode' = IF got + 1 = HeaderBits THEN "READ" ELSE "READ_HEADER"
        /\ eeprom_counter' = IF got + 1 = HeaderBits THEN 0 ELSE got + 1
    BY <1>1, <1>3, <1>4 DEF ReadEeprom, ReadData, ReadHeader, ReadNothing
  <2>3. InStep'
    <3>1. (Words(chip))' = Words(chip) /\ (AddrEnd)' = AddrEnd /\ (WordEnd(req))' = WordEnd(req)
      BY <1>1, <2>1 DEF Words, AddrEnd, WordEnd
    <3> QED
      BY <1>1, <1>2, <1>3, <1>4, <2>1, <2>2, <3>1 DEF InStep, AnswerHeader, HeaderBits
  <2> QED
    BY <1>1, <1>2, <2>1, <2>3, ReadKeeps
<1>5. CASE ~(got < AnswerHeader) /\ got + 1 # AnswerHeader + WordBits
  <2>1. req' = req /\ sent' = sent /\ got' = got + 1
    BY <1>2, <1>5 DEF Receive
  <2>2. eeprom_mode' = "READ" /\ eeprom_counter' = got - AnswerHeader + 1
    <3>1. eeprom_counter + 1 # WordBits
      BY <1>2, <1>3, <1>5 DEF AnswerHeader
    <3> QED
      BY <1>1, <1>3, <1>5, <3>1 DEF ReadEeprom, ReadData, ReadHeader, ReadNothing
  <2>3. InStep'
    <3>1. (Words(chip))' = Words(chip) /\ (AddrEnd)' = AddrEnd /\ (WordEnd(req))' = WordEnd(req)
      BY <1>1, <2>1 DEF Words, AddrEnd, WordEnd
    <3> QED
      BY <1>1, <1>2, <1>3, <1>5, <2>1, <2>2, <3>1 DEF InStep, AnswerHeader
  <2> QED
    BY <1>1, <1>2, <2>1, <2>3, ReadKeeps
<1>6. CASE ~(got < AnswerHeader) /\ got + 1 = AnswerHeader + WordBits
  <2>1. req' = NULL /\ sent' = 0 /\ got' = 0
    BY <1>6 DEF Receive
  <2>2. eeprom_mode' = "BASE" /\ eeprom_counter' = 0
    <3>1. eeprom_counter + 1 = WordBits
      BY <1>2, <1>3, <1>6 DEF AnswerHeader
    <3> QED
      BY <1>1, <1>3, <1>6, <3>1 DEF ReadEeprom, ReadData, ReadHeader, ReadNothing
  <2>3. InStep'
    BY <2>1, <2>2 DEF InStep
  <2> QED
    BY <1>1, <2>1, <2>3, ReadKeeps
<1> QED
  BY <1>4, <1>5, <1>6

LEMMA PollStep ==
  ASSUME EepromInv, Poll
  PROVE  EepromInv'
<1>1. /\ req = NULL /\ ReadEeprom /\ chip' = chip /\ slots' = slots
      /\ written' = written /\ mixed' = mixed
      /\ req' = req /\ sent' = sent /\ got' = got
  BY DEF Poll, guest
<1>2. sent = 0 /\ got = 0 /\ eeprom_mode = "BASE" /\ eeprom_counter = 0
  BY <1>1, Facts DEF InStep
<1>3. eeprom_mode' = "BASE" /\ eeprom_counter' = 0
  BY <1>1, <1>2 DEF ReadEeprom, ReadData, ReadHeader, ReadNothing
<1>4. InStep'
  BY <1>1, <1>2, <1>3 DEF InStep
<1> QED
  BY <1>1, <1>4, Facts, ReadKeeps

----------------------------------------------------------------------------
(* The host, and the beginning.                                            *)

LEMMA Erasing ==
  /\ Erased \in WordType
  /\ [a \in AddrType |-> Erased] \in [AddrType -> WordType]
  /\ [i \in 0 .. LongLen - 1 |-> 0] \in AddrType
  /\ NoBits \in [BufferBits -> Bits]
  /\ 0 \in 0 .. LongLen + WordBits /\ 0 \in 0 .. LongLen
BY LengthAssumption DEF Erased, WordType, AddrType, Bits, NoBits

LEMMA RestartFacts ==
  ASSUME EepromInv, Restart
  PROVE  /\ eeprom_size' = "SHORT" /\ eeprom_mode' = "BASE" /\ eeprom_mode' \in Modes
         /\ eeprom_address' \in AddrType
         /\ eeprom_counter' = 0 /\ eeprom_counter' \in 0 .. LongLen + WordBits
         /\ eeprom_buffer' = eeprom_buffer
         /\ eeprom_address_length' = eeprom_address_length
         /\ req' = NULL /\ sent' = 0 /\ got' = 0 /\ mixed' = FALSE /\ mixed' \in BOOLEAN
         /\ InStep' /\ WordUnderWay'
<1>1. mixed' = FALSE /\ mixed' \in BOOLEAN
  BY Zenon DEF Restart
<1>2. /\ eeprom_size' = "SHORT" /\ eeprom_mode' = "BASE" /\ eeprom_counter' = 0
      /\ req' = NULL /\ sent' = 0 /\ got' = 0
      /\ eeprom_buffer' = eeprom_buffer
      /\ eeprom_address_length' = eeprom_address_length
      /\ eeprom_address' \in AddrType
  BY Erasing DEF Restart, InitMemory
<1> QED
  BY <1>1, <1>2, Erasing DEF InStep, WordUnderWay, Modes

LEMMA ResetStep ==
  ASSUME EepromInv, Reset
  PROVE  EepromInv'
<1>1. /\ chip' = chip /\ slots' = slots /\ written' = written
      /\ gamepak_backup' = gamepak_backup /\ Restart
  BY DEF Reset
<1>2. TypeOK'
  BY <1>1, RestartFacts, Facts, StepTypeOK
<1>3. InSync' /\ SizeKnown'
  BY <1>1, RestartFacts, Facts, StepInSync
<1>4. Kept'
  BY <1>1, Facts DEF Kept
<1> QED
  BY <1>1, <1>2, <1>3, <1>4, RestartFacts DEF EepromInv

LEMMA LoadROMStep ==
  ASSUME EepromInv, LoadROM
  PROVE  EepromInv'
<1>1. /\ chip' \in {"SHORT", "LONG"} /\ slots' = {} /\ Restart
      /\ gamepak_backup' = [a \in AddrType |-> Erased]
      /\ written' = [a \in Addresses |-> Erased]
  BY DEF LoadROM
<1>2. TypeOK'
  <2>1. Machine' \in Machines
    BY <1>1, RestartFacts, Facts DEF Machine, Machines
  <2>2. gamepak_backup' \in [AddrType -> WordType] /\ written' \in [Addresses -> WordType \cup {NULL}]
    BY <1>1, Erasing
  <2>3. mixed' \in BOOLEAN
    BY <1>1, RestartFacts
  <2> QED
    BY <1>1, <2>1, <2>2, <2>3 DEF TypeOK
<1>3. Follows(Machine)' /\ Machine'.size = "SHORT"
  <2>1. sent' = 0 /\ AddrEnd' \in Nat /\ 2 <= AddrEnd'
    BY <1>1, RestartFacts, LengthAssumption DEF AddrEnd, Length
  <2> QED
    BY <1>1, <2>1, RestartFacts, FlatNext DEF Machine
<1>4. InSync' /\ SizeKnown'
  BY <1>1, <1>3 DEF InSync, SizeKnown
<1>5. Kept'
  BY <1>1, DataAssumption DEF Kept
<1> QED
  BY <1>1, <1>2, <1>4, <1>5, RestartFacts DEF EepromInv

LEMMA SaveStateStep ==
  ASSUME EepromInv, SaveState
  PROVE  EepromInv'
<1>1. /\ slots' = {Machine} /\ chip' = chip /\ registers' = registers
      /\ gamepak_backup' = gamepak_backup /\ guest' = guest
      /\ written' = written /\ mixed' = mixed
  BY DEF SaveState
<1>2. Machine' = Machine
  BY <1>1 DEF Machine, registers, guest
<1>3. TypeOK'
  <2>1. mixed' \in BOOLEAN
    BY <1>1, Facts, Zenon
  <2> QED
    BY <1>1, <1>2, <2>1, Facts DEF TypeOK
<1>4. Follows(Machine)'
  BY <1>1, <1>2, Facts DEF InSync, Follows, AtCommand, AtAddress, AfterAddress, WordEnd, AddrEnd
<1>5. InSync' /\ SizeKnown'
  BY <1>1, <1>2, <1>4, Facts DEF InSync, SizeKnown
<1>6. Kept'
  BY <1>1, Facts DEF Kept
<1>7. WordUnderWay'
  <2>1. (AddrEnd)' = AddrEnd
    BY <1>1 DEF AddrEnd
  <2> QED
    BY <1>1, <2>1 DEF EepromInv, WordUnderWay, guest
<1> QED
  BY <1>3, <1>5, <1>6, <1>7 DEF EepromInv

LEMMA LoadStateStep ==
  ASSUME EepromInv, LoadState
  PROVE  EepromInv'
<1>1. PICK s \in slots :
        /\ eeprom_size' = s.size
        /\ eeprom_mode' = s.mode
        /\ eeprom_counter' = s.counter
        /\ eeprom_buffer' = s.buffer
        /\ eeprom_address' = s.address
        /\ eeprom_address_length' = s.length
        /\ req' = s.req
        /\ sent' = s.sent
        /\ got' = s.got
        /\ mixed' \in BOOLEAN
        /\ mixed' <=> s.mode \in {"WRITE", "WRITE_FOOTER"}
        /\ written' = IF mixed' THEN [written EXCEPT ![s.req.addr] = NULL] ELSE written
  BY Zenon DEF LoadState
<1>2. chip' = chip /\ gamepak_backup' = gamepak_backup /\ slots' = slots
  BY DEF LoadState
<1>3. s \in Machines /\ Follows(s) /\ (s.size = "LONG" => chip = "LONG")
  BY Facts DEF TypeOK, InSync, SizeKnown
<1>4. Machine' = s
  BY <1>1, <1>3 DEF Machine, Machines
<1>5. mixed' \in BOOLEAN
  BY <1>1
<1>6. written' \in [Addresses -> WordType \cup {NULL}]
  BY <1>1, Facts
<1>7. TypeOK'
  BY <1>2, <1>3, <1>4, <1>5, <1>6, Facts DEF TypeOK
<1>8. Follows(Machine)'
  BY <1>2, <1>3, <1>4 DEF Follows, AtCommand, AtAddress, AfterAddress, WordEnd, AddrEnd
<1>9. ASSUME NEW t \in slots
      PROVE  Follows(t)'
  BY <1>2, <1>9, Facts DEF InSync, Follows, AtCommand, AtAddress, AfterAddress, WordEnd, AddrEnd
<1>10. InSync' /\ SizeKnown'
  BY <1>2, <1>3, <1>4, <1>8, <1>9, Facts DEF InSync, SizeKnown
<1>11. Kept'
  <2>1. \A a \in Addresses : written'[a] # NULL => written'[a] = written[a]
    BY <1>1, Facts
  <2> QED
    BY <1>2, <2>1, Facts DEF Kept
(* A write that is loaded past its address is loaded as mixed.             *)
<1>12. WordUnderWay'
  <2> SUFFICES ASSUME s.req # NULL, s.req.op = "write", AddrEnd <= s.sent
               PROVE  mixed' /\ written'[s.req.addr] = NULL
    BY <1>1, <1>2 DEF WordUnderWay, AddrEnd
  <2>1. /\ s.req \in Requests /\ s.sent \in Nat /\ AddrEnd \in Nat /\ 2 < AddrEnd
        /\ WordEnd(s.req) \in Nat /\ s.req.addr \in Addresses
    BY <1>3, Facts, Ends, Lengths, RequestFields DEF Machines
  <2>2. AfterAddress(s) /\ s.sent <= WordEnd(s.req)
    BY <1>3, <2>1 DEF Follows
  <2>3. s.mode \in {"WRITE", "WRITE_FOOTER"}
    BY <2>1, <2>2 DEF AfterAddress
  <2> QED
    BY <1>1, <2>1, <2>3, Facts
<1> QED
  BY <1>7, <1>10, <1>11, <1>12 DEF EepromInv

LEMMA Beginning == Init => EepromInv
<1> SUFFICES ASSUME Init
             PROVE  EepromInv
  OBVIOUS
<1>1. mixed = FALSE /\ mixed \in BOOLEAN
  BY Zenon DEF Init
<1>2. TypeOK
  <2>1. Machine \in Machines
    BY Erasing DEF Init, Machine, Machines, Modes
  <2>2. gamepak_backup \in [AddrType -> WordType] /\ written \in [Addresses -> WordType \cup {NULL}]
    BY Erasing DEF Init
  <2> QED
    BY <1>1, <2>1, <2>2 DEF Init, TypeOK
<1>3. Follows(Machine) /\ Machine.size = "SHORT"
  BY DEF Init, Follows, Machine
<1>4. InSync /\ SizeKnown
  BY <1>3 DEF Init, InSync, SizeKnown
<1>5. Kept
  BY DataAssumption DEF Init, Kept
<1>6. WordUnderWay
  BY DEF Init, WordUnderWay
<1> QED
  BY <1>2, <1>4, <1>5, <1>6 DEF EepromInv

LEMMA Stuttering ==
  ASSUME EepromInv, UNCHANGED vars
  PROVE  EepromInv'
<1>1. /\ chip' = chip /\ registers' = registers /\ gamepak_backup' = gamepak_backup
      /\ guest' = guest /\ slots' = slots /\ written' = written /\ mixed' = mixed
  BY DEF vars
<1>2. Machine' = Machine
  BY <1>1 DEF Machine, registers, guest
<1>3. TypeOK'
  <2>1. mixed' \in BOOLEAN
    BY <1>1, Facts, Zenon
  <2> QED
    BY <1>1, <1>2, <2>1, Facts DEF TypeOK
<1>4. InSync' /\ SizeKnown'
  <2>1. ASSUME NEW t \in {Machine} \cup slots
        PROVE  Follows(t)'
    BY <1>1, <2>1, Facts DEF InSync, Follows, AtCommand, AtAddress, AfterAddress, WordEnd, AddrEnd
  <2> QED
    BY <1>1, <1>2, <2>1, Facts DEF InSync, SizeKnown
<1>5. Kept'
  BY <1>1, Facts DEF Kept
<1>6. WordUnderWay'
  BY <1>1 DEF EepromInv, WordUnderWay, guest, AddrEnd
<1> QED
  BY <1>3, <1>4, <1>5, <1>6 DEF EepromInv

----------------------------------------------------------------------------
(* What is proved: the invariant of write_eeprom and read_eeprom.          *)
THEOREM EepromInvariant == Spec => []EepromInv
<1>1. EepromInv /\ [Next]_vars => EepromInv'
  BY StartStep, SendStep, ReceiveStep, PollStep, ResetStep, LoadROMStep, SaveStateStep,
     LoadStateStep, Stuttering DEF Next
<1> QED
  BY <1>1, Beginning, PTL DEF Spec

(* The variables of write_eeprom keep their types.                         *)
THEOREM EepromTypes == Spec => []TypeOK
<1>1. EepromInv => TypeOK
  BY DEF EepromInv
<1> QED
  BY <1>1, EepromInvariant, PTL

(* write_eeprom and read_eeprom are always at the bit where the guest is.  *)
THEOREM StaysInSync == Spec => []InSync
<1>1. EepromInv => InSync
  BY DEF EepromInv
<1> QED
  BY <1>1, EepromInvariant, PTL

(* A word that write_eeprom has taken stays in gamepak_backup.             *)
THEOREM WordsStay == Spec => []Kept
<1>1. EepromInv => Kept
  BY DEF EepromInv
<1> QED
  BY <1>1, EepromInvariant, PTL

(* read_eeprom answers with what was written, bit by bit.                  *)
THEOREM Answers == Spec => []AnswersRight
<1>1. EepromInv => AnswersRight
  <2> SUFFICES ASSUME EepromInv
               PROVE  AnswersRight
    OBVIOUS
  <2>1. req = NULL => ReadValue = 1
    BY Facts DEF InStep, ReadValue
  <2>2. ASSUME req # NULL, sent > WordEnd(req)
        PROVE  IF got < AnswerHeader THEN ReadValue = 0
               ELSE written[req.addr] # NULL => ReadValue = written[req.addr][got - AnswerHeader]
    <3>1. /\ req \in Requests /\ sent \in Nat /\ AddrEnd \in Nat /\ WordEnd(req) \in Nat
          /\ 2 < AddrEnd /\ AddrEnd <= WordEnd(req) /\ req.addr \in Addresses
      BY <2>2, Facts, Ends, Lengths, RequestFields
    <3>2. /\ eeprom_address = req.addr
          /\ eeprom_mode = IF got < AnswerHeader THEN "READ_HEADER" ELSE "READ"
          /\ eeprom_counter = IF got < AnswerHeader THEN got ELSE got - AnswerHeader
      BY <2>2, <3>1, Facts DEF InStep
    <3> QED
      BY <3>1, <3>2, Facts DEF ReadValue, Kept
  <2> QED
    BY <2>1, <2>2 DEF AnswersRight
<1> QED
  BY <1>1, EepromInvariant, PTL

=============================================================================
