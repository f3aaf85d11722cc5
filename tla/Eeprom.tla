------------------------------- MODULE Eeprom -------------------------------
(***************************************************************************)
(* The serial EEPROM of a game pak (memory.c): the guest sends a command,  *)
(* an address and a word bit by bit, and reads a word bit by bit; write_   *)
(* eeprom and read_eeprom follow it with one mode and one counter.  There  *)
(* are chips with short and with long addresses; which it is, is detected  *)
(* from the length of the DMA that carries a request.                      *)
(*                                                                         *)
(* The guest is a part of the model: it sends well-formed requests, by DMA *)
(* (nothing comes between the bits) or by its own loop, and the host may   *)
(* reset, save and load in between.  Bit n of eeprom_buffer is bit         *)
(* 7 - n % 8 of its byte n / 8.  A word's address is its LongLen bits, so  *)
(* those of a chip with short addresses begin with zeros.                  *)
(*                                                                         *)
(* Left out: the write-out that a complete word schedules (for the other   *)
(* chips it is the module Backup).                                         *)
(***************************************************************************)
EXTENDS Integers

CONSTANTS
  ShortLen, LongLen,  \* bits of an address: 6 and 14
  CommandPos,         \* where a command's two bits go in eeprom_buffer: 6
  WordBits,           \* 64
  Addresses,          \* the words that guests use
  Contents,           \* the words that guests write
  NULL

Bits     == {0, 1}
WordType == [0 .. WordBits - 1 -> Bits]
AddrType == [0 .. LongLen - 1 -> Bits]

ASSUME LengthAssumption ==
  /\ ShortLen \in Nat \ {0} /\ LongLen \in Nat /\ ShortLen < LongLen
  /\ CommandPos \in Nat /\ CommandPos + 1 < LongLen
  /\ WordBits \in Nat \ {0}
ASSUME DataAssumption ==
  /\ Addresses \subseteq AddrType
  /\ Contents \subseteq WordType
  /\ NULL \notin WordType

VARIABLES
  chip,            \* what the pak has: "SHORT" or "LONG" addresses
  eeprom_size,     \* what it is taken for
  eeprom_mode, eeprom_counter, eeprom_buffer, eeprom_address,
  eeprom_address_length,
  gamepak_backup,  \* by address
  req,             \* the request the guest is at, NULL if none
  sent, got,       \* bits of it sent, bits of the answer read
  slots,           \* the saved state, if there is one
  written,         \* the word that the guest last wrote at an address and
                   \* has not begun to write again, NULL if none (history)
  mixed            \* the write under way was loaded with a state, onto a
                   \* word that may be another one (history)

registers == <<eeprom_size, eeprom_mode, eeprom_counter, eeprom_buffer,
               eeprom_address, eeprom_address_length>>
guest     == <<req, sent, got>>
vars      == <<chip, registers, gamepak_backup, guest, slots, written, mixed>>

Modes == {"BASE", "READ", "READ_HEADER", "ADDRESS", "WRITE", "WRITE_ADDRESS",
          "ADDRESS_FOOTER", "WRITE_FOOTER"}

BufferBits == 0 .. LongLen - 1
NoBits     == [n \in BufferBits |-> 0]
NoWord     == [k \in 0 .. WordBits - 1 |-> 0]
Erased     == [k \in 0 .. WordBits - 1 |-> 1]

Length(size) == IF size = "SHORT" THEN ShortLen ELSE LongLen

(* Leading bits that a chip's addresses do not have.                       *)
Skipped(size) == LongLen - Length(size)

Words(c) == {a \in Addresses : \A i \in 0 .. Skipped(c) - 1 : a[i] = 0}

MaxOf(x, y) == IF x > y THEN x ELSE y

----------------------------------------------------------------------------
(* write_eeprom(b), by mode.                                               *)

(* eeprom_buffer with bit n set if b is.                                   *)
Shifted(n, b) == [eeprom_buffer EXCEPT ![n] = MaxOf(@, b)]

ModeOf(buffer) ==
  IF buffer[CommandPos] = 1
    THEN IF buffer[CommandPos + 1] = 1 THEN "ADDRESS" ELSE "WRITE_ADDRESS"
    ELSE eeprom_mode

WriteBase(b) ==
  LET buffer == Shifted(CommandPos + eeprom_counter, b)
  IN /\ eeprom_mode = "BASE"
     /\ IF eeprom_counter + 1 = 2
          THEN /\ eeprom_address_length' = Length(eeprom_size)
               /\ eeprom_counter' = 0
               /\ eeprom_mode' = ModeOf(buffer)
               /\ eeprom_buffer' = NoBits
          ELSE /\ eeprom_counter' = eeprom_counter + 1
               /\ eeprom_buffer' = buffer
               /\ UNCHANGED <<eeprom_mode, eeprom_address_length>>
     /\ UNCHANGED <<eeprom_size, eeprom_address, gamepak_backup>>

(* The address in the buffer, by the size detected now.                    *)
Decoded(buffer) ==
  [i \in 0 .. LongLen - 1 |->
    IF i < Skipped(eeprom_size) THEN 0 ELSE buffer[i - Skipped(eeprom_size)]]

MutCleared(a) == gamepak_backup

(* A word is cleared before its bits come.                                 *)
Cleared(a) == [gamepak_backup EXCEPT ![a] = NoWord]

WriteAddress(b) ==
  LET buffer == Shifted(eeprom_counter, b)
  IN /\ eeprom_mode \in {"ADDRESS", "WRITE_ADDRESS"}
     /\ IF eeprom_counter + 1 = eeprom_address_length
          THEN /\ eeprom_address' = Decoded(buffer)
               /\ eeprom_buffer' = NoBits
               /\ eeprom_counter' = 0
               /\ IF eeprom_mode = "ADDRESS"
                    THEN eeprom_mode' = "ADDRESS_FOOTER" /\ UNCHANGED gamepak_backup
                    ELSE eeprom_mode' = "WRITE" /\ gamepak_backup' = Cleared(Decoded(buffer))
          ELSE /\ eeprom_counter' = eeprom_counter + 1
               /\ eeprom_buffer' = buffer
               /\ UNCHANGED <<eeprom_address, eeprom_mode, gamepak_backup>>
     /\ UNCHANGED <<eeprom_size, eeprom_address_length>>

WriteData(b) ==
  /\ eeprom_mode = "WRITE"
  /\ gamepak_backup' =
       [gamepak_backup EXCEPT ![eeprom_address][eeprom_counter] = MaxOf(@, b)]
  /\ IF eeprom_counter + 1 = WordBits
       THEN eeprom_counter' = 0 /\ eeprom_mode' = "WRITE_FOOTER"
       ELSE eeprom_counter' = eeprom_counter + 1 /\ UNCHANGED eeprom_mode
  /\ UNCHANGED <<eeprom_size, eeprom_buffer, eeprom_address, eeprom_address_length>>

WriteFooter ==
  /\ eeprom_mode \in {"ADDRESS_FOOTER", "WRITE_FOOTER"}
  /\ eeprom_counter' = 0
  /\ eeprom_mode' = IF eeprom_mode = "ADDRESS_FOOTER" THEN "READ_HEADER" ELSE "BASE"
  /\ UNCHANGED <<eeprom_size, eeprom_buffer, eeprom_address, eeprom_address_length,
                 gamepak_backup>>

(* While an answer is read, what is written is ignored.                    *)
WriteIgnored ==
  /\ eeprom_mode \in {"READ", "READ_HEADER"}
  /\ UNCHANGED <<registers, gamepak_backup>>

WriteEeprom(b) ==
  WriteBase(b) \/ WriteAddress(b) \/ WriteData(b) \/ WriteFooter \/ WriteIgnored

----------------------------------------------------------------------------
(* read_eeprom: the bit it returns, and what it does.                      *)

ReadValue ==
  IF eeprom_mode = "BASE" THEN 1
  ELSE IF eeprom_mode = "READ" THEN gamepak_backup[eeprom_address][eeprom_counter]
  ELSE 0

MutHeaderBits == 3

HeaderBits == 4

ReadData ==
  /\ eeprom_mode = "READ"
  /\ IF eeprom_counter + 1 = WordBits
       THEN eeprom_counter' = 0 /\ eeprom_mode' = "BASE"
       ELSE eeprom_counter' = eeprom_counter + 1 /\ UNCHANGED eeprom_mode

ReadHeader ==
  /\ eeprom_mode = "READ_HEADER"
  /\ IF eeprom_counter + 1 = HeaderBits
       THEN eeprom_counter' = 0 /\ eeprom_mode' = "READ"
       ELSE eeprom_counter' = eeprom_counter + 1 /\ UNCHANGED eeprom_mode

ReadNothing ==
  /\ eeprom_mode \notin {"READ", "READ_HEADER"}
  /\ UNCHANGED <<eeprom_counter, eeprom_mode>>

ReadEeprom ==
  /\ ReadData \/ ReadHeader \/ ReadNothing
  /\ UNCHANGED <<eeprom_size, eeprom_buffer, eeprom_address, eeprom_address_length,
                 gamepak_backup>>

----------------------------------------------------------------------------
(* The guest.                                                              *)

Requests == [op : {"read"}, addr : Addresses, dma : BOOLEAN]
            \cup [op : {"write"}, addr : Addresses, word : Contents, dma : BOOLEAN]

ASSUME NullAssumption == NULL \notin Requests

(* The bits of a request: 1, then 1 to read or 0 to write, the address, to *)
(* write the word, and 0.  An answer is AnswerHeader bits and the word.    *)
AnswerHeader == 4

AddrEnd    == 2 + Length(chip)
WordEnd(r) == AddrEnd + (IF r.op = "write" THEN WordBits ELSE 0)

Bit(r, n) ==
  IF n < 2 THEN IF n = 0 \/ r.op = "read" THEN 1 ELSE 0
  ELSE IF n < AddrEnd THEN r.addr[Skipped(chip) + n - 2]
  ELSE IF n < WordEnd(r) THEN r.word[n - AddrEnd]
  ELSE 0

MutDetected(dma) == eeprom_size

(* Writing the control register of a DMA of 17 or 81 bits to the EEPROM    *)
(* makes it one with long addresses.                                       *)
Detected(dma) == IF dma /\ chip = "LONG" THEN "LONG" ELSE eeprom_size

(* init_memory leaves eeprom_buffer as it is: an address half sent may have *)
(* left a bit where the second of the next command goes.                   *)
CommandLeft == eeprom_buffer[CommandPos + 1] = 1

(* A guest that sends the bits itself has had the size detected before.    *)
(* What follows when a bit was left is not modelled: the next write would  *)
(* be taken for a read.                                                    *)
Start ==
  /\ req = NULL
  /\ ~CommandLeft
  /\ \E r \in Requests :
       /\ r.addr \in Words(chip)
       /\ ~r.dma => eeprom_size = chip
       /\ req' = r
       /\ eeprom_size' = Detected(r.dma)
  /\ UNCHANGED <<chip, eeprom_mode, eeprom_counter, eeprom_buffer, eeprom_address,
                 eeprom_address_length, gamepak_backup, sent, got, slots, written,
                 mixed>>

(* What the guest counts on: nothing while it overwrites the word, the     *)
(* word when all of the request is sent.                                   *)
Noted ==
  IF req.op = "write" /\ sent + 1 = AddrEnd THEN [written EXCEPT ![req.addr] = NULL]
  ELSE IF req.op = "write" /\ sent = WordEnd(req) /\ ~mixed
    THEN [written EXCEPT ![req.addr] = req.word]
  ELSE written

Send ==
  /\ req # NULL
  /\ sent <= WordEnd(req)
  /\ WriteEeprom(Bit(req, sent))
  /\ written' = Noted
  /\ IF sent = WordEnd(req) /\ req.op = "write"
       THEN req' = NULL /\ sent' = 0 /\ mixed' = FALSE
       ELSE sent' = sent + 1 /\ UNCHANGED <<req, mixed>>
  /\ UNCHANGED <<chip, got, slots>>

Receive ==
  /\ req # NULL
  /\ sent = WordEnd(req) + 1
  /\ ReadEeprom
  /\ IF got + 1 = AnswerHeader + WordBits
       THEN req' = NULL /\ sent' = 0 /\ got' = 0
       ELSE got' = got + 1 /\ UNCHANGED <<req, sent>>
  /\ UNCHANGED <<chip, slots, written, mixed>>

(* Between requests the guest asks whether a write is done.                *)
Poll ==
  /\ req = NULL
  /\ ReadEeprom
  /\ UNCHANGED <<chip, guest, slots, written, mixed>>

----------------------------------------------------------------------------
(* The host.  A DMA is carried out in one step of the emulator, so the     *)
(* host only sees it before or after.                                      *)
BetweenBits ==
  req # NULL => (req.dma => (sent = 0 \/ (sent = WordEnd(req) + 1 /\ got = 0)))

Machine == [size |-> eeprom_size, mode |-> eeprom_mode, counter |-> eeprom_counter,
            buffer |-> eeprom_buffer, address |-> eeprom_address,
            length |-> eeprom_address_length, req |-> req, sent |-> sent,
            got |-> got]

InitMemory ==
  /\ eeprom_size' = "SHORT"
  /\ eeprom_mode' = "BASE"
  /\ eeprom_address' = [i \in 0 .. LongLen - 1 |-> 0]
  /\ eeprom_counter' = 0
  /\ UNCHANGED <<eeprom_buffer, eeprom_address_length>>

(* init_memory, and the guest starts anew.                                 *)
Restart ==
  /\ InitMemory
  /\ req' = NULL
  /\ sent' = 0
  /\ got' = 0
  /\ mixed' = FALSE

Reset ==
  /\ BetweenBits
  /\ Restart
  /\ UNCHANGED <<chip, gamepak_backup, slots, written>>

(* Another game pak, whose file is missing.                                *)
LoadROM ==
  /\ BetweenBits
  /\ Restart
  /\ chip' \in {"SHORT", "LONG"}
  /\ gamepak_backup' = [a \in AddrType |-> Erased]
  /\ written' = [a \in Addresses |-> Erased]
  /\ slots' = {}

(* A state holds the registers and the guest, not the EEPROM's contents.   *)
SaveState ==
  /\ BetweenBits
  /\ slots' = {Machine}
  /\ UNCHANGED <<chip, registers, gamepak_backup, guest, written, mixed>>

LoadState ==
  /\ BetweenBits
  /\ \E s \in slots :
       /\ eeprom_size' = s.size
       /\ eeprom_mode' = s.mode
       /\ eeprom_counter' = s.counter
       /\ eeprom_buffer' = s.buffer
       /\ eeprom_address' = s.address
       /\ eeprom_address_length' = s.length
       /\ req' = s.req
       /\ sent' = s.sent
       /\ got' = s.got
       /\ mixed' \in BOOLEAN
       /\ mixed' <=> s.mode \in {"WRITE", "WRITE_FOOTER"}
       /\ written' = IF mixed' THEN [written EXCEPT ![s.req.addr] = NULL] ELSE written
  /\ UNCHANGED <<chip, gamepak_backup, slots>>

(* The first game pak.                                                     *)
Init ==
  /\ chip \in {"SHORT", "LONG"}
  /\ eeprom_size = "SHORT"
  /\ eeprom_mode = "BASE"
  /\ eeprom_counter = 0
  /\ eeprom_buffer = NoBits
  /\ eeprom_address = [i \in 0 .. LongLen - 1 |-> 0]
  /\ eeprom_address_length = 0
  /\ gamepak_backup = [a \in AddrType |-> Erased]
  /\ req = NULL
  /\ sent = 0
  /\ got = 0
  /\ slots = {}
  /\ written = [a \in Addresses |-> Erased]
  /\ mixed = FALSE

Next == Start \/ Send \/ Receive \/ Poll \/ Reset \/ LoadROM \/ SaveState \/ LoadState

Spec == Init /\ [][Next]_vars

----------------------------------------------------------------------------
Machines ==
  [size : {"SHORT", "LONG"}, mode : Modes, counter : 0 .. LongLen + WordBits,
   buffer : [BufferBits -> Bits], address : AddrType, length : 0 .. LongLen,
   req : Requests \cup {NULL}, sent : Nat, got : Nat]

(* eeprom_counter stays inside an address or a word and the buffer's bits  *)
(* are bits, in the machine and in the saved state.                        *)
TypeOK ==
  /\ chip \in {"SHORT", "LONG"}
  /\ Machine \in Machines
  /\ slots \subseteq Machines
  /\ gamepak_backup \in [AddrType -> WordType]
  /\ written \in [Addresses -> WordType \cup {NULL}]
  /\ mixed \in BOOLEAN

(* Where the chip is when s.sent bits of the request s.req were sent and   *)
(* s.got bits of its answer were read.                                     *)
AtCommand(s) ==
  /\ s.mode = "BASE"
  /\ s.counter = s.sent
  /\ s.buffer[CommandPos + 1] = 0
  /\ s.sent = 1 => s.buffer[CommandPos] = 1

AtAddress(s) ==
  /\ s.mode = IF s.req.op = "read" THEN "ADDRESS" ELSE "WRITE_ADDRESS"
  /\ s.counter = s.sent - 2
  /\ s.length = Length(chip)
  /\ s.buffer = [n \in BufferBits |->
                   IF n < s.sent - 2 THEN s.req.addr[Skipped(chip) + n] ELSE 0]

AfterAddress(s) ==
  /\ s.address = s.req.addr
  /\ s.mode = IF s.sent < WordEnd(s.req) THEN "WRITE"
              ELSE IF s.sent = WordEnd(s.req)
                THEN IF s.req.op = "read" THEN "ADDRESS_FOOTER" ELSE "WRITE_FOOTER"
              ELSE IF s.got < AnswerHeader THEN "READ_HEADER" ELSE "READ"
  /\ s.counter = IF s.sent < WordEnd(s.req) THEN s.sent - AddrEnd
                 ELSE IF s.got < AnswerHeader THEN s.got ELSE s.got - AnswerHeader

Follows(s) ==
  IF s.req = NULL THEN s.sent = 0 /\ s.got = 0 /\ s.mode = "BASE" /\ s.counter = 0
  ELSE /\ s.size = chip
       /\ s.req.addr \in Words(chip)
       /\ s.sent <= WordEnd(s.req) + (IF s.req.op = "read" THEN 1 ELSE 0)
       /\ s.got < AnswerHeader + WordBits
       /\ s.sent <= WordEnd(s.req) => s.got = 0
       /\ IF s.sent < 2 THEN AtCommand(s)
          ELSE IF s.sent < AddrEnd THEN AtAddress(s) ELSE AfterAddress(s)

(* The chip is where the guest thinks it is, after any interleaving of     *)
(* resets and states, and so is the one in the saved state.                *)
InSync == \A s \in {Machine} \cup slots : Follows(s)

(* What the guest wrote stays.                                             *)
Kept == \A a \in Addresses : written[a] # NULL => gamepak_backup[a] = written[a]

(* What it reads is what it wrote, and the answer to the question whether  *)
(* a write is done is yes.                                                 *)
AnswersRight ==
  /\ req = NULL => ReadValue = 1
  /\ req # NULL /\ sent > WordEnd(req) =>
       IF got < AnswerHeader THEN ReadValue = 0
       ELSE written[req.addr] # NULL => ReadValue = written[req.addr][got - AnswerHeader]
=============================================================================
