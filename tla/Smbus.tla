-------------------------------- MODULE Smbus --------------------------------
(***************************************************************************)
(* SMBus transfers made of I2C messages (i2c_smbus_xfer_emulated() and the *)
(* functions above it in linux_i2c.c) against a chip that keeps what is    *)
(* written to a command code and gives it back.  One byte of a transfer    *)
(* that carries a packet error code (PEC) may be damaged on the wire.      *)
(*                                                                         *)
(*   mem      the bytes the chip keeps for each command (external)         *)
(*   written  what the last successful write of each command was asked to  *)
(*            store, by the caller of the API (history)                    *)
(*   last     the last call: what was read, and where                      *)
(*   fits     its messages are no longer than msgbuf0 and msgbuf1          *)
(*   calls    calls so far; one that reads changes nothing and is the last *)
(***************************************************************************)
EXTENDS Integers, Sequences, SequencesExt, Bitwise

CONSTANTS
    Bytes,              \* values of data bytes
    Commands,           \* command codes
    Addr,               \* address of the chip
    I2C_SMBUS_BLOCK_MAX,
    MaxLength,          \* lengths callers pass: more than fits
    MaxWrites,          \* bound: writes before a read
    Damages             \* what a damaged byte is xor'ed with

VARIABLES mem, written, last, fits, calls

smbusVars == <<mem, written, last, fits, calls>>

BYTE == 1000                        \* the slot of transfers without a command
Slots == Commands \cup {BYTE}
Nothing == <<>>

-----------------------------------------------------------------------------
(* The packet error code: crc8() of one byte is a table; POLY << 3 is      *)
(* 0x8380.                                                                 *)
crc8(data) ==
    LET bit[i \in 0..8] ==
            IF i = 0 THEN data
            ELSE LET d == bit[i - 1]
                 IN ((IF d >= 32768 THEN d ^^ 33664 ELSE d) * 2) % 65536
    IN bit[8] \div 256

CrcTable == [b \in 0..255 |-> crc8(b * 256)]
XorTable == [a \in 0..255 |-> [b \in 0..255 |-> a ^^ b]]
i2c_smbus_pec(crc, bytes) ==
    LET pec[i \in 0..Len(bytes)] == IF i = 0 THEN crc ELSE CrcTable[XorTable[pec[i - 1]][bytes[i]]]
    IN pec[Len(bytes)]

(* i2c_8bit_addr_from_msg() is part of the code. *)
AddrByte(read) == Addr * 2 + (IF read THEN 1 ELSE 0)
i2c_smbus_msg_pec(pec, read, bytes) == i2c_smbus_pec(pec, <<AddrByte(read)>> \o bytes)

-----------------------------------------------------------------------------
(* The messages: bytes to write, or a number of bytes to read; with        *)
(* I2C_M_RECV_LEN the first byte read says how many follow.                *)
W(bytes) == [read |-> FALSE, bytes |-> bytes, len |-> Len(bytes), recv |-> FALSE]
R(n) == [read |-> TRUE, bytes |-> <<>>, len |-> n, recv |-> FALSE]
Recv == [R(1) EXCEPT !.recv = TRUE]
Invalid == <<>>

Low(word) == word % 256
High(word) == word \div 256
Word(bytes) == bytes[1] + 256 * bytes[2]

(* data->block: its length in front *)
TooLong(block) == block[1] > I2C_SMBUS_BLOCK_MAX

Messages(size, read, command, data) ==
    CASE size = "quick" -> <<IF read THEN R(0) ELSE W(<<>>)>>
      [] size = "byte" -> <<IF read THEN R(1) ELSE W(<<command>>)>>
      [] size = "byte_data" -> IF read THEN <<W(<<command>>), R(1)>> ELSE <<W(<<command, data>>)>>
      [] size = "word_data" -> IF read THEN <<W(<<command>>), R(2)>>
                               ELSE <<W(<<command, Low(data), High(data)>>)>>
      [] size = "proc_call" -> <<W(<<command, Low(data), High(data)>>), R(2)>>
      [] size = "block_data" -> IF read THEN <<W(<<command>>), Recv>>
                                ELSE IF TooLong(data) THEN Invalid
                                ELSE <<W(<<command>> \o data)>>
      [] size = "block_proc_call" -> IF TooLong(data) THEN Invalid
                                     ELSE <<W(<<command>> \o data), Recv>>
      [] size = "i2c_block_data" -> IF read THEN <<W(<<command>>), R(data[1])>>
                                    ELSE IF TooLong(data) THEN Invalid
                                    ELSE <<W(<<command>> \o Tail(data))>>

HasPec(size) == size \notin {"quick", "i2c_block_data"}

(* A lone write ends with the code of its bytes; a last message that reads *)
(* has one byte more.                                                      *)
OneMore(final) ==
    IF final.read THEN [final EXCEPT !.len = @ + 1]
    ELSE W(Append(final.bytes, i2c_smbus_msg_pec(0, FALSE, final.bytes)))
WithPec(msgs) == Append(Front(msgs), OneMore(Last(msgs)))

Partial(msgs) == IF Len(msgs) = 2 THEN i2c_smbus_msg_pec(0, FALSE, msgs[1].bytes) ELSE 0

(* i2c_smbus_check_pec(): the last byte against the code of the others. *)
CheckPecMutant(partial, got) == TRUE
CheckPec(partial, got) == Last(got) = i2c_smbus_msg_pec(partial, TRUE, Front(got))

(* What the caller gets out of the bytes read. *)
Result(size, data, got) ==
    CASE size \in {"byte", "byte_data"} -> got[1]
      [] size \in {"word_data", "proc_call"} -> Word(got)
      [] size = "i2c_block_data" -> SubSeq(got, 1, data[1])
      [] size \in {"block_data", "block_proc_call"} -> SubSeq(got, 1, got[1] + 1)
      [] OTHER -> Nothing

-----------------------------------------------------------------------------
(* The controller and the chip (external).  A damaged byte: its direction, *)
(* place and what it is xor'ed with; the length a chip sends stays whole,  *)
(* or the code would be looked for in another place.                       *)
NoDamage == [dir |-> "none", at |-> 0, by |-> 0]
Wounds(pec) ==
    {NoDamage} \cup
    (IF pec THEN [dir : {"write", "read"}, at : 1..(I2C_SMBUS_BLOCK_MAX + 3), by : Damages] ELSE {})
Damaged(bytes, dir, wound) ==
    IF wound.dir = dir /\ wound.at \in DOMAIN bytes
    THEN [bytes EXCEPT ![wound.at] = XorTable[@][wound.by]] ELSE bytes

Padded(bytes, n) == [i \in 1..n |-> IF i \in DOMAIN bytes THEN bytes[i] ELSE 255]

(* Bytes the chip sends for a message that reads n of its own bytes. *)
Kept(size, heard) ==
    CASE size = "byte" -> mem[BYTE]
      [] size \in {"proc_call", "block_proc_call"} -> Reverse(Tail(heard))
      [] heard # <<>> /\ heard[1] \in Commands -> mem[heard[1]]
      [] OTHER -> <<>>
ProcBlock(heard) == <<heard[2]>> \o Reverse(SubSeq(heard, 3, Len(heard)))
Sends(size, heard) == IF size = "block_proc_call" THEN ProcBlock(heard) ELSE Kept(size, heard)

(* i2c_transfer(): whether it succeeds, the bytes read and those written.  *)
Written(heard, pec) ==
    [ok |-> ~pec \/ i2c_smbus_msg_pec(0, FALSE, heard) = 0, got |-> <<>>, heard |-> heard]

Count(final, own) ==
    IF final.recv /\ own # <<>> /\ own[1] <= I2C_SMBUS_BLOCK_MAX THEN own[1] ELSE 0
Before(heard) == IF heard = <<>> THEN 0 ELSE i2c_smbus_msg_pec(0, FALSE, heard)
Reply(body, heard, pec) ==
    IF pec THEN Append(body, i2c_smbus_msg_pec(Before(heard), TRUE, body)) ELSE body
Hurt(final, reply, wound) ==
    IF final.recv /\ wound.at = 1 THEN reply ELSE Damaged(reply, "read", wound)
Answered(final, own, heard, pec, wound) ==
    [ok |-> final.recv => Count(final, own) > 0, heard |-> heard,
     got |-> LET n == final.len + Count(final, own) - (IF pec THEN 1 ELSE 0)
             IN Hurt(final, Reply(Padded(own, n), heard, pec), wound)]

Exchange(size, final, heard, pec, wound) ==
    IF final.read THEN Answered(final, Sends(size, heard), heard, pec, wound)
    ELSE Written(heard, pec)

Transfer(size, msgs, pec, wound) ==
    Exchange(size, Last(msgs),
             IF msgs[1].read THEN <<>> ELSE Damaged(msgs[1].bytes, "write", wound), pec, wound)

-----------------------------------------------------------------------------
(* i2c_smbus_xfer_emulated() *)
Refused(status, heard) == [status |-> status, value |-> Nothing, heard |-> heard]

Finish(size, data, plain, pec, done) ==
    IF ~done.ok THEN Refused("eio", <<>>)
    ELSE IF ~Last(plain).read THEN [status |-> "ok", value |-> Nothing, heard |-> done.heard]
    ELSE IF pec /\ ~CheckPec(Partial(plain), done.got) THEN Refused("ebadmsg", done.heard)
    ELSE [status |-> "ok", heard |-> done.heard,
          value |-> Result(size, data, IF pec THEN Front(done.got) ELSE done.got)]

Emulated(size, data, plain, pec, wound) ==
    IF plain = Invalid THEN Refused("einval", <<>>)
    ELSE Finish(size, data, plain, pec,
                Transfer(size, IF pec THEN WithPec(plain) ELSE plain, pec, wound))

Xfer(size, read, command, data, client_pec, wound) ==
    Emulated(size, data, Messages(size, read, command, data), client_pec /\ HasPec(size), wound)

(* msgbuf0 and msgbuf1 hold the messages. *)
Room(m) == m.len + (IF m.recv THEN I2C_SMBUS_BLOCK_MAX ELSE 0)
FitBuffers(msgs) ==
    /\ Room(msgs[1]) <= I2C_SMBUS_BLOCK_MAX + 3
    /\ Len(msgs) = 2 => Room(msgs[2]) <= I2C_SMBUS_BLOCK_MAX + 2
Fits(size, read, command, data, pec) ==
    LET plain == Messages(size, read, command, data)
    IN plain # Invalid => FitBuffers(IF pec /\ HasPec(size) THEN WithPec(plain) ELSE plain)

-----------------------------------------------------------------------------
(* The functions drivers call.  Lengths beyond a block are cut. *)
Cut(values, length) == SubSeq(values, 1, IF length > I2C_SMBUS_BLOCK_MAX THEN I2C_SMBUS_BLOCK_MAX ELSE length)
Block(values) == <<Len(values)>> \o values

Blocks == UNION {[1..n -> Bytes] : n \in 0..MaxLength}
Words == {Word(<<l, h>>) : l, h \in Bytes}

Store(size, bytes) ==
    mem' = IF size = "byte" THEN [mem EXCEPT ![BYTE] = bytes]
           ELSE [mem EXCEPT ![bytes[1]] = Tail(bytes)]
Stored(api, size, slot, meant, pec, x) ==
    IF x.status = "ok"
    THEN /\ written' = [written EXCEPT ![slot] = [api |-> api, value |-> meant]]
         /\ Store(size, IF pec /\ HasPec(size) THEN Front(x.heard) ELSE x.heard)
    ELSE UNCHANGED <<written, mem>>

WriteOf(api, size, slot, command, data, meant) ==
    /\ last.api = "none" /\ calls < MaxWrites /\ calls' = calls + 1
    /\ \E pec \in BOOLEAN : \E wound \in Wounds(pec /\ HasPec(size)) :
          /\ Stored(api, size, slot, meant, pec, Xfer(size, FALSE, command, data, pec, wound))
          /\ fits' = Fits(size, FALSE, command, data, pec)
    /\ UNCHANGED last

i2c_smbus_write_byte == \E v \in Bytes : WriteOf("byte", "byte", BYTE, v, Nothing, v)
i2c_smbus_write_byte_data ==
    \E c \in Commands, v \in Bytes : WriteOf("byte_data", "byte_data", c, c, v, v)
i2c_smbus_write_word_data ==
    \E c \in Commands, v \in Words : WriteOf("word_data", "word_data", c, c, v, v)
i2c_smbus_write_block_data ==
    \E c \in Commands, v \in Blocks :
        WriteOf("block_data", "block_data", c, c, Block(Cut(v, Len(v))), Cut(v, Len(v)))
i2c_smbus_write_i2c_block_data ==
    \E c \in Commands, v \in Blocks :
        WriteOf("i2c_block_data", "i2c_block_data", c, c, Block(Cut(v, Len(v))), Cut(v, Len(v)))

(* i2c_smbus_xfer() by drivers that make the block themselves *)
i2c_smbus_xfer_write ==
    \E c \in Commands, v \in Blocks : WriteOf("block_data", "block_data", c, c, Block(v), v)

(* The caller of a block read gets the data without its length. *)
Out(size, v) == IF size \in {"block_data", "block_proc_call"} THEN Tail(v) ELSE v

Answer(api, size, slot, asked, hurt, x) ==
    [api |-> api, slot |-> slot, status |-> x.status, asked |-> asked, hurt |-> hurt,
     value |-> IF x.status = "ok" THEN Out(size, x.value) ELSE Nothing]

ReadOf(api, size, slot, command, data, asked) ==
    /\ last.api = "none"
    /\ \E pec \in BOOLEAN : \E wound \in Wounds(pec /\ HasPec(size)) :
          /\ last' = Answer(api, size, slot, asked, wound # NoDamage,
                            Xfer(size, TRUE, command, data, pec, wound))
          /\ fits' = Fits(size, TRUE, command, data, pec)
    /\ UNCHANGED <<mem, written, calls>>

i2c_smbus_read_byte == ReadOf("byte", "byte", BYTE, 0, Nothing, 0)
i2c_smbus_read_byte_data ==
    \E c \in Commands : ReadOf("byte_data", "byte_data", c, c, Nothing, 0)
i2c_smbus_read_word_data ==
    \E c \in Commands : ReadOf("word_data", "word_data", c, c, Nothing, 0)
i2c_smbus_read_block_data ==
    \E c \in Commands : ReadOf("block_data", "block_data", c, c, Nothing, 0)
i2c_smbus_read_i2c_block_data ==
    \E c \in Commands, n \in 0..MaxLength :
        LET length == IF n > I2C_SMBUS_BLOCK_MAX THEN I2C_SMBUS_BLOCK_MAX ELSE n
        IN ReadOf("i2c_block_data", "i2c_block_data", c, c, <<length>>, length)
i2c_smbus_process_call ==
    \E c \in Commands, v \in Words : ReadOf("proc_call", "proc_call", c, c, v, v)
i2c_smbus_xfer_block_call ==
    \E c \in Commands, v \in Blocks :
        ReadOf("block_proc_call", "block_proc_call", c, c, Block(v), v)

(* i2c_probe_func_quick_read() *)
i2c_probe_func_quick_read == ReadOf("quick", "quick", BYTE, 0, Nothing, 0)

-----------------------------------------------------------------------------
NotWritten == [api |-> "none", value |-> Nothing]

SmbusInit ==
    /\ mem = [s \in Slots |-> <<>>] /\ written = [s \in Slots |-> NotWritten]
    /\ last = [api |-> "none", slot |-> BYTE, status |-> "ok", value |-> Nothing, asked |-> 0,
               hurt |-> FALSE]
    /\ fits = TRUE /\ calls = 0

SmbusNext ==
    \/ i2c_smbus_write_byte \/ i2c_smbus_write_byte_data \/ i2c_smbus_write_word_data
    \/ i2c_smbus_write_block_data \/ i2c_smbus_write_i2c_block_data \/ i2c_smbus_xfer_write
    \/ i2c_smbus_read_byte \/ i2c_smbus_read_byte_data \/ i2c_smbus_read_word_data
    \/ i2c_smbus_read_block_data \/ i2c_smbus_read_i2c_block_data
    \/ i2c_smbus_process_call \/ i2c_smbus_xfer_block_call \/ i2c_probe_func_quick_read

SmbusSpec == SmbusInit /\ [][SmbusNext]_smbusVars

-----------------------------------------------------------------------------
(* A read that succeeds gives what the last successful write stored, also  *)
(* when a byte of a checked transfer was damaged: a damaged write is not   *)
(* stored and a damaged read not returned.                                 *)
ReadsBack ==
    last.status = "ok" /\ last.api = written[last.slot].api =>
        LET v == written[last.slot].value
        IN IF last.api = "i2c_block_data"
           THEN \A i \in DOMAIN last.value : i \in DOMAIN v => last.value[i] = v[i]
           ELSE last.value = v

(* A transfer whose bytes all arrived is not refused for its code, whoever *)
(* of chip and driver computed it over one message or over two.            *)
CleanIsAccepted == ~last.hurt => last.status # "ebadmsg"

(* A process call gives the chip's answer to what was sent. *)
AnswerOfCall ==
    last.status = "ok" =>
        /\ last.api = "proc_call" => last.value = (last.asked \div 256) + 256 * (last.asked % 256)
        /\ last.api = "block_proc_call" => last.value = Reverse(last.asked)

(* "the caller guarantees that this buffer can hold up to 32 bytes in      *)
(* addition to the initial length byte sent by the slave (plus, if used,   *)
(* the SMBus PEC)": no message is longer than its buffer.                  *)
InBuffers == fits
=============================================================================
