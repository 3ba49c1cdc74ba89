----------------------------- MODULE Q30Reader -----------------------------
(***************************************************************************)
(* The serial reader of the EEG headset (CognionicsQ30.ReadSerialRunnable) *)
(* and its packet parser (CognionicsQ30DataParser.parse).                  *)
(*                                                                         *)
(* The device sends packets of PacketSize bytes, the first of which is the *)
(* header 0xFF.  The reader throws away what it receives while sampling is *)
(* off and otherwise hands fixed-size blocks to the parser, which finds    *)
(* the packets in the byte stream and keeps an incomplete last packet for  *)
(* the next block.                                                         *)
(*                                                                         *)
(* A byte is <<packet number, position, is it 0xFF?>>; the bit layout of   *)
(* the channels inside a packet is left out.                               *)
(***************************************************************************)
EXTENDS Naturals, Sequences, SequencesExt

CONSTANTS
  PacketSize,   \* 96 in EegDeviceSpec
  ReadSize,     \* readSizeFromBuffer, a multiple of PacketSize in the code
  NumPackets,   \* bound: packets the device sends
  MaxFaults     \* bound: bytes lost or garbled on the way

ASSUME Q30Assumption ==
  /\ PacketSize \in Nat \ {0, 1}
  /\ ReadSize \in Nat \ {0}
  /\ NumPackets \in Nat
  /\ MaxFaults \in Nat

Byte(n, p) == <<n, p, p = 0>>
Garbled(b) == <<b[1], b[2], FALSE>>
IsHeader(b) == b[3]

VARIABLES
  sent,        \* bytes the device has sent so far
  faults,      \* of which lost or garbled
  rx,          \* bytes waiting in the USB driver
  firstRun,    \* isFirstRun
  sampling,    \* isStartSampling
  incomplete,  \* incompletePacket
  received,    \* history: all bytes given to the parser
  samples,     \* history: the packets the parser has returned
  paused       \* history: sampling has been switched off

vars == <<sent, faults, rx, firstRun, sampling, incomplete, received, samples, paused>>

Init ==
  /\ sent = 0
  /\ faults = 0
  /\ rx = <<>>
  /\ firstRun = TRUE
  /\ sampling = FALSE
  /\ incomplete = <<>>
  /\ received = <<>>
  /\ samples = <<>>
  /\ paused = FALSE

-----------------------------------------------------------------------------
(* The last header at or after position i of data.                         *)
LastHeader(data, i) ==
  CHOOSE j \in i .. Len(data) :
    IsHeader(data[j]) /\ \A k \in j + 1 .. Len(data) : ~IsHeader(data[k])

(* Fault: any header starts a packet, whatever stands where the next one   *)
(* should be.                                                              *)
ScanBlind(data) ==
  LET scan[i \in 1 .. Len(data) + PacketSize] ==
        IF i > Len(data) THEN [found |-> <<>>, tail |-> 0]
        ELSE IF ~IsHeader(data[i]) THEN scan[i + 1]
        ELSE IF i + PacketSize > Len(data)
             THEN [found |-> <<>>, tail |-> LastHeader(data, i)]
        ELSE [scan[i + PacketSize] EXCEPT
                !.found = <<SubSeq(data, i, i + PacketSize - 1)>> \o @]
  IN  scan[1]

(* The do-while loop at index i: a header starts a packet if another       *)
(* header stands PacketSize further on; if that place is beyond the data,  *)
(* the rest, from its last header on, is kept; otherwise go on with the    *)
(* next byte.  tail = 0: the loop ran off the end.                         *)
ScanAt(data, scan, i) ==
  IF i > Len(data) THEN [found |-> <<>>, tail |-> 0]
  ELSE IF ~IsHeader(data[i]) THEN scan[i + 1]
  ELSE IF i + PacketSize > Len(data)
       THEN [found |-> <<>>, tail |-> LastHeader(data, i)]
  ELSE IF IsHeader(data[i + PacketSize])
       THEN [found |-> <<SubSeq(data, i, i + PacketSize - 1)>> \o scan[i + PacketSize].found,
             tail  |-> scan[i + PacketSize].tail]
  ELSE scan[i + 1]

Scan(data) ==
  LET scan[i \in 1 .. Len(data) + 1] == ScanAt(data, scan, i)
  IN  scan[1]

(* Fault: the incomplete packet is not put in front of the new block.      *)
ParseAlone(block) ==
  LET result == Scan(block)
  IN  /\ samples' = samples \o result.found
      /\ incomplete' = IF result.tail = 0 THEN incomplete
                       ELSE SubSeq(block, result.tail, Len(block))

(* parse(iData): incompletePacket is put in front of the block and         *)
(* replaced only when a new incomplete packet is found.                    *)
Parse(block) ==
  LET data   == incomplete \o block
      result == Scan(data)
  IN  /\ samples' = samples \o result.found
      /\ incomplete' = IF result.tail = 0 THEN incomplete
                       ELSE SubSeq(data, result.tail, Len(data))

-----------------------------------------------------------------------------
NextByte == Byte(sent \div PacketSize, sent % PacketSize)

(* The device sends its next byte; the line may lose or garble it.         *)
DeviceSend ==
  /\ sent < NumPackets * PacketSize
  /\ sent' = sent + 1
  /\ \/ /\ rx' = Append(rx, NextByte)
        /\ UNCHANGED faults
     \/ /\ faults < MaxFaults
        /\ faults' = faults + 1
        /\ \/ rx' = rx
           \/ rx' = Append(rx, Garbled(NextByte))
  /\ UNCHANGED <<firstRun, sampling, incomplete, received, samples, paused>>

(* beginQueue, startSampling                                               *)
StartSampling ==
  /\ ~sampling
  /\ sampling' = TRUE
  /\ UNCHANGED <<sent, faults, rx, firstRun, incomplete, received, samples, paused>>

(* endQueue, stopSampling                                                  *)
StopSampling ==
  /\ sampling
  /\ sampling' = FALSE
  /\ paused' = TRUE
  /\ UNCHANGED <<sent, faults, rx, firstRun, incomplete, received, samples>>

(* The first bytes ever, and all bytes while sampling is off, are junk.    *)
ReadJunk ==
  /\ rx # <<>>
  /\ firstRun \/ ~sampling
  /\ firstRun' = FALSE
  /\ rx' = <<>>
  /\ UNCHANGED <<sent, faults, sampling, incomplete, received, samples, paused>>

(* More than ReadSize bytes wait: read exactly ReadSize and parse them.    *)
ReadBlock ==
  /\ ~firstRun /\ sampling
  /\ Len(rx) > ReadSize
  /\ received' = received \o SubSeq(rx, 1, ReadSize)
  /\ Parse(SubSeq(rx, 1, ReadSize))
  /\ rx' = SubSeq(rx, ReadSize + 1, Len(rx))
  /\ UNCHANGED <<sent, faults, firstRun, sampling, paused>>

Next == DeviceSend \/ StartSampling \/ StopSampling \/ ReadJunk \/ ReadBlock

Spec == Init /\ [][Next]_vars

-----------------------------------------------------------------------------
Bytes == (0 .. NumPackets - 1) \X (0 .. PacketSize - 1) \X BOOLEAN

TypeOK ==
  /\ sent \in 0 .. NumPackets * PacketSize
  /\ faults \in 0 .. MaxFaults
  /\ rx \in Seq(Bytes)
  /\ firstRun \in BOOLEAN
  /\ sampling \in BOOLEAN
  /\ incomplete \in Seq(Bytes) /\ Len(incomplete) <= PacketSize
  /\ received \in Seq(Bytes)
  /\ samples \in Seq(Seq(Bytes))
  /\ paused \in BOOLEAN

Packet(n) == [p \in 1 .. PacketSize |-> Byte(n, p - 1)]

(* Packet n arrived whole, and so did the header after it.                 *)
Arrived(n) == \E i \in 1 .. Len(received) - PacketSize :
  /\ SubSeq(received, i, i + PacketSize - 1) = Packet(n)
  /\ received[i + PacketSize] = Byte(n + 1, 0)

(* On a clean line, and without a pause, the samples are exactly the       *)
(* packets that arrived, in order, however the blocks cut the stream       *)
(* (CognionicsQ30DataParser.java:32-39, 67-99).                            *)
ExactlyWhatArrived ==
  faults = 0 /\ ~paused =>
    /\ samples = [i \in 1 .. Len(samples) |-> Packet(samples[1][1][1] + i - 1)]
    /\ {samples[i] : i \in DOMAIN samples} =
         {Packet(n) : n \in {m \in 0 .. NumPackets - 1 : Arrived(m)}}

(* Lost or garbled bytes elsewhere, and pauses of the sampling, never cost *)
(* a packet that arrived whole: the parser finds its way back to the next  *)
(* header (CognionicsQ30DataParser.java:44-49, 211-221).                   *)
NoArrivedPacketLost ==
  \A n \in 0 .. NumPackets - 1 : Arrived(n) => \E i \in DOMAIN samples : samples[i] = Packet(n)
=============================================================================
