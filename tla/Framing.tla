------------------------------ MODULE Framing ------------------------------
(***************************************************************************)
(* The framing seam of the UART links, written once in C (transport.c over *)
(* cobs.c) and once in Elixir (framing_cobs.ex over cobs.ex):              *)
(*     COBS(body \o CRC(body)), then a zero byte.                          *)
(* One line carries the frames of either encoder and both decoders listen  *)
(* to it: the hub takes each byte as it comes, the host takes whatever     *)
(* chunk has piled up since its last read.  Bytes may be lost, and noise   *)
(* may come between them.  A byte is a number up to Full, the code of a    *)
(* full COBS block, which is 0xFF in the code; the CRC is any function of  *)
(* the body.                                                               *)
(***************************************************************************)
EXTENDS Naturals, Sequences

CONSTANTS
    Full,      \* the largest byte
    CrcLen,    \* bytes of a CRC
    Crc(_),    \* the CRC of a body
    MaxBody,   \* FRAME_MAX_BODY
    Body,      \* the bodies that are sent
    MaxUnread, \* bound: bytes that wait for the host's read
    MaxFaults  \* bound: bytes lost or added

Byte == 0 .. Full

\* A byte holds a full block's code, a CRC is some bytes, a body fits some.
ASSUME SizeAssumption ==
    /\ Full \in Nat /\ Full > 1
    /\ CrcLen \in Nat \ {0} /\ MaxBody \in Nat \ {0}
    /\ MaxUnread \in Nat /\ MaxFaults \in Nat
ASSUME BodyAssumption == Body \subseteq Seq(Byte) \ {<<>>}
ASSUME CrcAssumption ==
    \A b \in Body : Crc(b) \in Seq(Byte) /\ Len(Crc(b)) = CrcLen

\* FRAME_MAX_WIRE: the code bytes and the delimiter come on top.
MaxWire ==
    MaxBody + CrcLen + ((MaxBody + CrcLen) \div (Full - 1)) + 2

\* A loop over s: what it has after each element, and at the end.  (The folds
\* of the libraries have no value for what lies between.)
Folding(Op(_, _), base, s) ==
    LET f[i \in 0 .. Len(s)] == IF i = 0 THEN base ELSE Op(f[i - 1], s[i])
    IN  f

Folded(Op(_, _), base, s) == Folding(Op, base, s)[Len(s)]

----------------------------------------------------------------------------
(* The host's encoder and decoder.                                         *)

\* COBS.enc: the blocks closed so far, each behind its code, and the open one.
Block(bytes) == <<Len(bytes) + 1>> \o bytes

EncodeByte(e, b) ==
    IF b = 0 THEN [out |-> e.out \o Block(e.cur), cur |-> <<>>]
    ELSE IF Len(e.cur) = Full - 2
      THEN [out |-> e.out \o Block(Append(e.cur, b)), cur |-> <<>>]
    ELSE [e EXCEPT !.cur = Append(@, b)]

EncodeStart == [out |-> <<>>, cur |-> <<>>]

HostEncode(data) ==
    LET e == Folded(EncodeByte, EncodeStart, data)
    IN  e.out \o Block(e.cur)

\* COBS.dec: the block at d.at; implied says that no zero precedes it, cut
\* that it points past the end of the run.
DecodeBlock(run, d) ==
    LET next == d.at + run[d.at] IN
    IF d.cut \/ d.at > Len(run) THEN d
    ELSE IF next - 1 > Len(run) THEN [d EXCEPT !.cut = TRUE]
    ELSE [at |-> next, cut |-> FALSE, implied |-> run[d.at] = Full,
          out |-> (IF d.implied THEN d.out ELSE Append(d.out, 0))
                  \o SubSeq(run, d.at + 1, next - 1)]

DecodeStart == [at |-> 1, cut |-> FALSE, implied |-> TRUE, out |-> <<>>]

\* A run has at most as many blocks as bytes.
HostBlocks(run) ==
    Folding(LAMBDA d, b : DecodeBlock(run, d), DecodeStart, run)

HostDecode(run) == HostBlocks(run)[Len(run)]

HostFrame(body) == HostEncode(body \o Crc(body))

\* What a run of bytes turns out to be.
Delivered(body) == [is |-> "body", body |-> body]
Dropped(why) == [is |-> why, body |-> <<>>]

\* verify/1 of a run that is not empty.
HostVerify(run) ==
    LET data == HostDecode(run).out
        n == Len(data) - CrcLen
    IN  IF HostDecode(run).cut THEN Dropped("cobs_truncated")
        ELSE IF n < 0 THEN Dropped("rx_drop")
        ELSE IF Crc(SubSeq(data, 1, n)) # SubSeq(data, n + 1, n + CrcLen)
          THEN Dropped("crc_fail")
        ELSE Delivered(SubSeq(data, 1, n))

\* split/2 and the verdicts of remove_framing: a zero ends a run; an empty one
\* is passed over.
ScanByte(s, b) ==
    IF b # 0 THEN [s EXCEPT !.rest = Append(@, b)]
    ELSE [rest |-> <<>>,
          verdicts |-> IF s.rest = <<>> THEN s.verdicts
                       ELSE Append(s.verdicts, HostVerify(s.rest))]

ScanStart == [verdicts |-> <<>>, rest |-> <<>>]

Scan(bytes) == Folded(ScanByte, ScanStart, bytes)

----------------------------------------------------------------------------
(* The hub's encoder and decoder.                                          *)

\* cobs_encode's buffer: at is the place of the open block's code byte.
Close(e) == [out |-> Append([e.out EXCEPT ![e.at] = e.code], 0),
             at |-> Len(e.out) + 1, code |-> 1]

(* Mutant: a full block is not closed. *)
StuffByteOpen(e, b) ==
    IF b = 0 THEN Close(e) ELSE [e EXCEPT !.out = Append(@, b), !.code = @ + 1]

StuffByte(e, b) ==
    LET put == [out |-> Append(e.out, b), at |-> e.at, code |-> e.code + 1]
    IN  IF b = 0 THEN Close(e)
        ELSE IF put.code = Full THEN Close(put)
        ELSE put

StuffStart == [out |-> <<0>>, at |-> 1, code |-> 1]

\* cobs_encode: nothing when the buffer has no room for it.
HubEncode(data, cap) ==
    LET e == Folded(StuffByte, StuffStart, data)
    IN  IF Len(e.out) > cap THEN <<>> ELSE [e.out EXCEPT ![e.at] = e.code]

(* Mutant: a full block stands for a zero too. *)
UnstuffByteZero(d, b) ==
    IF d.left > 0
      THEN [out |-> Append(d.out, b), left |-> d.left - 1, implied |-> d.implied]
    ELSE [out |-> IF d.implied THEN d.out ELSE Append(d.out, 0),
          left |-> b - 1, implied |-> FALSE]

\* cobs_decode, byte by byte: left is what the block still has to come.
UnstuffByte(d, b) ==
    IF d.left > 0
      THEN [out |-> Append(d.out, b), left |-> d.left - 1, implied |-> d.implied]
    ELSE [out |-> IF d.implied THEN d.out ELSE Append(d.out, 0),
          left |-> b - 1, implied |-> b = Full]

UnstuffStart == [out |-> <<>>, left |-> 0, implied |-> TRUE]

HubDecode(run, cap) ==
    LET d == Folded(UnstuffByte, UnstuffStart, run)
    IN  IF d.left > 0 \/ Len(d.out) > cap THEN <<>> ELSE d.out

\* transport_encode, short of the delimiter; nothing for a body that is too long.
HubFrame(body) ==
    IF Len(body) > MaxBody THEN <<>>
    ELSE HubEncode(body \o Crc(body), MaxWire - 1)

\* handle_frame of a run that is not empty; no body is empty.
HubVerify(run) ==
    LET data == HubDecode(run, MaxBody + CrcLen)
        n == Len(data) - CrcLen
    IN  IF n < 1 THEN <<>>
        ELSE IF Crc(SubSeq(data, 1, n)) # SubSeq(data, n + 1, n + CrcLen) THEN <<>>
        ELSE SubSeq(data, 1, n)

----------------------------------------------------------------------------
VARIABLES
    cur,     \* the body of the frame on the line
    toCome,  \* what is still to come of that frame
    buf,     \* the hub's TransportDecoder: buf, len
    onBody,  \* bodies the hub has handed up since the host last read
    drops,   \* what rx_drop of the hub has counted since then
    hostRun, \* the host's unfinished run
    unread,  \* bytes that wait for the host's read
    sync,    \* ghost: no byte has come since the last zero
    whole,   \* ghost: the frame began after a zero and is intact so far
    runs,    \* ghost: runs ended since the host last read
    over,    \* ghost: the hub's buffer has overflowed since then, or in this run
    faults

lineVars == <<cur, toCome, whole, faults>>
hubVars == <<buf, onBody, drops, sync, runs, over>>
hostVars == <<hostRun, unread>>
uartVars == <<lineVars, hubVars, hostVars>>

UartInit ==
    /\ cur = <<>> /\ toCome = <<>> /\ whole = FALSE /\ faults = 0
    /\ buf = <<>> /\ onBody = <<>> /\ drops = 0
    /\ sync = TRUE /\ runs = 0 /\ over = FALSE
    /\ hostRun = <<>> /\ unread = <<>>

\* A frame goes out, framed by the host or by a hub.
Send(b, framed) ==
    /\ toCome = <<>>
    /\ IF framed = <<>>
         THEN UNCHANGED <<cur, toCome, whole>>
         ELSE cur' = b /\ toCome' = Append(framed, 0) /\ whole' = sync
    /\ UNCHANGED <<faults, hubVars, hostVars>>

HostSends(b) == Send(b, HostFrame(b))
HubSends(b) == Send(b, HubFrame(b))

(* Mutant: a run that does not verify stays in the buffer. *)
FeedKept(b) ==
    LET body == HubVerify(buf) IN
    IF b # 0 THEN /\ buf' = IF Len(buf) < MaxWire THEN Append(buf, b) ELSE <<>>
                  /\ UNCHANGED <<onBody, drops, over>>
    ELSE /\ buf' = IF body = <<>> THEN buf ELSE <<>>
         /\ onBody' = IF body = <<>> THEN onBody ELSE Append(onBody, body)
         /\ UNCHANGED <<drops, over>>

(* Mutant: a run that does not verify is not counted. *)
FeedUncounted(b) ==
    LET body == HubVerify(buf) IN
    IF b # 0 THEN /\ buf' = IF Len(buf) < MaxWire THEN Append(buf, b) ELSE <<>>
                  /\ over' = (over \/ Len(buf) >= MaxWire) /\ UNCHANGED <<onBody, drops>>
    ELSE /\ buf' = <<>>
         /\ onBody' = IF buf = <<>> \/ body = <<>> THEN onBody ELSE Append(onBody, body)
         /\ UNCHANGED <<drops, over>>

(* Mutant: the buffer takes one byte too many. *)
FeedOverfull(b) ==
    /\ buf' = IF b = 0 THEN <<>>
              ELSE IF Len(buf) <= MaxWire THEN Append(buf, b) ELSE <<>>
    /\ UNCHANGED <<onBody, drops, over>>

\* transport_decoder_feed, with one byte.
Feed(b) ==
    \/ /\ b = 0 /\ buf = <<>>
       /\ UNCHANGED <<buf, onBody, drops, over>>
    \/ /\ b = 0 /\ buf # <<>>
       /\ LET body == HubVerify(buf) IN
            IF body = <<>> THEN drops' = drops + 1 /\ UNCHANGED onBody
                           ELSE onBody' = Append(onBody, body) /\ UNCHANGED drops
       /\ buf' = <<>> /\ UNCHANGED over
    \/ /\ b # 0 /\ Len(buf) < MaxWire
       /\ buf' = Append(buf, b) /\ UNCHANGED <<onBody, drops, over>>
    \/ /\ b # 0 /\ Len(buf) >= MaxWire
       /\ buf' = <<>> /\ drops' = drops + 1 /\ over' = TRUE
       /\ UNCHANGED onBody

\* A byte is at both receivers: the hub takes it, it waits for the host.
Take(b) ==
    /\ Len(unread) < MaxUnread
    /\ unread' = Append(unread, b)
    /\ Feed(b)
    /\ sync' = (b = 0)
    /\ runs' = IF b = 0 /\ ~sync THEN runs + 1 ELSE runs
    /\ UNCHANGED hostRun

\* The next byte of the frame has left the line.
Gone(intact) ==
    /\ toCome # <<>>
    /\ toCome' = Tail(toCome)
    /\ cur' = IF toCome' = <<>> THEN <<>> ELSE cur
    /\ whole' = (toCome' # <<>> /\ intact)

Arrive == Gone(whole) /\ Take(Head(toCome)) /\ UNCHANGED faults

LoseByte ==
    /\ faults < MaxFaults
    /\ faults' = faults + 1
    /\ Gone(FALSE)
    /\ UNCHANGED <<hubVars, hostVars>>

Noise(b) ==
    /\ faults < MaxFaults
    /\ faults' = faults + 1
    /\ Take(b)
    /\ whole' = FALSE
    /\ UNCHANGED <<cur, toCome>>

\* remove_framing on what has come.
HostRead ==
    /\ unread # <<>>
    /\ unread' = <<>>
    /\ hostRun' = Scan(hostRun \o unread).rest
    /\ onBody' = <<>> /\ drops' = 0 /\ runs' = 0
    /\ over' = (over /\ ~sync)
    /\ UNCHANGED <<lineVars, buf, sync>>

UartNext ==
    \/ \E b \in Body : HostSends(b) \/ HubSends(b)
    \/ Arrive \/ LoseByte
    \/ \E b \in Byte : Noise(b)
    \/ HostRead

UartSpec == UartInit /\ [][UartNext]_uartVars

----------------------------------------------------------------------------
Legal(body) == Len(body) \in 1 .. MaxBody

\* The hub's receive buffer is never written past its end, and holds no zero.
BufferFits == buf \in Seq(Byte \ {0}) /\ Len(buf) <= MaxWire

\* The types of the variables.
UartTypeOK ==
    /\ cur \in Body \cup {<<>>} /\ toCome \in Seq(Byte)
    /\ BufferFits
    /\ onBody \in Seq(Seq(Byte)) /\ drops \in Nat /\ runs \in Nat
    /\ hostRun \in Seq(Byte) /\ unread \in Seq(Byte)
    /\ sync \in BOOLEAN /\ whole \in BOOLEAN /\ over \in BOOLEAN
    /\ faults \in 0 .. MaxFaults

\* What the two codecs owe each other for a body that fits: one frame, without
\* a zero, that fits in the hub's buffer and that both take for that body.
Sound(b) ==
    LET frame == HostFrame(b) IN
    /\ frame = HubFrame(b)
    /\ frame # <<>> /\ frame \in Seq(Byte \ {0}) /\ Len(frame) < MaxWire
    /\ HubVerify(frame) = b /\ HostVerify(frame) = Delivered(b)

\* cobs.ex says that transport.c mirrors it exactly.
CodecsMirror == cur # <<>> /\ Legal(cur) => Sound(cur)

LastByte == toCome = <<0>> /\ toCome' = <<>> /\ unread' # unread /\ whole

\* A frame that is intact, after a zero that is intact, gets to the hub's
\* on_body, whatever came before: lost delimiters, noise, an overflow.
HubHearsIntact == [][LastByte /\ Legal(cur) => onBody' = Append(onBody, cur)]_uartVars

\* Both decoders hand up the same bodies, in the same order, of the lengths
\* that a hub can take, unless the hub's buffer overflowed: whatever chunks the
\* host reads the bytes in, with the zero in the middle of a chunk or the frame
\* over several.
TakeLegal(bodies, v) ==
    IF v.is = "body" /\ Legal(v.body) THEN Append(bodies, v.body) ELSE bodies

Heard == Scan(hostRun \o unread).verdicts
Reads == unread # <<>> /\ unread' = <<>>
DecodersAgree ==
    [][Reads => over \/ Folded(TakeLegal, <<>>, Heard) = onBody]_uartVars

\* Nothing is dropped silently: every run that ends gets one verdict on the
\* host, and hands up a body or counts a drop on the hub.
NoSilentLoss ==
    [][Reads => Len(Heard) = runs /\ (over \/ Len(onBody) + drops = runs)]_uartVars

=============================================================================
