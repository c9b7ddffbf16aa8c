---------------------------- MODULE FrameReaders ----------------------------
(***************************************************************************)
(* The readers of redirector-client.  HIDSocketReader, ScreenDataChannel   *)
(* and TouchAndPenMsgReader read structures of one size ("fixed"): their   *)
(* Workloops differ in the structure only.  AudioSocketReader reads what   *)
(* OnAudioFormatInfodataReceive of projector/AudioSource.cpp sends, a size *)
(* and as many bytes ("audio").  Socket::Recv gives them any part of what  *)
(* they ask for and the network has brought.  What they read was sent by a *)
(* TcpChannel, whose writer loses what send() does not take.               *)
(*                                                                         *)
(* A behaviour has one reader, or the projector's RdpStreamingParser: the  *)
(* two ends of a channel read streams of their own.                        *)
(***************************************************************************)
EXTENDS RdpStreamingParser

CONSTANTS FrameSize,  \* sizeof the structure, of the fixed readers
          BufSize     \* what AudioSocketReader allocates for a message, 1000

ASSUME FrameAssumption == FrameSize \in Nat \ {0} /\ BufSize \in Nat

VARIABLES
    kind,    \* whose behaviour this is
    rd,      \* the reader: pc, size, what buf holds, and the first frame
             \* whose size came in pieces, 0 if none
    frames,  \* frames sent up to the first of which bytes were lost, ...
    gone,    \* ... how many were sent from that one on, ...
    wire,    \* ... and the stream of their bytes, ...
    at,      \* ... how many of which were read
    got      \* the frames handed to OnDataReceivedEvent

readerVars == <<kind, rd, frames, gone, wire, at, got>>

InitReaders ==
    /\ Init
    /\ kind \in {"parser", "fixed", "audio"}
    /\ rd = [pc |-> IF kind = "audio" THEN "size" ELSE "frame",
             size |-> IF kind = "audio" THEN 0 ELSE FrameSize,
             buf |-> <<>>, short |-> 0]
    /\ frames = <<>> /\ gone = 0 /\ wire = <<>> /\ at = 0 /\ got = <<>>
-----------------------------------------------------------------------------
\* The projector's channel sends a structure, or a size and its bytes.
Sendable(m) == kind = "audio" \/ (kind = "fixed" /\ Len(m) = FrameSize)
Frame(m) == IF kind = "audio" THEN Header(Len(m)) \o m ELSE m

SendFrame(m) ==
    /\ Len(frames) < MaxMsgs /\ gone = 0 /\ Sendable(m)
    /\ frames' = Append(frames, m)
    /\ wire' = wire \o Frame(m)
    /\ UNCHANGED <<vars, kind, gone, rd, at, got>>

\* send() takes only the beginning of a package, which begins and ends anywhere
\* in the frame: its bytes i + 1 .. j are not sent.
SendFrameShort(m, i, j) ==
    /\ Len(frames) + gone < MaxMsgs /\ Sendable(m)
    /\ i < j \/ gone > 0
    /\ wire' = wire \o (SubSeq(Frame(m), 1, i) \o SubSeq(Frame(m), j + 1, Len(Frame(m))))
    /\ gone' = gone + 1
    /\ UNCHANGED <<vars, kind, frames, rd, at, got>>

\* Socket::Recv of n bytes where `want' are asked for
Takes(n, want) == n \in 1 .. Min2(want, Len(wire) - at) /\ at' = at + n
Taken(n) == SubSeq(wire, at + 1, at + n)

\* Recv throws: the connection has ended or was cancelled, or, with an empty
\* frame, nothing was asked for and recv returned 0.  All readers end by it.
RecvThrows ==
    /\ kind # "parser" /\ rd.pc \in {"frame", "size"}
    /\ rd' = [rd EXCEPT !.pc = "ended"]
    /\ UNCHANGED <<vars, kind, frames, gone, wire, at, got>>

\* AudioSocketReader: one Recv into `size', which was 0, of whatever length it
\* turns out.  It is not compared with what buf has room for.
ReadSize(n) ==
    /\ rd.pc = "size" /\ Takes(n, HeaderSize)
    /\ LET size == PayloadLength([i \in 1 .. HeaderSize |-> IF i <= n THEN Taken(n)[i] ELSE 0])
       IN  rd' = [pc |-> IF size = 0 THEN "ended" ELSE "frame", size |-> size, buf |-> <<>>,
                  short |-> IF rd.short = 0 /\ n < HeaderSize THEN Len(got) + 1 ELSE rd.short]
    /\ UNCHANGED <<vars, kind, frames, gone, wire, got>>

\* A mutant: a whole frame is asked for, whatever buf holds already.
ReadFrameAnew(n) ==
    /\ kind # "parser" /\ rd.pc = "frame" /\ Takes(n, rd.size)
    /\ LET buf == rd.buf \o Taken(n)
       IN  \/ /\ Len(buf) >= rd.size /\ got' = Append(got, buf)
              /\ rd' = [rd EXCEPT !.buf = <<>>, !.pc = IF kind = "audio" THEN "size" ELSE "frame"]
           \/ /\ Len(buf) < rd.size /\ UNCHANGED got
              /\ rd' = [rd EXCEPT !.buf = buf]
    /\ UNCHANGED <<vars, kind, frames, gone, wire>>

\* one turn of the loop that fills buf, of which AudioSocketReader may write more
\* than it has allocated: what the program does then is anybody's guess
ReadFrame(n) ==
    /\ kind # "parser" /\ rd.pc = "frame" /\ Takes(n, rd.size - Len(rd.buf))
    /\ LET buf == rd.buf \o Taken(n)
           overrun == kind = "audio" /\ Len(buf) > BufSize
       IN  \/ /\ overrun /\ UNCHANGED got
              /\ rd' = [rd EXCEPT !.pc = "overrun"]
           \/ /\ ~overrun /\ Len(buf) = rd.size /\ got' = Append(got, buf)
              /\ rd' = [rd EXCEPT !.buf = <<>>, !.pc = IF kind = "audio" THEN "size" ELSE "frame"]
           \/ /\ ~overrun /\ Len(buf) # rd.size /\ UNCHANGED got
              /\ rd' = [rd EXCEPT !.buf = buf]
    /\ UNCHANGED <<vars, kind, frames, gone, wire>>

NextReaders ==
    \/ kind = "parser" /\ Next /\ UNCHANGED readerVars
    \/ \E m \in Messages :
          \/ SendFrame(m)
          \/ \E i, j \in 0 .. Len(Frame(m)) : i <= j /\ SendFrameShort(m, i, j)
    \/ RecvThrows
    \/ \E n \in 1 .. Len(wire) : ReadSize(n) \/ ReadFrame(n)

SpecReaders == InitReaders /\ [][NextReaders]_<<vars, readerVars>>
-----------------------------------------------------------------------------
\* Frame k was sent whole, as were those before it, and the size of none of
\* them came in two pieces, of which AudioSocketReader takes the second for the
\* start of the frame.
Sure(k) == k <= Len(frames) /\ (rd.short = 0 \/ k < rd.short)

\* However the stream is cut the handlers get the frames that were sent, in
\* order and whole, up to the first that was sent short or whose size came in
\* pieces; until then nothing else, and every frame whose last byte was read,
\* unless an empty one has ended the reader.  And as long as the frames are
\* those, AudioSocketReader writes past its buffer only if the frame is itself
\* longer than that.
FramesDelivered ==
    /\ \A k \in 1 .. Len(got) : Sure(k) => got[k] = frames[k]
    /\ gone = 0 /\ rd.short = 0 =>
          /\ Len(got) <= Len(frames)
          /\ at = Len(wire) /\ rd.pc \notin {"ended", "overrun"} => Len(got) = Len(frames)
    /\ rd.pc = "overrun" /\ Sure(Len(got) + 1) => Len(frames[Len(got) + 1]) > BufSize
=============================================================================
