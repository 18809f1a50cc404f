-------------------------------- MODULE Wire --------------------------------
(***************************************************************************)
(* The framing layer (src/protocol/frame.rs): read_message on the bytes    *)
(* that a broker has written, which arrive in any portions.  The peer may  *)
(* close the connection at any time, inside a frame too.                   *)
(***************************************************************************)
EXTENDS Primitives

CONSTANT MaxMessageSize   \* max_message_size of the client

ASSUME MaxMessageSizeAssumption == MaxMessageSize \in Nat \ {0}

VARIABLES open,    \* the peer has not closed the connection
          stream,  \* bytes on their way to the client
          phase,   \* where read_message is: "length", "skip", "body", "returned",
                   \* or "dead" once the worker that calls it has stopped
          left,    \* len while reading the body, to_read while skipping
          buf,     \* size of the buffer read_message has allocated
          frame,   \* what read_message returned
          due      \* history: the messages written and not yet taken by the worker

wire_vars == <<open, stream, phase, left, buf, frame, due>>

WireInit ==
    /\ open = TRUE
    /\ stream = <<>>
    /\ phase = "length"
    /\ left = 0
    /\ buf = 0
    /\ frame = <<>>
    /\ due = <<>>

\* write_message: the length, then the message.
Frame(message) == WriteInt(Len(message), 4) \o message

Frames(messages) == Joined([i \in DOMAIN messages |-> Frame(messages[i])])

\* The peer writes messages.
Write(messages) ==
    /\ open
    /\ stream' = stream \o Frames(messages)
    /\ due' = due \o messages
    /\ UNCHANGED <<open, phase, left, buf, frame>>

\* read_message returns; Null stands for NegativeMessageSize and MessageTooLarge.
Return(result) ==
    /\ phase' = "returned"
    /\ left' = 0
    /\ buf' = 0
    /\ frame' = result

\* Variant of SkipStep: always a full buffer.
SkipStepFull(to_read) == MaxMessageSize

\* The size the skip buffer is resized to before read_exact fills it.
SkipStep(to_read) == Min({MaxMessageSize, to_read})

\* Variant of ReadPrefix: MessageTooLarge is returned without skipping.
ReadPrefixNoSkip ==
    LET read == ReadInt(stream, 0, 4)
    IN  /\ phase = "length"
        /\ read.pos = 4
        /\ stream' = SubSeq(stream, 5, Len(stream))
        /\ IF read.val < 0 \/ read.val > MaxMessageSize THEN Return(Null)
           ELSE phase' = "body" /\ left' = read.val /\ buf' = read.val /\ frame' = <<>>
        /\ UNCHANGED <<open, due>>

\* read_message: the length, and the choice between reading the message and
\* skipping it.
ReadPrefix ==
    LET read == ReadInt(stream, 0, 4)
    IN  /\ phase = "length"
        /\ read.pos = 4
        /\ stream' = SubSeq(stream, 5, Len(stream))
        /\ IF read.val < 0 THEN Return(Null)
           ELSE /\ left' = read.val
                /\ IF read.val > MaxMessageSize
                   THEN phase' = "skip" /\ buf' = SkipStep(read.val)
                   ELSE phase' = "body" /\ buf' = read.val
                /\ frame' = <<>>
        /\ UNCHANGED <<open, due>>

\* One round of `while to_read > 0'; the last one returns MessageTooLarge.
Skip ==
    /\ phase = "skip"
    /\ Len(stream) >= buf
    /\ stream' = SubSeq(stream, buf + 1, Len(stream))
    /\ IF left > buf
       THEN left' = left - buf /\ buf' = SkipStep(left') /\ UNCHANGED <<phase, frame>>
       ELSE Return(Null)
    /\ UNCHANGED <<open, due>>

\* The body has arrived completely.
ReadMessage ==
    /\ phase = "body"
    /\ Len(stream) >= left
    /\ stream' = SubSeq(stream, left + 1, Len(stream))
    /\ Return(SubSeq(stream, 1, left))
    /\ UNCHANGED <<open, due>>

\* read_exact meets the end of the stream: the worker poisons the connection.
ReadFails ==
    /\ ~open
    /\ phase \in {"length", "skip", "body"}
    /\ Len(stream) < (IF phase = "length" THEN 4 ELSE buf)
    /\ phase' = "dead"
    /\ left' = 0
    /\ buf' = 0
    /\ UNCHANGED <<open, stream, frame, due>>

\* The peer closes; what it had not written yet is lost.
Close ==
    /\ open
    /\ open' = FALSE
    /\ \E n \in 0..Len(stream) : stream' = SubSeq(stream, 1, n)
    /\ UNCHANGED <<phase, left, buf, frame, due>>

\* The caller takes the message or the error, and then reads on or stops.
Take(next) ==
    /\ phase = "returned"
    /\ phase' = next
    /\ frame' = <<>>
    /\ due' = Tail(due)
    /\ UNCHANGED <<open, stream, left, buf>>

\* What read_message makes of a message.
Received(message) == IF Len(message) > MaxMessageSize THEN Null ELSE message

\* read_message returns the messages that were written, byte for byte and in their
\* order, an error in place of each that is too large; and whatever became of a message
\* it leaves the stream at the start of the next one ("We need to seek so that next
\* message is readable").
StaysInSync ==
    phase = "returned" =>
        /\ due # <<>>
        /\ frame = Received(Head(due))
        /\ open => stream = Frames(Tail(due))

-----------------------------------------------------------------------------
(* The framing layer by itself: a peer that writes any messages whose      *)
(* length is an Int32, and a caller that may read on after an error.       *)

Writable(message) == Len(message) < Base * Byte * Byte * Byte

WireNext ==
    \/ \E messages \in Seq(Seq(0..Byte - 1)) :
           (\A i \in DOMAIN messages : Writable(messages[i])) /\ Write(messages)
    \/ ReadPrefix \/ Skip \/ ReadMessage \/ ReadFails
    \/ \E next \in {"length", "dead"} : Take(next)
    \/ Close

WireSpec == WireInit /\ [][WireNext]_wire_vars
=============================================================================
