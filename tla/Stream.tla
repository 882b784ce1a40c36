------------------------------- MODULE Stream -------------------------------
(***************************************************************************)
(* What WorldSession::InitializeHandler makes of a TCP stream.             *)
(*                                                                         *)
(* The client writes the messages 1, 2, ... one after the other.  A        *)
(* message is a serialized Meta: the field type_t, then the field stuff,   *)
(* each FieldLen bytes here, enough to be cut inside.  One                 *)
(* async_read_some returns any part of what has been written that fits     *)
(* into _buffer, and the handler takes it for one Meta.  Protocol Buffers  *)
(* parse any sequence of whole fields: of a repeated field the last one    *)
(* counts, a missing one has its default, and fields of another message    *)
(* are skipped; a field that is cut is an error.                           *)
(***************************************************************************)
EXTENDS Integers, Sequences, FiniteSetsExt

CONSTANTS
  N,           \* bound: the messages one client sends
  FieldLen,    \* bytes of a field
  BufferSize   \* bytes of _buffer, 4096

ASSUME SizesAssumption ==
  /\ N \in Nat /\ FieldLen \in Nat \ {0}
  /\ BufferSize \in Nat /\ BufferSize >= 2 * FieldLen    \* a message fits

Kinds  == {"create", "enter", "other", "unknown"}
MsgLen == 2 * FieldLen
Bytes  == 1 .. N * MsgLen
Blank  == 0     \* a byte of _buffer nothing was read into

VARIABLES
  script,    \* script[k]: the kind of message k
  sent,      \* the bytes the client has written
  got,       \* the bytes the session has read
  buffer,    \* _buffer: which byte of the stream is at each place
  st,        \* "read": waiting for data; "deaf": returned without; "closed"
  gplayer,   \* g_player is set, by this session or another
  handled,   \* the calls of the game logic: the messages whose type_t and whose
             \* stuff (0: none) it was given
  alone      \* each read so far returned exactly one message

vars == <<script, sent, got, buffer, st, gplayer, handled, alone>>

Init ==
  /\ script \in [1 .. N -> Kinds]
  /\ sent = 0 /\ got = 0
  /\ buffer = [i \in 1 .. BufferSize |-> Blank]
  /\ st = "read"
  /\ gplayer \in BOOLEAN
  /\ handled = <<>> /\ alone = TRUE

-----------------------------------------------------------------------------
(* Parsing.                                                                *)

IsType(b) == (b - 1) % MsgLen < FieldLen
Message(b) == (b - 1) \div MsgLen + 1

\* Where a field starts and where it ends.
IsFirst(b) == (b - 1) % FieldLen = 0
IsLast(b)  == b % FieldLen = 0

\* Mutant: all of _buffer is parsed, with what earlier reads left there.
WholeBuffer(n) == SelectSeq(buffer', LAMBDA b : b # Blank)

\* The bytes given to ParseFromArray.
Input(n) == SubSeq(buffer', 1, n)

\* ParseFromArray succeeds: nothing but whole fields.
Parses(bs) ==
  /\ IsFirst(bs[1]) /\ IsLast(bs[Len(bs)])
  /\ \A i \in 1 .. Len(bs) - 1 :
       bs[i + 1] = bs[i] + 1 \/ (IsLast(bs[i]) /\ IsFirst(bs[i + 1]))

\* The message the last of the bytes at places S belongs to; 0 if there is none.
LastOf(bs, S) == IF S = {} THEN 0 ELSE Message(bs[Max(S)])

\* meta.type_t(); 0 is the default, META_TYPE_C2S_BEGIN.
TypeOf(bs) == LastOf(bs, {i \in DOMAIN bs : IsType(bs[i])})

\* meta.stuff()
StuffOf(bs) == LastOf(bs, {i \in DOMAIN bs : ~IsType(bs[i])})

\* Mutant: MergeFromString, so an empty stuff leaves the prototype as it was.
MergedContent(bs) ==
  IF StuffOf(bs) = 0 /\ handled # <<>> THEN handled[Len(handled)][2] ELSE StuffOf(bs)

\* What the prototype holds after ParseFromString, which clears it first.
Content(bs) == StuffOf(bs)

-----------------------------------------------------------------------------
(* The session.                                                            *)

Write ==
  /\ sent < N * MsgLen
  /\ sent' = sent + MsgLen
  /\ UNCHANGED <<script, got, buffer, st, gplayer, handled, alone>>

\* Another session creates or loads the one Player.
OthersEnter ==
  /\ ~gplayer /\ gplayer' = TRUE
  /\ UNCHANGED <<script, sent, got, buffer, st, handled, alone>>

Handled(k, j) ==
  /\ handled' = Append(handled, <<k, j>>)
  /\ gplayer' = TRUE /\ st' = "read"

\* An early return.
Return == st' = "deaf" /\ UNCHANGED <<handled, gplayer>>

\* The kind of message a type_t announces; 0 is the default type, which no client
\* message has.
KindOf(k) == IF k = 0 THEN "unknown" ELSE script[k]

\* Mutant: a message without a Player is skipped, not a reason to return.
ActSkips(k, j) ==
  \/ KindOf(k) = "create" /\ (Handled(k, j) \/ Return)
  \/ KindOf(k) = "enter"  /\ IF gplayer THEN Return ELSE Handled(k, j)
  \/ KindOf(k) \notin {"create", "enter"}
       /\ IF gplayer THEN Handled(k, j) ELSE UNCHANGED <<handled, gplayer, st>>

\* The game logic of message k with the content of message j: it returns early when
\* the Player cannot be created, is there already, or is not there.
Act(k, j) ==
  \/ KindOf(k) = "create" /\ (Handled(k, j) \/ Return)
  \/ KindOf(k) = "enter"  /\ IF gplayer THEN Return ELSE Handled(k, j)
  \/ KindOf(k) \notin {"create", "enter"}
       /\ IF gplayer THEN Handled(k, j) ELSE Return

\* Mutant: a Meta that does not parse is dropped and the session reads on.
CloseNot == UNCHANGED <<handled, gplayer, st>>

Close == st' = "closed" /\ UNCHANGED <<handled, gplayer>>

\* Mutant: async_read, which waits until the buffer is full.
FullReads == {BufferSize} \cap 1 .. (sent - got)

\* How much one async_read_some may return.
Reads == 1 .. Min({BufferSize, sent - got})

\* Mutant: every type has a prototype.
HasPrototypeAny(k) == TRUE

\* GetMessage(): there is no prototype for the default type, nor for a type that is
\* not the client's to send.
HasPrototype(k) == KindOf(k) # "unknown"

\* message->ParseFromString(meta.stuff()) may fail for any stuff but the empty one: it
\* is malformed, or that of another type.  (No client message has a required field.)
StuffFails(j) == j # 0 /\ Close

\* async_read_some returns n bytes and InitializeHandler runs.
Receive(n) ==
  /\ st = "read"
  /\ buffer' = [i \in 1 .. BufferSize |-> IF i <= n THEN got + i ELSE buffer[i]]
  /\ got' = got + n
  /\ alone' = (alone /\ n = MsgLen)
  /\ IF Parses(Input(n)) /\ HasPrototype(TypeOf(Input(n)))
       THEN \/ Act(TypeOf(Input(n)), Content(Input(n)))
            \/ StuffFails(Content(Input(n)))
       ELSE Close
  /\ UNCHANGED <<script, sent>>

\* The connection fails: Close() on a read error, nothing if remote_endpoint()
\* throws before the error is looked at.
Lost ==
  /\ st = "read"
  /\ st' \in {"closed", "deaf"}
  /\ UNCHANGED <<script, sent, got, buffer, gplayer, handled, alone>>

-----------------------------------------------------------------------------
ReceiveSome == \E n \in Reads : Receive(n)

Next == Write \/ OthersEnter \/ ReceiveSome \/ Lost

\* A read is completed when there is something to read; the client may stop.
Spec == Init /\ [][Next]_vars /\ WF_vars(ReceiveSome)

-----------------------------------------------------------------------------
\* Every variable keeps its type; in particular the game logic is only called for
\* a type_t the client sent, not for the default one (WorldSession.cpp:73-79).
TypeOK ==
  /\ script \in [1 .. N -> Kinds]
  /\ sent \in 0 .. N * MsgLen /\ got \in 0 .. sent
  /\ buffer \in [1 .. BufferSize -> Bytes \cup {Blank}]
  /\ st \in {"read", "deaf", "closed"}
  /\ gplayer \in BOOLEAN
  /\ handled \in Seq((1 .. N) \X (0 .. N))
  /\ alone \in BOOLEAN

\* However TCP cuts the stream, a session that reads on is in step with it: its next
\* byte begins a field, never the middle of one (WorldSession.cpp:53-60).
InStep == st = "read" => got % FieldLen = 0

\* No type_t and no stuff is acted on twice, and they are acted on in the order they
\* were sent: a Meta without stuff does not get what is left in the prototype
\* (WorldSession.cpp:73-87).
OnceInOrder ==
  \A i, j \in 1 .. Len(handled) :
    i < j => /\ handled[i][1] < handled[j][1]
             /\ handled[j][2] # 0 => handled[i][2] < handled[j][2]

\* A type_t is acted on with its own stuff, with that of the message just before it,
\* or with none; never with what an older read left in _buffer
\* (WorldSession.cpp:54).
NearStuff ==
  \A i \in 1 .. Len(handled) : handled[i][2] \in {0, handled[i][1] - 1, handled[i][1]}

\* What a client can rely on: if every read returned exactly one message and the
\* session still reads, each message was handled, in order and with its own stuff
\* (WorldSession.cpp:89-133).
WholeServed ==
  alone /\ st = "read" =>
    /\ MsgLen * Len(handled) = got
    /\ \A k \in 1 .. Len(handled) : handled[k] = <<k, k>>

\* A message that was sent is read without waiting for another one, unless the
\* session has ended (Socket.h:65-68).
ReadsOn == \A k \in 1 .. N : sent >= k * MsgLen ~> (got >= k * MsgLen \/ st # "read")

-----------------------------------------------------------------------------
\* "Client and server talk through Meta, which has the type and the data"
\* (P_Protocol.proto:94): the game logic is given a type and its own data.  Not so
\* when a read ends behind a type_t.
MetaWhole == \A i \in 1 .. Len(handled) : handled[i][1] = handled[i][2]

\* "Receive recursively, continuously" (WorldSession.cpp:131): while the session
\* reads, every message it has read was handled.  Not so when a read returns two.
NothingSkipped ==
  st = "read" => \A k \in 1 .. N : k * MsgLen <= got
                   => \E i \in 1 .. Len(handled) : handled[i][1] = k
=============================================================================
