-------------------------------- MODULE Payload --------------------------------
(***************************************************************************)
(* bounded_text() of _payload.py for a chat-completions body: which of its *)
(* messages a capture of at most `limit' bytes keeps.                      *)
(*                                                                         *)
(* Only sizes matter.  A message serializes to what its other fields take  *)
(* and to its content, each byte of which becomes `escape' bytes of JSON;  *)
(* the code's sizes (96 bytes of margin, 256 for a shortened message) are  *)
(* constants, so that small bodies meet every branch.                      *)
(***************************************************************************)
EXTENDS Integers, Sequences, SequencesExt

CONSTANTS Limits, Envelopes, ToolSizes,  \* bounds of the model: sizes tried
          Fields, Contents, Escapes,     \* and those of a message
          MaxMessages,                   \* bound of the model
          Margin,       \* kept free for the elision marker and separators
          Worthwhile,   \* budget below which a message is not shortened
          Marker,       \* what _content_truncated and _content_bytes add
          ToolsNote,    \* the note that stands for the tool schemas
          ElidedNote    \* _elided_messages

ASSUME PayloadAssumption ==
  /\ Limits \cup Envelopes \cup ToolSizes \cup Fields \cup Contents \subseteq Nat
  /\ Escapes \subseteq Nat \ {0} /\ MaxMessages \in Nat
  /\ {Margin, Worthwhile, Marker, ToolsNote, ElidedNote} \subseteq Nat
  /\ ElidedNote < Margin

VARIABLES body,    \* the request
          limit,   \* payload_max_bytes
          capture  \* what is retained of it

payloadVars == <<body, limit, capture>>

Message == [fields : Fields, content : Contents, escape : Escapes]

NotYet == [form |-> "none"]

PayloadInit ==
  /\ body \in [envelope : Envelopes, tools : ToolSizes,
               messages : UNION {[1..n -> Message] : n \in 0..MaxMessages}]
  /\ limit \in Limits
  /\ capture = NotYet

Size(m) == m.fields + m.content * m.escape

TotalSize(messages) == FoldLeft(LAMBDA sum, m : sum + Size(m) + 1, 0, messages)

TextSize == body.envelope + body.tools + TotalSize(body.messages)

-------------------------------------------------------------------------------
(* _shorten_message() *)

Shortened(m, room) ==
  [fields |-> m.fields + Marker, content |-> room, escape |-> m.escape]

\* Bug: the search gives the first room that does not fit.
LongestRoomPlusOne(m, budget) ==
  LET fits == {room \in 0..m.content : Size(Shortened(m, room)) <= budget}
  IN Cardinality(fits)

\* The binary search for the longest content that fits; none at all if even an
\* empty one does not.
LongestRoom(m, budget) ==
  LET search[range \in (0..m.content) \X (0..m.content)] ==
        LET low == range[1]
            high == range[2]
            mid == (low + high + 1) \div 2
        IN IF low >= high THEN low
           ELSE IF Size(Shortened(m, mid)) <= budget THEN search[<<mid, high>>]
           ELSE search[<<low, mid - 1>>]
  IN search[<<0, m.content>>]

Shorten(m, budget) == Shortened(m, LongestRoom(m, budget))

-------------------------------------------------------------------------------
(* bounded_chat_body() *)

\* Tool schemas are given up when they would crowd out the conversation.
WithoutTools == body.tools > 0 /\ limit - body.envelope - body.tools - Margin <= Worthwhile

Envelope == body.envelope + (IF WithoutTools THEN ToolsNote ELSE body.tools)

Budget == limit - Envelope - Margin

\* One round of the loop, from the newest message to the oldest.
Consider(sofar, index) ==
  LET m == body.messages[index]
      cost == Size(m) + 1
  IN IF sofar.stopped THEN sofar
     ELSE IF cost <= sofar.budget
     THEN [sofar EXCEPT !.kept = <<m>> \o @, !.budget = @ - cost]
     ELSE IF index = 1 /\ sofar.kept # <<>> /\ sofar.budget > Worthwhile
     THEN [sofar EXCEPT !.kept = <<Shorten(m, sofar.budget)>> \o @, !.budget = 0]
     ELSE [sofar EXCEPT !.elided = index, !.stopped = TRUE]

Kept ==
  FoldLeft(Consider,
           [kept |-> <<>>, budget |-> Budget, elided |-> 0, stopped |-> FALSE],
           Reverse([i \in DOMAIN body.messages |-> i]))

Chat(messages, elided) ==
  [form |-> "chat", messages |-> messages, elided |-> elided,
   size |-> Envelope + TotalSize(messages) + (IF elided > 0 THEN ElidedNote ELSE 0)]

\* The byte prefix is what remains when nothing of the conversation fits.
Prefix == [form |-> "prefix", size |-> limit]

Newest == Last(body.messages)

BoundedText ==
  IF TextSize <= limit THEN [form |-> "whole", size |-> TextSize]
  ELSE IF body.messages = <<>> \/ Budget <= 0 THEN Prefix
  ELSE IF Kept.kept # <<>> THEN Chat(Kept.kept, Kept.elided)
  ELSE IF Kept.budget > Worthwhile
  THEN Chat(<<Shorten(Newest, Kept.budget)>>, Len(body.messages) - 1)
  ELSE Prefix

Capture ==
  /\ capture = NotYet
  /\ capture' = BoundedText
  /\ UNCHANGED <<body, limit>>

PayloadNext == Capture

PayloadSpec == PayloadInit /\ [][PayloadNext]_payloadVars

-------------------------------------------------------------------------------
(* Properties *)

\* What cannot be shortened of a message fits into any budget worth shortening for.
FieldsFit == \A i \in DOMAIN body.messages : body.messages[i].fields + Marker <= Worthwhile

\* "Everything retained goes through a byte budget" (_payload.py:4): whatever the sizes,
\* the escapes and the branch taken, no more than the limit is kept.  It fails for a
\* message whose other fields (tool calls, say) are large: only content is shortened.
WithinTheLimit == capture # NotYet => capture.size <= limit

\* A captured conversation is the newest part of the exchange, in order, preceded at
\* most by a shortened first message: the newest message is always there, a message
\* is cut only where it had to be, and what is missing is counted.
NewestExchange(c) ==
  c.form = "chat" =>
    LET n == Len(body.messages)
        k == Len(c.messages)
        Of(i) == body.messages[n - k + i]
        Cut(i) == c.messages[i] # Of(i)
    IN /\ k >= 1 /\ k + c.elided = n
       /\ \A i \in 1..k : Cut(i) =>
            /\ i = 1 /\ (n - k + i = 1 \/ k = 1)
            /\ c.messages[i].content <= Of(i).content
       /\ \A i \in 1..k : Cut(i) /\ c.messages[i].content < Of(i).content =>
            c.size + Of(i).escape + Margin > limit

\* A capture is within the limit, as far as shortening content can achieve it, and is
\* still the newest part of the exchange.
CaptureBounded == (FieldsFit => WithinTheLimit) /\ NewestExchange(capture)
===============================================================================
