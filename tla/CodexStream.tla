----------------------------- MODULE CodexStream -----------------------------
(***************************************************************************)
(* What a Codex session makes of the bytes of its child (_emit_terminal of *)
(* codex_session.py): ImageCompositor assembles the images of what was     *)
(* read, TerminalStreamFilter strips the control sequences of what         *)
(* redact_terminal_text left of it, and all of them see the stream in the  *)
(* pieces the reader happens to get, cut anywhere.                         *)
(*                                                                         *)
(* A stream is a sequence of tokens: ESC, the characters that mean         *)
(* something after it, letters, the name of a credential and what assigns  *)
(* it, and the payload of a graphics sequence as one token.                *)
(***************************************************************************)
EXTENDS SequencesExt

CONSTANTS
    Piece,       \* complete sequences and text the child may write (a bound)
    MaxPieces,   \* how many of them (a bound)
    Payload,     \* graphics payloads: token -> [id, more, ok]
    MaxParts,    \* max_pending_bytes, in parts
    MaxFrames,   \* max_frames, for the life of the compositor
    TailKept     \* the 64000 characters kept of a text without graphics

\* A credential's name (a word of its own), what assigns it, and what ends its value; the
\* mark that is put for a value.
Name == "t"
Assign == "="
Comma == ","
Redacted == "R"

\* What the child's output and the redacted text are made of.
Token == {Redacted} \cup UNION {ToSet(p) : p \in Piece}

ASSUME StreamAssumption ==
    /\ MaxPieces \in Nat /\ TailKept \in Nat \ {0, 1}
    /\ \A p \in Piece : p \in Seq(Token)

ESC == "E"
DCS == "P"     \* ESC P, ESC _ and ESC \, as the control functions are called
APC == "_"
ST == "\\"
Final == {"[", "]", "_", "P", "G", "m", "x", "q", "s", "c", "t", "\\"}   \* of @..~

VARIABLES
    fed,        \* history: all tokens so far
    left,       \* the tokens not read yet
    safe,       \* history: what redaction made of the reads so far
    split,       \* history: a read began inside a credential
    held,       \* TerminalStreamFilter._pending
    shown,      \* the text emitted
    composer,   \* ImageCompositor: pending, parts, seen
    frames,     \* the frames emitted, as <<id, parts>>
    issues,     \* history: the kinds of problem the compositor reported
    ended       \* the stream was closed with final

streamVars == <<fed, left, safe, split, held, shown, composer, frames, issues, ended>>

-----------------------------------------------------------------------------
\* Redaction.

\* The token at j of v is of the value that is assigned at k: a value is everything but a
\* comma (or the like), the control sequences too.
Assigned(v, k, j) ==
    /\ v[k] = Name /\ v[k + 1] = Assign
    /\ \A l \in (k + 2)..j : v[l] # Comma

\* redact_terminal_text: a value is masked, as far as v shows its name and itself (a mark
\* for each token).
Redact(v) ==
    [j \in 1..Len(v) |-> IF \E k \in 1..(j - 2) : Assigned(v, k, j) THEN Redacted ELSE v[j]]

\* A cut of v behind the place c goes through an assignment.
CutsCredential(v, c) ==
    \E k \in 1..c : \E j \in (c + 1)..Len(v) : k + 2 <= j /\ Assigned(v, k, j)

-----------------------------------------------------------------------------
\* Text.

\* The places after the control sequence that starts at i, as far as v shows.
\* An OSC ends at BEL only, a graphics sequence at ESC \, a CSI at a final byte.
Past(v, i) ==
    CASE v[i + 1] = "]" -> {j + 1 : j \in {k \in (i + 2)..Len(v) : v[k] = "B"}}
      [] v[i + 1] \in {"_", "P"} ->
             {j + 2 : j \in {k \in (i + 2)..(Len(v) - 1) : v[k] = ESC /\ v[k + 1] = "\\"}}
      [] v[i + 1] = "[" -> {j + 1 : j \in {k \in (i + 2)..Len(v) : v[k] \in Final}}
      [] OTHER -> {i + 2}

\* Mutant of Strip: what is not complete is dropped, as at the end of the stream.
StripAtOnce(v) ==
    LET f[i \in 1..(Len(v) + 2)] ==
          IF i > Len(v) \/ (i = Len(v) /\ v[i] = ESC) THEN <<>>
          ELSE IF v[i] # ESC THEN <<v[i]>> \o f[i + 1]
          ELSE IF Past(v, i) = {} THEN <<>> ELSE f[Min(Past(v, i))]
    IN [text |-> f[1], rest |-> <<>>]

\* feed: the visible text of v, and the incomplete sequence at its end.
Strip(v) ==
    LET f[i \in 1..(Len(v) + 2)] ==
          IF i > Len(v) THEN [text |-> <<>>, rest |-> <<>>]
          ELSE IF v[i] # ESC THEN [f[i + 1] EXCEPT !.text = <<v[i]>> \o @]
          ELSE IF i = Len(v) \/ Past(v, i) = {}
          THEN [text |-> <<>>, rest |-> SubSeq(v, i, Len(v))]
          ELSE f[Min(Past(v, i))]
    IN f[1]

-----------------------------------------------------------------------------
\* Images.

\* Where a graphics sequence starts in v (ESC _ G, or ESC P), and where one that starts
\* at i may end: at an ESC \ behind its first three characters.
Openings(v) ==
    {i \in 1..(Len(v) - 1) :
        /\ v[i] = ESC
        /\ v[i + 1] = DCS \/ (v[i + 1] = APC /\ i + 2 <= Len(v) /\ v[i + 2] = "G")}
Closings(v, i) == {j \in (i + 3)..(Len(v) - 1) : v[j] = ESC /\ v[j + 1] = ST}

\* The first sequence of v is complete.
Complete(v) == Openings(v) # {} /\ Closings(v, Min(Openings(v))) # {}

NoParts == [id \in {Payload[k].id : k \in DOMAIN Payload} |-> <<>>]
NewComposer == [pending |-> <<>>, parts |-> NoParts, seen |-> 0, out |-> <<>>, issues |-> {}]
Waiting(parts) == FoldFunction(LAMBDA part, n : Len(part) + n, 0, parts)

\* What is read of a sequence: the parts that wait then, the frame and the problem, if any.
Answer(parts, frame, issue) == [parts |-> parts, frame |-> frame, issue |-> issue]
IsPayload(body) == Len(body) = 1 /\ body[1] \in DOMAIN Payload

\* Mutant of Kitty: a part that is not the last one is emitted too.
KittyEveryPart(parts, body) ==
    LET p == Payload[body[1]]
        all == Append(parts[p.id], body[1])
    IN IF ~(IsPayload(body) /\ p.ok) THEN Answer(parts, <<>>, {"payload"})
       ELSE Answer([parts EXCEPT ![p.id] = IF p.more THEN all ELSE <<>>], <<(<<p.id, all>>)>>, {})

\* _kitty: a part that cannot be decoded is skipped, and all parts of all
\* images are dropped when they exceed the limit; a last part emits what is left.
Kitty(parts, body) ==
    LET p == Payload[body[1]]
        all == Append(parts[p.id], body[1])
    IN IF ~(IsPayload(body) /\ p.ok) THEN Answer(parts, <<>>, {"payload"})
       ELSE IF Waiting(parts) + 1 > MaxParts THEN Answer(NoParts, <<>>, {"limit"})
       ELSE IF p.more THEN Answer([parts EXCEPT ![p.id] = all], <<>>, {})
       ELSE Answer([parts EXCEPT ![p.id] = <<>>], <<(<<p.id, all>>)>>, {})

\* decode: an image of which nothing is drawn, or with characters that are no sixels, is refused.
Sixel(parts, body) ==
    IF body # <<>> /\ \A i \in 1..Len(body) : body[i] = "s"
    THEN Answer(parts, <<(<<"sixel", body>>)>>, {}) ELSE Answer(parts, <<>>, {"sixel"})

\* Any other DCS is passed over.
Read(parts, sequence) ==
    LET body == SubSeq(sequence, 3, Len(sequence))
    IN IF sequence[1] = APC THEN Kitty(parts, body)
       ELSE IF sequence[2] = "q" THEN Sixel(parts, body) ELSE Answer(parts, <<>>, {})

\* The first sequence is taken off and read; a frame too many is dropped.
TakeSequence(c) ==
    LET v == c.pending
        from == Min(Openings(v))
        end == Min(Closings(v, from))
        read == Read(c.parts, SubSeq(v, from + 1, end - 1))
        given == IF c.seen < MaxFrames THEN read.frame ELSE <<>>
    IN [pending |-> SubSeq(v, end + 2, Len(v)), parts |-> read.parts, seen |-> c.seen + Len(given),
        out |-> c.out \o given, issues |-> c.issues \cup read.issue]

\* What is kept of a text without a complete sequence: a sequence from its start on, or the end.
KeptFrom(v) ==
    IF Openings(v) # {} THEN Min(Openings(v))
    ELSE IF Len(v) > TailKept THEN Len(v) - TailKept + 1 ELSE 1

\* One turn of feed's loop.
Compose(c) ==
    IF Complete(c.pending) THEN TakeSequence(c)
    ELSE [c EXCEPT !.pending = SubSeq(@, KeptFrom(@), Len(@))]

ComposeTimes(c, n) == LET f[i \in 0..n] == IF i = 0 THEN c ELSE Compose(f[i - 1]) IN f[n]

\* feed: the loop ends when nothing complete is left, after as many turns as there are
\* characters at the latest.
Feed(c, data) ==
    LET v == c.pending \o data IN ComposeTimes([c EXCEPT !.pending = v, !.out = <<>>], Len(v))

\* What a child writes that cuts none of its sequences: the payloads are where a graphics
\* sequence has its payload, the others end, and none has begun at the end.
Unbroken(v) ==
    /\ \A i \in 1..Len(v) :
           v[i] \in DOMAIN Payload =>
               /\ i > 3 /\ v[i - 3] = ESC /\ v[i - 2] = APC /\ v[i - 1] = "G"
               /\ i + 2 <= Len(v) /\ v[i + 1] = ESC /\ v[i + 2] = ST
    /\ \A i \in Openings(v) :
           IF v[i + 1] = APC THEN i + 3 <= Len(v) /\ v[i + 3] \in DOMAIN Payload
           ELSE \E j \in Closings(v, i) : \A k \in i..j : v[k] \notin DOMAIN Payload
    /\ Len(v) > 0 => v[Len(v)] # ESC
    /\ Len(v) > 1 => ~(v[Len(v) - 1] = ESC /\ v[Len(v)] = APC)

ASSUME PieceAssumption ==
    /\ DOMAIN Payload \cap {ESC, DCS, APC, ST, "G"} = {}
    /\ \A p \in Piece : Unbroken(p)

-----------------------------------------------------------------------------
StreamInit ==
    /\ \E n \in 1..MaxPieces : \E pieces \in [1..n -> Piece] : left = FlattenSeq(pieces)
    /\ fed = <<>> /\ safe = <<>> /\ split = FALSE /\ held = <<>> /\ shown = <<>> /\ frames = <<>>
    /\ composer = NewComposer
    /\ issues = {} /\ ended = FALSE

\* The reader gets the next n tokens; at the end, with final, none.
EmitTerminal(n, final) ==
    /\ ~ended
    /\ LET data == SubSeq(left, 1, n)
           c == Feed(composer, data)
           text == Redact(data)
           s == Strip(held \o text)
       IN /\ fed' = fed \o data
          /\ safe' = safe \o text
          /\ split' = (split \/ CutsCredential(fed \o left, Len(fed)))
          /\ left' = SubSeq(left, n + 1, Len(left))
          /\ composer' = [c EXCEPT !.out = <<>>, !.issues = {}]
          /\ frames' = frames \o c.out
          /\ issues' = issues \cup c.issues
          /\ held' = IF final THEN <<>> ELSE s.rest
          /\ shown' = shown \o s.text
          /\ ended' = final

StreamNext ==
    \/ \E n \in 1..Len(left) : EmitTerminal(n, FALSE)
    \/ left = <<>> /\ EmitTerminal(0, TRUE)

StreamSpec == StreamInit /\ [][StreamNext]_streamVars

-----------------------------------------------------------------------------
\* Redaction sees one read at a time, so where a cut goes through a credential the text
\* depends on it; nowhere else.  The filter behind it never minds a cut: the text that was
\* shown is what one feed of all the redacted text would show, an incomplete sequence at a
\* cut shows nothing of itself, and while no read began inside a credential that text is
\* the redacted form of all that was read (codex_session.py:50-64,
\* terminal_protocol.py:81-124,168-173).
TextIgnoresTheCuts ==
    /\ shown = Strip(safe).text
    /\ ~split => safe = Redact(fed)

\* However the reads cut it, the same frames come out as if all of it was one read
\* (image_compositor.py:212-245).
FramesIgnoreTheCuts == frames = Feed(NewComposer, fed).out

\* Of the first n tokens of v, the parts of an image in the order they were sent.
Sent(v, n, id) ==
    LET f[i \in 0..n] ==
          IF i = 0 THEN <<>>
          ELSE IF v[i] \in DOMAIN Payload /\ Payload[v[i]].id = id THEN Append(f[i - 1], v[i])
          ELSE f[i - 1]
    IN f[n]

\* These parts are all that was sent of an image: from the first part behind the end of the
\* image before to the first that announces no more.
IsWhole(parts, sent) ==
    /\ \A j \in 1..Len(parts) : Payload[parts[j]].more <=> j < Len(parts)
    /\ \E a \in 0..(Len(sent) - Len(parts)) :
           /\ \A j \in 1..Len(parts) : parts[j] = sent[a + j]
           /\ a > 0 => ~Payload[sent[a]].more

\* Until a payload was refused, every frame has all parts of its image, in order
\* (image_compositor.py:247-270).
ImagesAreWhole ==
    issues \subseteq {"sixel"} =>
        \A i \in 1..Len(frames) :
            frames[i][1] # "sixel" =>
                /\ frames[i][2] # <<>>
                /\ IsWhole(frames[i][2], Sent(fed, Len(fed), frames[i][1]))

FramesAreWhole == FramesIgnoreTheCuts /\ ImagesAreWhole
==============================================================================
