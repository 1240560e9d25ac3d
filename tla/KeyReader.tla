----------------------------- MODULE KeyReader -------------------------------
(***************************************************************************)
(* How the frame tells keys apart: terminal_frame.py's _read_key and       *)
(* _read_bracketed_paste.  The terminal delivers characters in pieces; the *)
(* reader does not wait for more (nodelay), so what has not arrived when a *)
(* sequence is read is not part of it.                                     *)
(*                                                                         *)
(* A character is one of those the reader tells apart: "E" is Escape, "r"  *)
(* Return, "t" Tab, "b" the backslash, "x" any other printable one.        *)
(***************************************************************************)
EXTENDS Naturals, Sequences, SequencesExt

CONSTANTS
    PasteText,   \* texts that are pasted
    MaxItems     \* bound: keys, pastes and answers of the terminal

Opener == <<"[", "2", "0", "0", "~">>
Closer == <<"[", "2", "0", "1", "~">>

\* A terminal pastes no text with the end of a paste in it.
ASSUME KeyAssumption ==
    \A text \in PasteText :
        /\ text \in Seq(UNION {ToSet(t) : t \in PasteText})
        /\ \A i \in 1..(Len(text) - 5) : text[i] = "E" => SubSeq(text, i + 1, i + 5) # Closer

\* Characters between "@" and "~", which end a control sequence.
Finals == {"[", "b", "A", "M", "x", "~"}

\* What a user and a terminal send, and the event each should be.
Items ==
    { <<<<"x">>, <<"key", "x">>>>, <<<<"r">>, <<"key", "r">>>>, <<<<"E">>, <<"escape">>>>,
      <<<<"E", "[", "A">>, <<"up">>>>, <<<<"E", "r">>, <<"alt-enter">>>>,
      <<<<"E", "[", "<", "2", "M">>, <<"mouse">>>>,
      <<<<"E", "_", "x", "E", "b">>, <<"answer">>>> }
    \cup { <<<<"E">> \o Opener \o text \o <<"E">> \o Closer, <<"paste", text>>>> : text \in PasteText }

VARIABLES
    arrived,   \* characters the reader may take
    coming,    \* the rest of an item that is delivered in pieces
    events,    \* what the reader has returned
    meant,     \* history: the events of the items sent so far
    blurred    \* history: an item was read in pieces, or runs into the next

keyVars == <<arrived, coming, events, meant, blurred>>

KeyInit ==
    /\ arrived = <<>> /\ coming = <<>> /\ events = <<>> /\ meant = <<>>
    /\ blurred = FALSE

------------------------------------------------------------------------------
(* The reader: each operator gives an event and the characters that are left *)

From(chars, i) == SubSeq(chars, i, Len(chars))
Behind(chars, i, n) == SubSeq(chars, i + 1, IF i + n < Len(chars) THEN i + n ELSE Len(chars))

\* Mutant of ReadPaste: one character too few is read behind an Escape.
ReadPasteShort(chars) ==
    LET text[i \in 1..(Len(chars) + 1)] ==
            IF i > Len(chars) THEN <<<<>>, <<>>>>
            ELSE IF chars[i] # "E" THEN <<<<chars[i]>> \o text[i + 1][1], text[i + 1][2]>>
            ELSE IF Behind(chars, i, 4) = Closer THEN <<<<>>, From(chars, i + 5)>>
            ELSE IF i + 4 > Len(chars) THEN <<<<>>, <<>>>>
            ELSE <<SubSeq(chars, i, i + 4) \o text[i + 5][1], text[i + 5][2]>>
    IN <<<<"paste", text[1][1]>>, text[1][2]>>

\* _read_bracketed_paste: everything up to the closer.  An Escape takes the five characters behind
\* it, closer or not; an input that ends before ends the paste, without a last unfinished Escape.
ReadPaste(chars) ==
    LET text[i \in 1..(Len(chars) + 1)] ==
            IF i > Len(chars) THEN <<<<>>, <<>>>>
            ELSE IF chars[i] # "E" THEN <<<<chars[i]>> \o text[i + 1][1], text[i + 1][2]>>
            ELSE IF Behind(chars, i, 5) = Closer THEN <<<<>>, From(chars, i + 6)>>
            ELSE IF i + 5 > Len(chars) THEN <<<<>>, <<>>>>
            ELSE <<SubSeq(chars, i, i + 5) \o text[i + 6][1], text[i + 6][2]>>
    IN <<<<"paste", text[1][1]>>, text[1][2]>>

\* A graphics answer of the terminal is swallowed up to its end.
ReadAnswer(chars) ==
    LET ends == {i \in 2..Len(chars) : SubSeq(chars, i - 1, i) = <<"E", "b">>} IN
    <<<<"answer">>, IF ends = {} THEN <<>> ELSE From(chars, 1 + CHOOSE i \in ends : \A j \in ends : i <= j)>>

\* A control sequence by its characters; an unknown one is no key.
Sequence(chars) ==
    CASE chars = <<"[", "A">>                          -> <<"up">>
      [] chars[2] = "<" /\ chars[Len(chars)] = "M"     -> <<"mouse">>
      [] OTHER                                         -> <<"none">>

\* Where the reading behind an Escape stops: at Tab, Return, a graphics answer, or a final
\* character that is not the first.
Stops(chars) ==
    {i \in 1..Len(chars) : chars[i] \in {"t", "r", "_"} \/ (i > 1 /\ chars[i] \in Finals)}

ReadEscape(chars) ==
    IF Stops(chars) = {} THEN <<<<"escape">>, <<>>>>
    ELSE LET n == CHOOSE i \in Stops(chars) : \A j \in Stops(chars) : i <= j
             seen == SubSeq(chars, 1, n)
             left == From(chars, n + 1)
         IN IF chars[n] = "t" THEN <<<<"key", "t">>, left>>
            ELSE IF chars[n] = "r" THEN <<<<"alt-enter">>, left>>
            ELSE IF chars[n] = "_" THEN ReadAnswer(left)
            ELSE IF chars[1] # "[" THEN <<<<"escape">>, left>>
            ELSE IF seen = Opener THEN ReadPaste(left)
            ELSE <<Sequence(seen), left>>

ReadKey(chars) ==
    IF chars[1] # "E" THEN <<<<"key", chars[1]>>, Tail(chars)>> ELSE ReadEscape(Tail(chars))

------------------------------------------------------------------------------
(* The terminal and the frame *)

\* Text with an Escape that takes the closer's first characters with it.
HidesCloser(chars) == \E i \in 2..Len(chars) : chars[i] = "E" /\ \E j \in (i + 1)..(i + 5) :
                          j <= Len(chars) /\ chars[j] = "E"

\* An item arrives, all of it or a first piece.
Send(item) ==
    /\ Len(meant) < MaxItems /\ coming = <<>>
    /\ \E n \in 1..Len(item[1]) :
        /\ arrived' = arrived \o SubSeq(item[1], 1, n)
        /\ coming' = From(item[1], n + 1)
    /\ meant' = Append(meant, item[2])
    /\ blurred' = (blurred \/ HidesCloser(item[1]) \/ (arrived # <<>> /\ Last(meant) = <<"escape">>))
    /\ UNCHANGED events

Deliver ==
    /\ coming # <<>>
    /\ arrived' = arrived \o coming /\ coming' = <<>>
    /\ UNCHANGED <<events, meant, blurred>>

\* The frame takes one event of what is there; without an event nothing happens.
Take ==
    /\ arrived # <<>>
    /\ LET read == ReadKey(arrived) IN
        /\ arrived' = read[2]
        /\ events' = IF read[1] = <<"none">> THEN events ELSE Append(events, read[1])
    /\ blurred' = (blurred \/ coming # <<>>)
    /\ UNCHANGED <<coming, meant>>

KeyQuiet == Len(meant) = MaxItems /\ arrived = <<>> /\ coming = <<>> /\ UNCHANGED keyVars

KeyNext == (\E item \in Items : Send(item)) \/ Deliver \/ Take \/ KeyQuiet

KeySpec == KeyInit /\ [][KeyNext]_keyVars

------------------------------------------------------------------------------
(* Properties *)

\* Whatever arrives in whatever order, a reader that keeps up gets what was meant: a paste is one
\* event, with its Returns and Escapes, and no part of it, of a mouse report or of an answer is
\* taken for a key (terminal_frame.py:746 "swallowing a terminal mouse escape sequence", :851
\* "without submitting it").  What is read in pieces is not (blurred).
KeysAreWhatWasMeant ==
    ~blurred => /\ IsPrefix(events, meant)
                /\ arrived \o coming = <<>> => events = meant
==============================================================================
