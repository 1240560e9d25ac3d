---------------------------- MODULE PromptEditor -----------------------------
(***************************************************************************)
(* The multiline prompt editor of the terminal frame (prompt_editor.py).   *)
(* A text is a sequence of letters and newlines, a cursor a number of      *)
(* characters.  The editor is one record, so that a key is a function of   *)
(* it and the properties can ask what a key would do.                      *)
(***************************************************************************)
EXTENDS SequencesExt

CONSTANTS
    Letter, Newline,
    NoIndex,      \* None: no anchor, no preferred column
    MaxText,      \* longest text (a bound)
    Pastes        \* what insert may be given

Char == Letter \cup {Newline}

ASSUME EditorAssumption ==
    /\ Newline \notin Letter /\ MaxText \in Nat /\ NoIndex \notin Nat
    /\ \A text \in Pastes : text \in Seq(Char)

VARIABLES
    editor,       \* the PromptEditor: text, cursor, selection_anchor, _preferred_column
    loaded        \* history: the column kept from before a load is still there

editorVars == <<editor, loaded>>

\* The newlines of e's text, as cursor positions before them.
Newlines(e) == {i \in 0..(Len(e.text) - 1) : e.text[i + 1] = Newline}
\* Line k of the text (the first is 0) as the positions of its start and end.
Starts(e) == {0} \cup {i + 1 : i \in Newlines(e)}
LineStart(e, k) ==
    CHOOSE s \in Starts(e) : Cardinality({t \in Starts(e) : t < s}) = k
LineEnd(e, start) ==
    Min({i \in Newlines(e) : i >= start} \cup {Len(e.text)})
Line(e) == Cardinality({i \in Newlines(e) : i < e.cursor})
Column(e) == e.cursor - LineStart(e, Line(e))

Selected(e) == e.anchor # NoIndex /\ e.anchor # e.cursor

\* insert: the selection, or nothing, gives way to value.
Insert(e, value) ==
    LET ends == IF Selected(e) THEN {e.anchor, e.cursor} ELSE {e.cursor}
    IN [text   |-> SubSeq(e.text, 1, Min(ends)) \o value
                       \o SubSeq(e.text, Max(ends) + 1, Len(e.text)),
        cursor |-> Min(ends) + Len(value),
        anchor |-> NoIndex, column |-> NoIndex]

\* backspace and delete keep an anchor that selects nothing.
Erase(e, from) ==
    [e EXCEPT !.text = SubSeq(e.text, 1, from) \o SubSeq(e.text, from + 2, Len(e.text)),
              !.cursor = from, !.column = NoIndex]
Backspace(e) ==
    IF Selected(e) THEN Insert(e, <<>>)
    ELSE IF e.cursor > 0 THEN Erase(e, e.cursor - 1)
    ELSE [e EXCEPT !.column = NoIndex]

Delete(e) ==
    IF Selected(e) THEN Insert(e, <<>>)
    ELSE IF e.cursor < Len(e.text) THEN Erase(e, e.cursor)
    ELSE [e EXCEPT !.column = NoIndex]

\* left, right and their selecting forms move_left, move_right.
Go(e, to, select) ==
    [e EXCEPT !.anchor = IF ~select THEN NoIndex ELSE IF @ = NoIndex THEN e.cursor ELSE @,
              !.cursor = to, !.column = NoIndex]
MoveLeft(e, select) == Go(e, Max({0, e.cursor - 1}), select)
MoveRight(e, select) == Go(e, Min({Len(e.text), e.cursor + 1}), select)
Home(e) == Go(e, LineStart(e, Line(e)), FALSE)
End(e) == Go(e, LineEnd(e, e.cursor), FALSE)

\* Mutant of Vertical: the preferred column is forgotten on every move.
VerticalForgets(e, by) ==
    LET start == LineStart(e, Line(e) + by)
    IN IF Line(e) + by \notin 0..Cardinality(Newlines(e)) THEN e
       ELSE [e EXCEPT !.anchor = NoIndex,
                      !.cursor = Min({start + Column(e), LineEnd(e, start)})]

\* up (by = -1) and down (by = 1): the column of the first vertical move is
\* kept through shorter lines.
Vertical(e, by) ==
    LET column == IF e.column = NoIndex THEN Column(e) ELSE e.column
        kept == [e EXCEPT !.anchor = NoIndex, !.column = column]
        start == LineStart(e, Line(e) + by)
    IN IF Line(e) + by \notin 0..Cardinality(Newlines(e)) THEN kept
       ELSE [kept EXCEPT !.cursor = Min({start + column, LineEnd(e, start)})]

Cleared == [text |-> <<>>, cursor |-> 0, anchor |-> NoIndex, column |-> NoIndex]

EditorInit == editor = Cleared /\ loaded = FALSE

Edit(e) ==
    /\ Len(e.text) <= MaxText
    /\ editor' = e
    /\ loaded' = (loaded /\ e.column # NoIndex)

\* A pipeline loads its synthesis (terminal_frame.py:1234): text and cursor
\* only, the anchor and the column of the old draft stay.
Load ==
    \E text \in Pastes :
        /\ editor' = [editor EXCEPT !.text = text, !.cursor = Len(text)]
        /\ loaded' = (editor.column # NoIndex)

EditorNext ==
    \/ \E value \in Pastes : Edit(Insert(editor, value))
    \/ Edit(Backspace(editor)) \/ Edit(Delete(editor))
    \/ \E select \in BOOLEAN :
           Edit(MoveLeft(editor, select)) \/ Edit(MoveRight(editor, select))
    \/ Edit(Home(editor)) \/ Edit(End(editor))
    \/ \E by \in {-1, 1} : Edit(Vertical(editor, by))
    \/ Edit(Cleared)
    \/ Load

EditorSpec == EditorInit /\ [][EditorNext]_editorVars

-----------------------------------------------------------------------------
\* Going up a line and down again returns to the same place, whatever
\* shorter lines have been crossed before (prompt_editor.py:100-117), unless
\* the text was exchanged under a kept column.
VerticalMovesReturn ==
    ~loaded =>
        /\ Line(editor) > 0 =>
               Vertical(Vertical(editor, -1), 1).cursor = editor.cursor
        /\ Line(editor) < Cardinality(Newlines(editor)) =>
               Vertical(Vertical(editor, 1), -1).cursor = editor.cursor
==============================================================================
