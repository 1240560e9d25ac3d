------------------------------ MODULE Polymino -------------------------------
(***************************************************************************)
(* The polymino control, the game page the plugin's own tests are driven   *)
(* on (static/polymino-control.js): a seeded bag of pieces, the piece that *)
(* falls, the hold slot, the stack, snapshots and the browser's storage.   *)
(*                                                                         *)
(* A cell is <<column, row>>, row 0 on top, and a piece enters above it.   *)
(* The board is the set of filled cells, scores are zero or not, and the   *)
(* random generator is the number of shuffles done since its seed.  A game *)
(* also carries its history, which pieces have entered and come to rest;   *)
(* tones, levels, speeds, the run history and the action log are left out. *)
(***************************************************************************)
EXTENDS SequencesExt

CONSTANTS
    Rows, Cols,
    Shape,        \* PIECES: family -> the cells of its first orientation
    Seeds,
    Bag,          \* Bag[seed][n]: the n-th shuffle of the families under seed
    MaxShuffles,  \* shuffles under one seed (a bound)
    FileCells,    \* a snapshot is exported from boards with at most so many cells (a bound)
    MaxExports,   \* snapshots exported (a bound)
    None

\* Every piece fits on an empty board and above it, and a new stack takes up to three shuffles.
ASSUME PolyminoAssumption ==
    /\ Rows \in Nat \ {0} /\ Cols \in Nat \ {0} /\ MaxShuffles \in Nat /\ MaxShuffles >= 3
    /\ None \notin DOMAIN Shape /\ DOMAIN Shape # {}
    /\ \A f \in DOMAIN Shape :
           Shape[f] # {} /\ Shape[f] \subseteq (0..(Cols - 1)) \X (0..(Rows + 1))
    /\ \A s \in Seeds : /\ Bag[s] \in [1..MaxShuffles -> Seq(DOMAIN Shape)]
                        /\ \A n \in 1..MaxShuffles : ToSet(Bag[s][n]) = DOMAIN Shape

VARIABLES
    game,     \* seed, shuffles, board, current, queue, held, holdUsed, scored; and as history
              \* the families drawn, in order, and how many of each were locked
    running, gameOver,
    file,     \* the last exported snapshot, or None; with whether its game was torn
    exports,
    storage,  \* localStorage: the seed and whether the last score is zero
    torn      \* history: a refused snapshot left a part of itself behind

polyVars == <<game, running, gameOver, file, exports, storage, torn>>

Family == DOMAIN Shape

-----------------------------------------------------------------------------
\* Pieces.
Normalize(cells) ==
    LET x == Min({c[1] : c \in cells})
        y == Min({c[2] : c \in cells})
    IN {<<c[1] - x, c[2] - y>> : c \in cells}
Width(cells) == Max({c[1] : c \in cells}) + 1
RotateCW(cells) == Normalize({<<Width(cells) - 1 - c[2], c[1]>> : c \in cells})

\* uniqueOrientations: as many of the four turns as differ.
Orientations ==
    [f \in Family |->
        LET t[i \in 0..3] == IF i = 0 THEN Normalize(Shape[f]) ELSE RotateCW(t[i - 1]) IN t]
Turns == [f \in Family |-> Cardinality(Range(Orientations[f]))]
Cells(p) == {<<c[1] + p.x, c[2] + p.y>> : c \in Orientations[p.family][p.turn]}

\* Above the board a piece meets only its sides.
Collides(p, board) ==
    \E c \in Cells(p) : c[1] \notin 0..(Cols - 1) \/ c[2] >= Rows \/ c \in board

Spawned(f) ==
    [family |-> f, x |-> (Cols - Width(Shape[f])) \div 2, y |-> -2, turn |-> 0]

-----------------------------------------------------------------------------
\* The bag.

\* drawQueuePiece: one more shuffle when fewer than four are queued.
Drawn(g) ==
    IF Len(g.queue) >= 4 THEN g
    ELSE [g EXCEPT !.queue = @ \o Bag[g.seed][g.shuffles + 1], !.shuffles = @ + 1]
CanDraw(g) == Len(g.queue) < 4 => g.shuffles < MaxShuffles

\* spawnPiece with the next piece of the bag, or with the one that was held.
SpawnNext(g) ==
    LET d == Drawn(g)
    IN [d EXCEPT !.current = Spawned(Head(d.queue)), !.queue = Tail(@), !.holdUsed = FALSE,
                 !.drawn = Append(@, Head(d.queue))]
SpawnHeld(g, f) == [g EXCEPT !.current = Spawned(f)]

\* reset: drawQueuePiece is called twice, and again for the first piece.
Fresh(seed) ==
    SpawnNext(Drawn(Drawn([seed |-> seed, shuffles |-> 0, board |-> {}, current |-> None,
                           queue |-> <<>>, held |-> None, holdUsed |-> FALSE, scored |-> FALSE,
                           drawn |-> <<>>, locked |-> [f \in Family |-> 0]])))

-----------------------------------------------------------------------------
\* The stack.
Full(board, row) == \A x \in 0..(Cols - 1) : <<x, row>> \in board

\* Mutant of ClearLines: the row that has come down is not looked at again.
ClearLinesOnce(board) ==
    LET rows[r \in 0..Rows] ==
          IF r = Rows THEN board
          ELSE LET b == rows[r + 1]
               IN IF ~Full(b, r) THEN b
                  ELSE {c \in b : c[2] > r} \cup {<<c[1], c[2] + 1>> : c \in {d \in b : d[2] < r}}
    IN rows[0]

\* clearLines: from the bottom, a full row makes way for the rows above it
\* and is looked at again.
ClearLines(board) ==
    LET Pull(b, r) == {c \in b : c[2] > r} \cup {<<c[1], c[2] + 1>> : c \in {d \in b : d[2] < r}}
        passes[n \in 0..Rows] ==
          IF n = 0 THEN board
          ELSE LET b == passes[n - 1]
                   full == {r \in 0..(Rows - 1) : Full(b, r)}
               IN IF full = {} THEN b ELSE Pull(b, Max(full))
    IN passes[Rows]

\* lockPiece: what is above the board is lost, then lines, then the next piece.
Lock(g) ==
    SpawnNext([g EXCEPT !.board = ClearLines(@ \cup {c \in Cells(g.current) : c[2] >= 0}),
                        !.scored = TRUE, !.locked[g.current.family] = @ + 1])

-----------------------------------------------------------------------------
Saved == storage' = [seed |-> game'.seed, scored |-> game'.scored]

\* A new piece that collides ends the run.
Spawning(g) ==
    /\ game' = g
    /\ gameOver' = Collides(g.current, g.board)
    /\ running' = (running /\ ~gameOver')

Moved(dx, dy, turn) ==
    [game.current EXCEPT !.x = @ + dx, !.y = @ + dy, !.turn = turn]

Shift ==
    \E dx \in {-1, 1} :
        LET p == Moved(dx, 0, game.current.turn) IN
        /\ ~gameOver /\ ~Collides(p, game.board)
        /\ game' = [game EXCEPT !.current = p]
        /\ Saved /\ UNCHANGED <<running, gameOver, file, exports, torn>>

Kicks == <<<<0, 0>>, <<-1, 0>>, <<1, 0>>, <<-2, 0>>, <<2, 0>>, <<0, -1>>, <<0, -2>>>>

\* rotate: the first kick that fits, or none.
Rotate ==
    \E by \in {-1, 1} :
        LET total == Turns[game.current.family]
            turn == (game.current.turn + by + total) % total
            At(i) == Moved(Kicks[i][1], Kicks[i][2], turn)
            fits == {i \in DOMAIN Kicks : ~Collides(At(i), game.board)}
        IN /\ ~gameOver /\ fits # {}
           /\ game' = [game EXCEPT !.current = At(Min(fits))]
           /\ Saved /\ UNCHANGED <<running, gameOver, file, exports, torn>>

\* softDrop, by key, button or frame: a step down, or the end of the piece.
SoftDrop ==
    LET p == Moved(0, 1, game.current.turn) IN
    /\ ~gameOver
    /\ IF Collides(p, game.board)
       THEN CanDraw(game) /\ Spawning(Lock(game))
       ELSE /\ game' = [game EXCEPT !.current = p, !.scored = TRUE]
            /\ UNCHANGED <<running, gameOver>>
    /\ Saved /\ UNCHANGED <<file, exports, torn>>

HardDrop ==
    LET free == {d \in 0..(Rows + 2) :
                     \A e \in 1..d : ~Collides(Moved(0, e, game.current.turn), game.board)}
    IN /\ ~gameOver /\ CanDraw(game)
       /\ Spawning(Lock([game EXCEPT !.current = Moved(0, Max(free), game.current.turn)]))
       /\ Saved /\ UNCHANGED <<file, exports, torn>>

\* hold: once per piece of the bag.
Hold ==
    /\ ~gameOver /\ ~game.holdUsed
    /\ LET kept == [game EXCEPT !.held = game.current.family]
       IN IF game.held = None
          THEN CanDraw(game) /\ Spawning([SpawnNext(kept) EXCEPT !.holdUsed = TRUE])
          ELSE Spawning([SpawnHeld(kept, game.held) EXCEPT !.holdUsed = TRUE])
    /\ Saved /\ UNCHANGED <<file, exports, torn>>

Reset(seed) ==
    /\ game' = Fresh(seed) /\ gameOver' = FALSE /\ running' = FALSE
    /\ torn' = FALSE /\ Saved /\ UNCHANGED <<file, exports>>

\* toggleRun: after the end of a run it starts another one.
ToggleRun ==
    \/ gameOver /\ game' = Fresh(game.seed) /\ gameOver' = FALSE /\ running' = TRUE
         /\ torn' = FALSE /\ Saved /\ UNCHANGED <<file, exports>>
    \/ ~gameOver /\ running' = ~running /\ UNCHANGED <<game, gameOver, file, exports, torn>> /\ Saved

\* exportSnapshot: any game, a torn one too; the log entry saves.
Export ==
    /\ exports < MaxExports /\ Cardinality(game.board) <= FileCells
    /\ file' = [game |-> game, running |-> running, gameOver |-> gameOver, torn |-> torn]
    /\ exports' = exports + 1
    /\ game' = game /\ Saved /\ UNCHANGED <<running, gameOver, torn>>

\* Mutant of Import: the generator starts anew from the snapshot's seed.
ImportReseeded ==
    /\ file # None
    /\ game' = [file.game EXCEPT !.shuffles = 0]
    /\ running' = file.running /\ gameOver' = file.gameOver /\ torn' = file.torn
    /\ Saved /\ UNCHANGED <<file, exports>>

Import ==
    /\ file # None
    /\ game' = file.game
    /\ running' = file.running /\ gameOver' = file.gameOver /\ torn' = file.torn
    /\ Saved /\ UNCHANGED <<file, exports>>

\* restoreSnapshot refuses a board cell it does not know after the seed, the
\* generator and the board have been replaced; a family it does not know
\* elsewhere, before.
ImportRefused ==
    /\ file # None
    /\ \E cell \in file.game.board :
           game' = [game EXCEPT !.seed = file.game.seed, !.shuffles = file.game.shuffles,
                                !.board = file.game.board \ {cell}]
    /\ torn' = TRUE
    /\ Saved   \* logAction saves
    /\ UNCHANGED <<running, gameOver, file, exports>>

\* The page is loaded: the stored seed, a fresh stack that is not saved, and
\* then logAction("control_loaded"), which saves all the same.
Reload ==
    /\ game' = Fresh(storage.seed) /\ gameOver' = FALSE /\ running' = FALSE /\ torn' = FALSE
    /\ Saved /\ UNCHANGED <<file, exports>>

PolyInit ==
    /\ \E s \in Seeds : game = Fresh(s) /\ storage = [seed |-> s, scored |-> FALSE]
    /\ running = FALSE /\ gameOver = FALSE /\ file = None /\ exports = 0 /\ torn = FALSE

PolyNext ==
    \/ Shift \/ Rotate \/ SoftDrop \/ HardDrop \/ Hold
    \/ \E s \in Seeds : Reset(s)
    \/ ToggleRun \/ Export \/ Import \/ ImportRefused \/ Reload

PolySpec == PolyInit /\ [][PolyNext]_polyVars

-----------------------------------------------------------------------------
Times(families, f) == Cardinality({i \in DOMAIN families : families[i] = f})

\* However it is played, reset, exported and imported, a game loses no piece and has none
\* twice: what was drawn and what is queued are together what the seed's shuffles gave up to
\* the generator's position, in order, unless a refused snapshot left its seed behind; and
\* every piece that was drawn has been locked, falls or is held, once
\* (polymino-control.js:307-368, 405-415, 428-446, 568-584, 638-660).
PiecesFollowTheSeed ==
    /\ torn \/ game.drawn \o game.queue = FlattenSeq(SubSeq(Bag[game.seed], 1, game.shuffles))
    /\ \A f \in Family :
           Times(game.drawn, f) =
               game.locked[f] + (IF game.current.family = f THEN 1 ELSE 0)
                              + (IF game.held = f THEN 1 ELSE 0)

\* No full row is left behind, whatever was restored; and the falling piece never overlaps
\* the stack or a side unless the run is over or a refused snapshot has put its stack under
\* the piece, here or before the export of the snapshot that was imported
\* (polymino-control.js:333-368, 417-426, 455-497, 523-546).
StackIsSettled ==
    /\ Collides(game.current, game.board) => gameOver \/ torn
    /\ \A r \in 0..(Rows - 1) : ~Full(game.board, r)

\* polymino-control-workflow.html: "The control preserves seed, score, and
\* display toggles across reloads."
ReloadKeepsTheScore == [][Reload => storage' = storage]_polyVars
==============================================================================
