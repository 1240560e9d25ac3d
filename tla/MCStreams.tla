------------------------------ MODULE MCStreams ------------------------------
(***************************************************************************)
(* What one program reads by itself: characters into keys, keys into a     *)
(* prompt, bytes of a child, lines of the app-server and the keys of the   *)
(* game.  The modules have no variable in common: a behaviour exercises    *)
(* one of them, and the others stay as they were.                          *)
(***************************************************************************)
EXTENDS PromptEditor, CodexStream, Polymino, AppServer, KeyReader

VARIABLE reader

vars == <<editorVars, streamVars, polyVars, appVars, keyVars, reader>>

MCPastes == {<<"a">>, <<"n">>, <<"a", "n">>, <<"a", "a">>}

\* The last two: an Escape with enough text behind it, and one that takes the paste's end with it.
MCPasteText == {<<"x">>, <<"x", "r">>, <<"E", "x", "x", "x", "x", "x">>, <<"x", "E">>}

Graphics(payload) == <<"E", "_", "G", payload, "E", "\\">>
MCPayload ==
    [k \in {"1+", "1.", "2+", "1!"} |->
        [id |-> IF k = "2+" THEN "two" ELSE "one", more |-> k \in {"1+", "2+"}, ok |-> k # "1!"]]
MCPiece ==
    {<<"x">>, <<"E", "[", "1", "m">>, <<"E", "]", "x", "B">>, <<"E", "c">>,
     <<"t", "=", "x">>, <<",">>,
     <<"E", "P", "q", "s", "E", "\\">>, <<"E", "P", "q", "E", "\\">>, <<"E", "P", "x", "s", "E", "\\">>}
    \cup {Graphics(k) : k \in DOMAIN MCPayload}

\* A piece of two cells and one of five, whose bag the seed decides.
MCShape ==
    [domino |-> {<<0, 0>>, <<1, 0>>},
     pent   |-> {<<0, 0>>, <<1, 0>>, <<0, 1>>, <<1, 1>>, <<0, 2>>}]
MCBag ==
    [s \in Seeds |-> [n \in 1..MaxShuffles |->
        IF (s + n) % 3 = 0 THEN <<"domino", "pent">> ELSE <<"pent", "domino">>]]

\* A bound: after the first snapshot only torn games are exported.
FewExports == exports = 1 /\ exports' = 2 => torn

Init ==
    /\ reader \in {"editor", "stream", "game", "app-server", "keys"}
    /\ EditorInit /\ PolyInit
    /\ StreamInit
    /\ reader # "stream" => left = <<"x">>
    /\ AppInit
    /\ reader # "app-server" => kind = "request"
    /\ KeyInit

Next ==
    /\ UNCHANGED reader
    /\ \/ /\ reader = "editor" /\ EditorNext
          /\ UNCHANGED <<streamVars, polyVars, appVars, keyVars>>
       \/ /\ reader = "stream" /\ StreamNext
          /\ UNCHANGED <<editorVars, polyVars, appVars, keyVars>>
       \/ /\ reader = "game" /\ PolyNext /\ FewExports
          /\ UNCHANGED <<editorVars, streamVars, appVars, keyVars>>
       \/ /\ reader = "app-server" /\ AppNext
          /\ UNCHANGED <<editorVars, streamVars, polyVars, keyVars>>
       \/ /\ reader = "keys" /\ KeyNext
          /\ UNCHANGED <<editorVars, streamVars, polyVars, appVars>>
       \/ UNCHANGED <<editorVars, streamVars, polyVars, appVars, keyVars>>

\* What is fair of an app-server's call is not enabled before one starts.
Spec == Init /\ [][Next]_vars /\ AppFairness
==============================================================================
