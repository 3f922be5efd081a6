-------------------------- MODULE MCStreamReaders --------------------------
(***************************************************************************)
(* The two frame readers for TLC. For the default one: every camera that   *)
(* sends up to two parts, each made of one of these heads and one of these *)
(* bodies, or three parts of a smaller choice. For the native one: the     *)
(* same parts, and up to four whose lengths are not announced and change   *)
(* by half or double or more; four have heads of one length.               *)
(***************************************************************************)
EXTENDS StreamReaders, TLC

Lines == "len:4" :> 4 @@ "len:5" :> 5 @@ "len:3" :> 3 @@ "len:-1" :> -1
         @@ "len:?" :> NotANumber

Heads == {<<>>, <<"-">>, <<"len:4">>, <<"len:5">>, <<"len:3", "-">>, <<"len:-1">>,
          <<"len:4", "len:?">>, <<"esc">>}

Image(n) == <<"FF", "D8">> \o [i \in 1..n |-> "-"] \o <<"FF", "D9">>

Bodies == {Image(0), Image(1),
  <<"FF", "D8", "FF", "FF", "D9">>,        (* with a fill byte             *)
  <<"FF", "D8", "esc", "FF", "D9">>,       (* with what no header may hold *)
  <<"FF", "D8", "-">>,                     (* an image that is cut off     *)
  <<"FF", "-", "D8", "-">>,                (* no image                     *)
  <<>>}

Parts == [head : Heads, body : Bodies]
UpToTwo == UNION {[1..n -> Parts] : n \in 0..2}

(* For the longest streams: right and short lengths, or none, and a body   *)
(* of each kind.                                                           *)
ChosenParts ==
  {p \in Parts : /\ p.head \in {<<>>, <<"len:4">>, <<"len:5">>}
                 /\ p.body \notin {<<>>, <<"FF", "D8", "-">>}}

SilentHeads == {<<>>, <<"-">>, <<"-", "len:?">>}
SilentBodies == {Image(n) : n \in {0, 3, 5}}
Silent == [head : SilentHeads, body : SilentBodies]
SameHead(n) ==
  {[i \in 1..n |-> [head |-> head, body |-> body[i]]] :
     head \in SilentHeads, body \in [1..n -> SilentBodies]}

(* Lengths that change so much that a search ends beyond the mark.         *)
Swinging ==
  {[i \in 1..4 |-> [head |-> <<"-", "-">>, body |-> body[i]]] :
     body \in [1..4 -> {Image(n) : n \in {0, 3, 5, 8}}]}

Cameras == UpToTwo \cup [1..3 -> ChosenParts]
CamerasOfNative ==
  UpToTwo \cup [1..3 -> Silent] \cup SameHead(4) \cup Swinging
Cells == {"FF", "D8", "D9", "-", "esc"} \cup DOMAIN Lines
=============================================================================
