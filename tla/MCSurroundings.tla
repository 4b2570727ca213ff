--------------------------- MODULE MCSurroundings ---------------------------
(***************************************************************************)
(* Constants of Surroundings for TLC.                                      *)
(***************************************************************************)
EXTENDS Surroundings, TLC

\* An older release and the one that replaces it.
TwoReleases == (1 :> 1) @@ (2 :> 3)

\* Two addresses, one of them typed in two ways.
Typed == ("Ann " :> "ann") @@ ("ann" :> "ann") @@ ("bob" :> "bob")

\* A square, a landscape whose short side rounds at a half, panoramas whose short side
\* rounds to nothing, pictures around each target.
SomePictures ==
  {<<1, 1>>, <<5, 5>>, <<3, 4>>, <<4, 3>>, <<7, 2>>, <<40, 1>>, <<1, 40>>, <<13, 12>>,
   <<9, 6>>, <<12, 5>>, <<8, 8>>}

\* 28/10 and 28/0, as a pair and as Pillow's own fraction; 28 as a number and 2.8 as
\* text; other text, and what has no number.
SomeValues ==
  {Absent} \cup [form : {"pair", "rational"}, num : {28}, den : {0, 10}]
           \cup [form : {"number", "text", "other"}, num : {28}, den : {1}]
           \cup [form : {"numeral"}, num : {28}, den : {10}]

=============================================================================
