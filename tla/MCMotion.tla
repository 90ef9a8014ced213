------------------------------ MODULE MCMotion ------------------------------
(* A chamber of six by six tiles with a corner and a generator, for Motion. *)
EXTENDS Motion

CONSTANT p1

One == {p1}
Pair == 1 .. 2
Border ==
  {t \in (0 .. 7) \X (0 .. 7) : t[1] \in {0, 7} \/ t[2] \in {0, 7}} \cup {<<1, 6>>}
Spawn == {<<2, 3>>}
Middle == <<4, 4>>
Still == <<0, 0>>
Cardinal == {<<1, 0>>, <<-1, 0>>, <<0, 1>>, <<0, -1>>}
Diagonal == {<<1, 1>>, <<-1, 1>>, <<1, -1>>, <<-1, -1>>}
Walks == {Still} \cup Cardinal \cup Diagonal
=============================================================================
