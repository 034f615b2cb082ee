------------------------------- MODULE MCPlay -------------------------------
(* An instance of Play for TLC. *)
EXTENDS Play

\* A run of three events, the last one sent by the server's own end of the run.
MCScript == <<"decision", "waveStart", "terminal">>

\* A line that climbs, one that is flat, a steep one, and a parabola; and four cells that
\* tell the rules about paths, the border and the endpoints apart.
MCEnds == {<<0, -1>>}
MCSlopes == {1, -1, -6}
MCSquares == {-1}
MCClicks == {<<1, -3>>, <<-4, -4>>, <<-4, -1>>, <<0, 2>>}

\* A quarter turn, one across zero, the full circle and one short of it.
MCArcs == {<<0, 6>>, <<22, 2>>, <<0, 24>>, <<1, 23>>}
=============================================================================
