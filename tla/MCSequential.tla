----------------------------- MODULE MCSequential -----------------------------
(***************************************************************************)
(* The parts that are sequential programs, side by side: the cartridge     *)
(* from power-up to the viewer, the frame codec, the row compiler and the  *)
(* clock.  They share no variable; each behaviour is one of them.          *)
(***************************************************************************)
EXTENDS Viewer, Checksum, FrameCodec, RowCompiler, LocalClock

VARIABLE part  \* which of them runs

allVars == <<part, vars, codecVars, compilerVars, clockVars>>

\* Headers, and payloads with every byte that matters to framing: the delimiter,
\* the escape byte, and what they are sent as.
MCBodies == {<<7, 0, 126, 125, 0, 0>>, <<7, 0, 94, 93, 1, 0, 126>>,
             <<2, 0, 1, 0, 2, 0, 125, 94>>}

\* All stretches of up to three bytes, and some longer than any frame.
MCNoises ==
  UNION {[1..n -> {126, 125, 94, 1}] : n \in 0..3}
  \cup {[i \in 1..n |-> IF i = 1 THEN 126 ELSE 1] : n \in 10..13}

\* Spaces on two backgrounds, letters in three combinations, a mosaic in two.
MCCells ==
  [glyph : {Blank}, foreground : {White}, background : {Black, 1}, mode : {Alpha}]
  \cup [glyph : {65}, foreground : {White}, background : {Black, 1}, mode : {Alpha}]
  \cup [glyph : {65}, foreground : {1}, background : {Black}, mode : {Alpha}]
  \cup [glyph : {65}, foreground : {Black, 1}, background : {White}, mode : {Graphics}]

\* Just before one o'clock UTC, midnight in summer, in winter, and in UTC.
Moments == {3599, 79199, 82799, 86399}

\* Every day of four years but the week from 25 October 2026, when summer time
\* is over and the Pico does not know.
MCFetches == {t \in (19723..21183) \X Moments :
                \A y \in 2024..2027 : ~MissedOctober(t[1], t[2], y)}

\* The end of October of three years.
MCOctobers ==
  ((20384..20395) \cup (20749..20760) \cup (21114..21125)) \X Moments

CodecIdle == CodecStart(<<7, 0, 126, 125, 0, 0>>, <<>>)
ClockIdle == ClockStart(<<19723, 3599>>)

MCInit ==
  \/ part = "cartridge" /\ Init /\ CodecIdle /\ CompilerInit /\ ClockIdle
  \/ part = "codec" /\ Init /\ CodecInit /\ CompilerInit /\ ClockIdle
  \/ part = "compiler" /\ Init /\ CodecIdle /\ CompilerInit /\ ClockIdle
  \/ part = "clock" /\ Init /\ CodecIdle /\ CompilerInit /\ ClockInit

Cartridge(A) ==
  part = "cartridge" /\ A /\ UNCHANGED <<part, codecVars, compilerVars, clockVars>>

MCNext ==
  \/ Cartridge(Next)
  \/ part = "codec" /\ Feed /\ UNCHANGED <<part, vars, compilerVars, clockVars>>
  \/ part = "compiler" /\ CompilerNext /\ UNCHANGED <<part, vars, codecVars, clockVars>>
  \/ part = "clock" /\ HalfSecond /\ UNCHANGED <<part, vars, codecVars, compilerVars>>

MCSpec == MCInit /\ [][MCNext]_allVars /\ WF_allVars(Cartridge(Timer))

MCClockSpec == (MCInit /\ part = "clock") /\ [][MCNext]_allVars
=============================================================================
