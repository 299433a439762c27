----------------------------- MODULE RowCompiler ------------------------------
(***************************************************************************)
(* compile_row of firmware/src/teletekst.c: the coloured cells of one row  *)
(* become bytes for the SAA5050, whose colours and mode are set by control *)
(* codes that take a cell each.  Dynamic programming over the states of    *)
(* the chip finds the codes that hide as little as possible.  A step of    *)
(* the machine compiles one more cell, so every state is a row.            *)
(***************************************************************************)
EXTENDS Integers, Sequences

CONSTANTS
  Columns,  \* TELETEKST_COLUMNS
  Colours,  \* the foregrounds a code can set: TT_RED to TT_WHITE
  Cells     \* the visual cells considered

Black == 0
White == 7
Alpha == 0
Graphics == 1
Blank == 32
Infinite == 65535

\* What append_cell stores, and a row whose cost stays finite.
ASSUME CompilerAssumption ==
  /\ Colours \subseteq 1..7
  /\ Cells \subseteq [glyph : 32..127, foreground : 0..7, background : 0..7,
                      mode : {Alpha, Graphics}]
  /\ Columns \in Nat /\ 200 * Columns < Infinite

VARIABLES
  row,      \* the cells compiled
  costs,    \* costs, of the states that can be reached
  history   \* compile_history: for each cell and state, where it came from

compilerVars == <<row, costs, history>>

-----------------------------------------------------------------------------
(* A state of the chip, packed. *)
StateIndex(s) == (s.mode * 8 + s.background) * 7 + s.foreground - 1

StateFromIndex(index) ==
  [foreground |-> (index % 7) + 1,
   background |-> (index \div 7) % 8,
   mode       |-> (index \div 7) \div 8]

Initial == [foreground |-> White, background |-> Black, mode |-> Alpha]

Coloured(s, c, mode) == [s EXCEPT !.foreground = c, !.mode = mode]
Backed(s, c) == [s EXCEPT !.background = c]

ControlCost(cell) ==
  IF cell.glyph = Blank THEN 1 ELSE IF cell.mode = Graphics THEN 100 ELSE 200

Edge(next, output, cost) == [next |-> StateIndex(next), output |-> output, cost |-> cost]

\* The ways to show the cell itself.
Shown(s, cell) ==
  IF cell.glyph = Blank
    THEN IF s.background = cell.background THEN {Edge(s, Blank, 0)} ELSE {}
    ELSE IF s.mode # cell.mode THEN {}
    ELSE {Edge(s, e.output, 0) : e \in
           {e \in {[output |-> cell.glyph, fg |-> cell.foreground, bg |-> cell.background],
                   [output |-> cell.glyph + 128, fg |-> cell.background,
                    bg |-> cell.foreground]} :
              s.foreground = e.fg /\ s.background = e.bg}}

\* The codes that set the foreground and the mode of what follows.
SetAfter(s, cell) ==
  IF cell.background # s.background THEN {}
  ELSE UNION {{Edge(Coloured(s, c, Alpha), c, ControlCost(cell)),
               Edge(Coloured(s, c, Graphics), 16 + c, ControlCost(cell))} : c \in Colours}

\* (mutant) The background is set after the code, as the foreground is.
SetAtLate(s, cell) ==
  IF cell.background # s.background THEN {}
  ELSE {Edge(Backed(s, Black), 28, ControlCost(cell)),
        Edge(Backed(s, s.foreground), 29, ControlCost(cell))}

\* The codes that set the background from their own cell on.
SetAt(s, cell) ==
  (IF cell.background = Black
     THEN {Edge(Backed(s, Black), 28, ControlCost(cell))} ELSE {})
  \cup
  (IF cell.background = s.foreground
     THEN {Edge(Backed(s, s.foreground), 29, ControlCost(cell))} ELSE {})

Edges(index, cell) ==
  LET s == StateFromIndex(index)
  IN Shown(s, cell) \cup SetAfter(s, cell) \cup SetAt(s, cell)

\* relax, for every state and edge: the cheapest way stays.  Of two as cheap
\* the code keeps the first, which no property tells apart.
Candidates(cell) ==
  UNION {{[next |-> e.next, previous |-> i, output |-> e.output,
           cost |-> costs[i] + e.cost] : e \in Edges(i, cell)}
         : i \in DOMAIN costs}

CompileCell(cell) ==
  LET candidates == {c \in Candidates(cell) : c.cost < Infinite}
      reached    == {c.next : c \in candidates}
      best       == [i \in reached |->
                      CHOOSE c \in candidates :
                        /\ c.next = i
                        /\ \A d \in candidates : d.next = i => c.cost <= d.cost]
  IN /\ row' = Append(row, cell)
     /\ costs' = [i \in reached |-> best[i].cost]
     /\ history' = Append(history, best)

CompilerInit ==
  row = <<>> /\ costs = [i \in {StateIndex(Initial)} |-> 0] /\ history = <<>>

CompilerNext == Len(row) < Columns /\ \E cell \in Cells : CompileCell(cell)

CompilerSpec == CompilerInit /\ [][CompilerNext]_compilerVars

\* Tracing back from the cheapest state; false when no state was reached.
Compiles == DOMAIN costs # {}

Final == CHOOSE i \in DOMAIN costs : \A j \in DOMAIN costs : costs[i] <= costs[j]

Traced ==
  LET trace[n \in 0..Len(row)] ==  \* the states after the cells, from the end
        IF n = Len(row) THEN Final ELSE history[n + 1][trace[n + 1]].previous
  IN [n \in 1..Len(row) |-> history[n][trace[n]].output]

-----------------------------------------------------------------------------
(***************************************************************************)
(* What the chip shows.                                                    *)
(***************************************************************************)
IsControl(byte) == byte < 32

Inverted(s) == [foreground |-> s.background, background |-> s.foreground, mode |-> s.mode]

\* One cell: what is seen there, and the state after it.
Render(s, byte) ==
  CASE byte \in 1..7   -> [seen |-> s, next |-> Coloured(s, byte, Alpha)]
    [] byte \in 17..23 -> [seen |-> s, next |-> Coloured(s, byte - 16, Graphics)]
    [] byte = 28       -> [seen |-> Backed(s, Black), next |-> Backed(s, Black)]
    [] byte = 29       -> [seen |-> Backed(s, s.foreground), next |-> Backed(s, s.foreground)]
    [] byte > 128      -> [seen |-> Inverted(s), next |-> s]
    [] OTHER           -> [seen |-> s, next |-> s]

\* A cell looks right: its own glyph in its colours, or an empty cell, or a
\* code in its place, with its background.
LooksRight(seen, byte, cell) ==
  IF IsControl(byte) \/ cell.glyph = Blank
    THEN seen.background = cell.background /\ (IsControl(byte) \/ byte = Blank)
    ELSE byte % 128 = cell.glyph
         /\ seen = [foreground |-> cell.foreground, background |-> cell.background,
                    mode |-> cell.mode]

\* The bytes a row is made of: a blank is sent as a space, not as its inverse.
Bytes(cell) ==
  Colours \cup {16 + c : c \in Colours} \cup {28, 29, Blank}
  \cup (IF cell.glyph = Blank THEN {} ELSE {cell.glyph, cell.glyph + 128})

Hides(byte, cell) == IF IsControl(byte) THEN ControlCost(cell) ELSE 0

\* A display of some cells, with one more cell after them.
Extended(displays, cell) ==
  UNION {{[bytes  |-> Append(d.bytes, b), state |-> Render(d.state, b).next,
           hidden |-> d.hidden + Hides(b, cell)]
          : b \in {b \in Bytes(cell) : LooksRight(Render(d.state, b).seen, b, cell)}}
         : d \in displays}

\* Every sequence of bytes that shows the cells, with what it hides.
Displays(cells) ==
  LET upTo[n \in 0..Len(cells)] ==
        IF n = 0 THEN {[bytes |-> <<>>, state |-> Initial, hidden |-> 0]}
        ELSE Extended(upTo[n - 1], cells[n])
  IN upTo[Len(cells)]

\* A row compiles whenever some sequence of bytes shows it, and the one it
\* compiles to shows it and hides as little as any.
HidesLeast ==
  LET displays == Displays(row)
  IN /\ Compiles <=> displays # {}
     /\ Compiles => \E d \in displays :
                      /\ d.bytes = Traced
                      /\ \A other \in displays : d.hidden <= other.hidden
=============================================================================
