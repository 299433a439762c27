-------------------------- MODULE Sequential_proofs ---------------------------
(***************************************************************************)
(* Proofs about the algorithms that run alone.  RowCompiler: the row       *)
(* compiled hides as little as any, for rows of any length whose cost      *)
(* stays below the infinite one.  LocalClock: the clock of the page        *)
(* header, for fetches at any time of the century.                         *)
(***************************************************************************)
EXTENDS RowCompiler, LocalClock, TLAPS, WellFoundedInduction

(***************************************************************************)
(* Induction over the natural numbers, for sets of numbers.                *)
(***************************************************************************)
LEMMA LeastNat ==
  ASSUME NEW T \in SUBSET Nat, T # {}
  PROVE  \E m \in T : \A k \in T : m <= k
<1>1. PICK x \in T : \A y \in T : ~(<<y, x>> \in OpToRel(<, Nat))
  <2>1. \E x \in T : \A y \in T : ~(<<y, x>> \in OpToRel(<, Nat))
    BY NatLessThanWellFounded, WFMin
  <2>. QED BY <2>1
<1>2. ASSUME NEW y \in T PROVE x <= y
  <2>1. ~(y < x)
    BY <1>1 DEF OpToRel
  <2>. QED BY <2>1
<1>. QED BY <1>2

LEMMA NatSetInduction ==
  ASSUME NEW T, 0 \in T, \A n \in Nat : n \in T => n + 1 \in T
  PROVE  Nat \subseteq T
<1>1. SUFFICES ASSUME Nat \ T # {} PROVE FALSE
  OBVIOUS
<1>2. PICK m \in Nat \ T : \A k \in Nat \ T : m <= k
  BY <1>1, LeastNat
<1>3. m - 1 \in Nat /\ m - 1 \in T
  BY <1>2
<1>. QED BY <1>2, <1>3

-----------------------------------------------------------------------------
(***************************************************************************)
(* The states of the chip.                                                 *)
(***************************************************************************)
States == [foreground : 1..7, background : 0..7, mode : {Alpha, Graphics}]

LEMMA IndexOfState == \A s \in States : StateFromIndex(StateIndex(s)) = s
<1> SUFFICES ASSUME NEW s \in States PROVE StateFromIndex(StateIndex(s)) = s
  OBVIOUS
<1>1. /\ s.foreground \in Int /\ 1 <= s.foreground /\ s.foreground <= 7
      /\ s.background \in Int /\ 0 <= s.background /\ s.background <= 7
      /\ s.mode \in 0..1
      /\ s = [foreground |-> s.foreground, background |-> s.background, mode |-> s.mode]
  BY DEF States, Alpha, Graphics
<1> DEFINE i == StateIndex(s)
<1>2. i = 7 * (s.mode * 8 + s.background) + (s.foreground - 1)
  BY <1>1 DEF StateIndex
<1>3. (i % 7) + 1 = s.foreground /\ i \div 7 = s.mode * 8 + s.background
  BY <1>1, <1>2
<1>4. (i \div 7) % 8 = s.background /\ (i \div 7) \div 8 = s.mode
  BY <1>1, <1>3
<1>. QED BY <1>1, <1>3, <1>4 DEF StateFromIndex

LEMMA ChangedStates ==
  ASSUME NEW s \in States
  PROVE  /\ \A c \in 1..7, mode \in {Alpha, Graphics} : Coloured(s, c, mode) \in States
         /\ \A c \in 0..7 : Backed(s, c) \in States /\ Backed(s, c).background = c
         /\ s.foreground \in 1..7 /\ s.foreground \in 0..7 /\ Black \in 0..7
<1>1. \A c \in 1..7, mode \in {Alpha, Graphics} : Coloured(s, c, mode) \in States
  BY DEF States, Coloured
<1>2. \A c \in 0..7 : Backed(s, c) \in States /\ Backed(s, c).background = c
  BY DEF States, Backed
<1>3. s.foreground \in 1..7 /\ s.foreground \in 0..7 /\ Black \in 0..7
  BY DEF States, Black
<1>. QED BY <1>1, <1>2, <1>3

\* What each code and each glyph does to the chip.
Renders(s, b, seen, next) == Render(s, b).seen = seen /\ Render(s, b).next = next

LEMMA RenderCodes ==
  ASSUME NEW s
  PROVE  /\ \A c \in 1..7 : /\ Renders(s, c, s, Coloured(s, c, Alpha))
                            /\ Renders(s, 16 + c, s, Coloured(s, c, Graphics))
         /\ Renders(s, 28, Backed(s, Black), Backed(s, Black))
         /\ Renders(s, 29, Backed(s, s.foreground), Backed(s, s.foreground))
         /\ \A g \in 32..127 : /\ Renders(s, g, s, s)
                               /\ Renders(s, g + 128, Inverted(s), s)
<1>1. ASSUME NEW c \in 1..7 
      PROVE  /\ Renders(s, c, s, Coloured(s, c, Alpha))
             /\ Renders(s, 16 + c, s, Coloured(s, c, Graphics))
  <2>1. Render(s, c) = [seen |-> s, next |-> Coloured(s, c, Alpha)]
    BY SMT DEF Render
  <2>2. 16 + c \in 17..23 /\ ~(16 + c \in 1..7) /\ (16 + c) - 16 = c
    BY SMT
  <2>3. Render(s, 16 + c) = [seen |-> s, next |-> Coloured(s, (16 + c) - 16, Graphics)]
    BY <2>2, SMT DEF Render
  <2>. QED BY <2>1, <2>2, <2>3, SMT DEF Renders
<1>2. Renders(s, 28, Backed(s, Black), Backed(s, Black))
  <2>1. Render(s, 28) = [seen |-> Backed(s, Black), next |-> Backed(s, Black)]
    BY SMT DEF Render
  <2>. QED BY <2>1, SMT DEF Renders
<1>3. Renders(s, 29, Backed(s, s.foreground), Backed(s, s.foreground))
  <2>1. Render(s, 29) = [seen |-> Backed(s, s.foreground),
                         next |-> Backed(s, s.foreground)]
    BY SMT DEF Render
  <2>. QED BY <2>1, SMT DEF Renders
<1>4. ASSUME NEW g \in 32..127
      PROVE  Renders(s, g, s, s) /\ Renders(s, g + 128, Inverted(s), s)
  <2>1. /\ Render(s, g) = [seen |-> s, next |-> s]
        /\ Render(s, g + 128) = [seen |-> Inverted(s), next |-> s]
    BY SMT DEF Render
  <2>. QED BY <2>1, SMT DEF Renders
<1>. QED BY <1>1, <1>2, <1>3, <1>4

(***************************************************************************)
(* The edges of the compiler are the bytes that show the cell.             *)
(***************************************************************************)
Looks(s, b, cell) == LooksRight(Render(s, b).seen, b, cell)

Choices(s, cell) == {b \in Bytes(cell) : Looks(s, b, cell)}

Choice(s, b, cell) == Edge(Render(s, b).next, b, Hides(b, cell))

LEMMA CellTypes ==
  ASSUME NEW cell \in Cells
  PROVE  /\ cell.glyph \in 32..127 /\ cell.foreground \in 0..7
         /\ cell.background \in 0..7 /\ cell.mode \in {Alpha, Graphics}
         /\ ControlCost(cell) \in 0..200
<1>1. cell \in [glyph : 32..127, foreground : 0..7, background : 0..7,
                mode : {Alpha, Graphics}]
  BY CompilerAssumption
<1>. QED BY <1>1, SMT DEF ControlCost

\* When a code, a space or a glyph looks right, and what it hides.
LEMMA CodesLook ==
  ASSUME NEW s \in States, NEW cell \in Cells
  PROVE  /\ \A c \in 1..7 :
              /\ Looks(s, c, cell) <=> cell.background = s.background
              /\ Choice(s, c, cell) = Edge(Coloured(s, c, Alpha), c, ControlCost(cell))
              /\ Looks(s, 16 + c, cell) <=> cell.background = s.background
              /\ Choice(s, 16 + c, cell)
                   = Edge(Coloured(s, c, Graphics), 16 + c, ControlCost(cell))
         /\ Looks(s, 28, cell) <=> cell.background = Black
         /\ Choice(s, 28, cell) = Edge(Backed(s, Black), 28, ControlCost(cell))
         /\ Looks(s, 29, cell) <=> cell.background = s.foreground
         /\ Choice(s, 29, cell) = Edge(Backed(s, s.foreground), 29, ControlCost(cell))
<1>1. ASSUME NEW c \in 1..7
      PROVE  /\ Looks(s, c, cell) <=> cell.background = s.background
             /\ Choice(s, c, cell) = Edge(Coloured(s, c, Alpha), c, ControlCost(cell))
             /\ Looks(s, 16 + c, cell) <=> cell.background = s.background
             /\ Choice(s, 16 + c, cell)
                  = Edge(Coloured(s, c, Graphics), 16 + c, ControlCost(cell))
  <2>1. /\ Renders(s, c, s, Coloured(s, c, Alpha))
        /\ Renders(s, 16 + c, s, Coloured(s, c, Graphics))
    BY RenderCodes, Zenon
  <2>2. IsControl(c) /\ IsControl(16 + c)
    BY SMT DEF IsControl
  <2>. QED BY <2>1, <2>2, Zenon DEF Renders, Looks, LooksRight, Choice, Hides
<1>2. /\ Looks(s, 28, cell) <=> cell.background = Black
      /\ Choice(s, 28, cell) = Edge(Backed(s, Black), 28, ControlCost(cell))
  <2>1. /\ Renders(s, 28, Backed(s, Black), Backed(s, Black))
        /\ Backed(s, Black).background = Black
    BY RenderCodes, ChangedStates, Zenon
  <2>2. IsControl(28)
    BY SMT DEF IsControl
  <2>. QED BY <2>1, <2>2, Zenon DEF Renders, Looks, LooksRight, Choice, Hides
<1>3. /\ Looks(s, 29, cell) <=> cell.background = s.foreground
      /\ Choice(s, 29, cell) = Edge(Backed(s, s.foreground), 29, ControlCost(cell))
  <2>1. /\ Renders(s, 29, Backed(s, s.foreground), Backed(s, s.foreground))
        /\ Backed(s, s.foreground).background = s.foreground
    BY RenderCodes, ChangedStates, Zenon
  <2>2. IsControl(29)
    BY SMT DEF IsControl
  <2>. QED BY <2>1, <2>2, Zenon DEF Renders, Looks, LooksRight, Choice, Hides
<1>. QED BY <1>1, <1>2, <1>3

LEMMA GlyphsLook ==
  ASSUME NEW s \in States, NEW cell \in Cells
  PROVE  /\ Looks(s, Blank, cell) <=> cell.glyph = Blank /\ s.background = cell.background
         /\ Choice(s, Blank, cell) = Edge(s, Blank, 0)
         /\ cell.glyph # Blank =>
              /\ Looks(s, cell.glyph, cell) <=>
                   /\ s.mode = cell.mode /\ s.foreground = cell.foreground
                   /\ s.background = cell.background
              /\ Choice(s, cell.glyph, cell) = Edge(s, cell.glyph, 0)
              /\ Looks(s, cell.glyph + 128, cell) <=>
                   /\ s.mode = cell.mode /\ s.foreground = cell.background
                   /\ s.background = cell.foreground
              /\ Choice(s, cell.glyph + 128, cell) = Edge(s, cell.glyph + 128, 0)
<1> DEFINE g == cell.glyph
<1>1. g \in 32..127 /\ Blank \in 32..127
  BY CellTypes, SMT DEF Blank
<1>2. /\ ~IsControl(g) /\ ~IsControl(g + 128) /\ ~IsControl(Blank)
      /\ g % 128 = g /\ (g + 128) % 128 = g /\ Blank % 128 = Blank
      /\ g + 128 # Blank
  BY <1>1, SMT DEF IsControl, Blank
<1>3. Renders(s, g, s, s) /\ Renders(s, g + 128, Inverted(s), s) /\ Renders(s, Blank, s, s)
  BY <1>1, RenderCodes, Zenon
<1>4. /\ Render(s, g).seen = s /\ Render(s, g).next = s
      /\ Render(s, g + 128).seen = Inverted(s) /\ Render(s, g + 128).next = s
      /\ Render(s, Blank).seen = s /\ Render(s, Blank).next = s
  BY <1>3, Zenon DEF Renders
<1> DEFINE wanted == [foreground |-> cell.foreground, background |-> cell.background,
                      mode |-> cell.mode]
<1>5. /\ s = wanted <=> /\ s.mode = cell.mode /\ s.foreground = cell.foreground
                        /\ s.background = cell.background
      /\ Inverted(s) = wanted <=> /\ s.mode = cell.mode /\ s.foreground = cell.background
                                 /\ s.background = cell.foreground
  BY SMT DEF States, Inverted
<1>6. /\ Choice(s, Blank, cell) = Edge(s, Blank, 0)
      /\ Choice(s, g, cell) = Edge(s, g, 0)
      /\ Choice(s, g + 128, cell) = Edge(s, g + 128, 0)
  BY <1>2, <1>4, Zenon DEF Choice, Hides
<1>7. Looks(s, Blank, cell) <=> g = Blank /\ s.background = cell.background
  BY <1>2, <1>4, Zenon DEF Looks, LooksRight
<1>8. ASSUME g # Blank
      PROVE  /\ Looks(s, g, cell) <=> s = wanted
             /\ Looks(s, g + 128, cell) <=> Inverted(s) = wanted
  BY <1>2, <1>4, <1>8, Zenon DEF Looks, LooksRight
<1> HIDE DEF wanted
<1>. QED BY <1>5, <1>6, <1>7, <1>8, Zenon

LEMMA EdgesAreChoices ==
  ASSUME NEW s \in States, NEW cell \in Cells
  PROVE  Edges(StateIndex(s), cell) = {Choice(s, b, cell) : b \in Choices(s, cell)}
<1> DEFINE Shows(b, e) == Looks(s, b, cell) /\ e = Choice(s, b, cell)
<1>1. ASSUME NEW e
      PROVE  e \in SetAfter(s, cell) <=>
               \E c \in Colours : Shows(c, e) \/ Shows(16 + c, e)
  <2>1. \A c \in Colours : c \in 1..7
    BY CompilerAssumption, Zenon
  <2>2. \A c \in Colours :
          (Shows(c, e) \/ Shows(16 + c, e)) <=>
             /\ cell.background = s.background
             /\ \/ e = Edge(Coloured(s, c, Alpha), c, ControlCost(cell))
                \/ e = Edge(Coloured(s, c, Graphics), 16 + c, ControlCost(cell))
    BY <2>1, CodesLook, Zenon
  <2> HIDE DEF Shows
  <2> DEFINE codes == {{Edge(Coloured(s, c, Alpha), c, ControlCost(cell)),
                        Edge(Coloured(s, c, Graphics), 16 + c, ControlCost(cell))}
                       : c \in Colours}
  <2>3. e \in UNION codes <=>
          \E c \in Colours : \/ e = Edge(Coloured(s, c, Alpha), c, ControlCost(cell))
                            \/ e = Edge(Coloured(s, c, Graphics), 16 + c, ControlCost(cell))
    BY Zenon
  <2>4. SetAfter(s, cell) = IF cell.background # s.background THEN {} ELSE UNION codes
    BY Zenon DEF SetAfter
  <2> HIDE DEF codes
  <2>. QED BY <2>2, <2>3, <2>4, Zenon
<1>2. ASSUME NEW e
      PROVE  e \in SetAt(s, cell) <=> Shows(28, e) \/ Shows(29, e)
  <2>1. /\ Shows(28, e) <=> /\ cell.background = Black
                            /\ e = Edge(Backed(s, Black), 28, ControlCost(cell))
        /\ Shows(29, e) <=> /\ cell.background = s.foreground
                            /\ e = Edge(Backed(s, s.foreground), 29, ControlCost(cell))
    BY CodesLook, Zenon
  <2> HIDE DEF Shows
  <2>. QED BY <2>1, Zenon DEF SetAt
<1>3. ASSUME NEW e
      PROVE  e \in Shown(s, cell) <=>
               \/ Shows(Blank, e)
               \/ cell.glyph # Blank /\ (Shows(cell.glyph, e) \/ Shows(cell.glyph + 128, e))
  <2>1. CASE cell.glyph = Blank
    <3>1. Shows(Blank, e) <=> s.background = cell.background /\ e = Edge(s, Blank, 0)
      BY <2>1, GlyphsLook, Zenon
    <3> HIDE DEF Shows
    <3>. QED BY <2>1, <3>1, Zenon DEF Shown
  <2>2. CASE cell.glyph # Blank
    <3> DEFINE plain == [output |-> cell.glyph, fg |-> cell.foreground,
                         bg |-> cell.background]
               inverse == [output |-> cell.glyph + 128, fg |-> cell.background,
                           bg |-> cell.foreground]
    <3>1. /\ plain.output = cell.glyph /\ plain.fg = cell.foreground
          /\ plain.bg = cell.background /\ inverse.output = cell.glyph + 128
          /\ inverse.fg = cell.background /\ inverse.bg = cell.foreground
      BY SMT
    <3>2. /\ ~Shows(Blank, e)
          /\ Shows(cell.glyph, e) <=>
               /\ s.mode = cell.mode /\ s.foreground = cell.foreground
               /\ s.background = cell.background /\ e = Edge(s, cell.glyph, 0)
          /\ Shows(cell.glyph + 128, e) <=>
               /\ s.mode = cell.mode /\ s.foreground = cell.background
               /\ s.background = cell.foreground /\ e = Edge(s, cell.glyph + 128, 0)
      BY <2>2, GlyphsLook, ZenonT(60)
    <3>3. e \in Shown(s, cell) <=>
            /\ s.mode = cell.mode
            /\ \E w \in {plain, inverse} :
                 s.foreground = w.fg /\ s.background = w.bg /\ e = Edge(s, w.output, 0)
      <4> HIDE DEF Shows
      <4>. QED BY <2>2, Zenon DEF Shown
    <3> HIDE DEF plain, inverse, Shows
    <3>. QED BY <2>2, <3>1, <3>2, <3>3, Zenon
  <2>. QED BY <2>1, <2>2, Zenon
<1> DEFINE Code(b) == b \in Colours \/ b \in {16 + c : c \in Colours} \/ b = 28 \/ b = 29
           Seen(b) == b = Blank \/ (cell.glyph # Blank /\ (b = cell.glyph \/ b = cell.glyph + 128))
<1>4. \A b : b \in Bytes(cell) <=> Code(b) \/ Seen(b)
  BY Zenon DEF Bytes
<1>5. ASSUME NEW e
      PROVE  /\ (e \in SetAfter(s, cell) \/ e \in SetAt(s, cell))
                  <=> \E b : Code(b) /\ Shows(b, e)
             /\ e \in Shown(s, cell) <=> \E b : Seen(b) /\ Shows(b, e)
  <2> HIDE DEF Shows
  <2>. QED BY <1>1, <1>2, <1>3, Zenon
<1>6. StateFromIndex(StateIndex(s)) = s
  BY IndexOfState, Zenon
<1>7. ASSUME NEW e
      PROVE  e \in Edges(StateIndex(s), cell) <=> \E b \in Bytes(cell) : Shows(b, e)
  <2> HIDE DEF Code, Seen, Shows
  <2>1. e \in Edges(StateIndex(s), cell) <=>
          e \in Shown(s, cell) \/ e \in SetAfter(s, cell) \/ e \in SetAt(s, cell)
    BY <1>6, Zenon DEF Edges
  <2>. QED BY <2>1, <1>4, <1>5, Zenon
<1>. QED BY <1>7, Zenon DEF Choices

LEMMA ChoiceTypes ==
  ASSUME NEW s \in States, NEW cell \in Cells, NEW b \in Bytes(cell)
  PROVE  /\ Render(s, b).next \in States
         /\ Hides(b, cell) \in 0..200
<1>1. Hides(b, cell) \in 0..200
  <2>1. ControlCost(cell) \in 0..200 /\ 0 \in 0..200
    BY CellTypes, SMT
  <2>. QED BY <2>1, Zenon DEF Hides
<1>2. \/ b \in Colours \/ b \in {16 + c : c \in Colours}
      \/ b = 28 \/ b = 29 \/ b = Blank
      \/ b = cell.glyph \/ b = cell.glyph + 128
  BY Zenon DEF Bytes
<1>3. ASSUME NEW c \in Colours
      PROVE  Render(s, c).next \in States /\ Render(s, 16 + c).next \in States
  <2>1. c \in 1..7
    BY CompilerAssumption, Zenon
  <2>2. Coloured(s, c, Alpha) \in States /\ Coloured(s, c, Graphics) \in States
    BY <2>1, ChangedStates, Zenon
  <2>. QED BY <2>1, <2>2, RenderCodes, Zenon DEF Renders
<1>4. Render(s, 28).next \in States /\ Render(s, 29).next \in States
  <2>1. Backed(s, Black) \in States /\ Backed(s, s.foreground) \in States
    BY ChangedStates, Zenon
  <2>2. /\ Renders(s, 28, Backed(s, Black), Backed(s, Black))
        /\ Renders(s, 29, Backed(s, s.foreground), Backed(s, s.foreground))
    BY RenderCodes, Zenon
  <2>. QED BY <2>1, <2>2, Zenon DEF Renders
<1>5. Blank \in 32..127 /\ cell.glyph \in 32..127
  BY CellTypes, SMT DEF Blank
<1>6. /\ Render(s, Blank).next \in States /\ Render(s, cell.glyph).next \in States
      /\ Render(s, cell.glyph + 128).next \in States
  BY <1>5, RenderCodes, Zenon DEF Renders
<1>. QED BY <1>1, <1>2, <1>3, <1>4, <1>6, Zenon

-----------------------------------------------------------------------------
(***************************************************************************)
(* The displays of a row, one cell after the other.                        *)
(***************************************************************************)
Nothing == [bytes |-> <<>>, state |-> Initial, hidden |-> 0]

\* f has the displays of the first n cells, for n up to L.
Grown(f, cells, L) ==
  f = [n \in 0..L |-> IF n = 0 THEN {Nothing} ELSE Extended(f[n - 1], cells[n])]

LEMMA GrownStep ==
  ASSUME NEW f, NEW cells, NEW L \in Nat, Grown(f, cells, L)
  PROVE  f[0] = {Nothing} /\ \A n \in 1..L : f[n] = Extended(f[n - 1], cells[n])
<1>1. 0 \in 0..L /\ \A n \in 1..L : n \in 0..L /\ n # 0
  BY SMT
<1>. QED BY <1>1, Zenon DEF Grown

LEMMA GrownFurther ==
  ASSUME NEW f, NEW cells, NEW L \in Nat, Grown(f, cells, L)
  PROVE  \E g : Grown(g, cells, L + 1)
<1> DEFINE g == [n \in 0..(L + 1) |->
                  IF n = L + 1 THEN Extended(f[L], cells[L + 1]) ELSE f[n]]
<1>1. \A n \in 0..(L + 1) :
        g[n] = IF n = 0 THEN {Nothing} ELSE Extended(g[n - 1], cells[n])
  <2>1. ASSUME NEW n \in 1..L PROVE g[n] = Extended(g[n - 1], cells[n])
    <3>1. n \in 0..(L + 1) /\ n # L + 1 /\ n - 1 \in 0..(L + 1) /\ n - 1 # L + 1
      BY SMT
    <3>2. g[n] = f[n] /\ g[n - 1] = f[n - 1]
      BY <3>1, Zenon
    <3>3. f[n] = Extended(f[n - 1], cells[n])
      BY GrownStep
    <3> HIDE DEF g
    <3>. QED BY <3>2, <3>3, Zenon
  <2>2. g[L + 1] = Extended(g[(L + 1) - 1], cells[L + 1])
    <3>1. L + 1 \in 0..(L + 1) /\ L \in 0..(L + 1) /\ L # L + 1 /\ (L + 1) - 1 = L
      BY SMT
    <3>. QED BY <3>1, Zenon
  <2>3. g[0] = {Nothing}
    <3>1. 0 \in 0..(L + 1) /\ 0 # L + 1
      BY SMT
    <3>. QED BY <3>1, GrownStep, Zenon
  <2>4. \A n \in 0..(L + 1) : n = 0 \/ n \in 1..L \/ n = L + 1
    BY SMT
  <2>5. L + 1 # 0 /\ \A n \in 1..L : n # 0
    BY SMT
  <2> HIDE DEF g
  <2>. QED BY <2>1, <2>2, <2>3, <2>4, <2>5, Zenon
<1>2. g = [n \in 0..(L + 1) |-> g[n]]
  BY Zenon
<1> HIDE DEF g
<1>3. Grown(g, cells, L + 1)
  BY <1>1, <1>2, Zenon DEF Grown
<1>. QED BY <1>3

LEMMA GrownExists ==
  ASSUME NEW cells, NEW L \in Nat
  PROVE  \E f : Grown(f, cells, L)
<1> DEFINE T == {n \in Nat : ~\E f : Grown(f, cells, n)}
<1>1. SUFFICES ASSUME T # {} PROVE FALSE
  OBVIOUS
<1>2. PICK n \in T : \A k \in T : n <= k
  BY <1>1, LeastNat
<1>3. Grown([n0 \in 0..0 |-> {Nothing}], cells, 0)
  <2>1. \A n0 \in 0..0 : n0 = 0
    BY SMT
  <2>. QED BY <2>1, Zenon DEF Grown
<1>4. n # 0
  BY <1>2, <1>3
<1>5. n - 1 \in Nat /\ ~(n - 1 \in T) /\ (n - 1) + 1 = n
  BY <1>2, <1>4
<1>6. \E f : Grown(f, cells, n - 1)
  BY <1>5
<1>7. \E f : Grown(f, cells, (n - 1) + 1)
  BY <1>5, <1>6, GrownFurther
<1>. QED BY <1>2, <1>5, <1>7

LEMMA GrownUnique ==
  ASSUME NEW f, NEW g, NEW a, NEW b, NEW L \in Nat, NEW M \in Nat, L <= M,
         Grown(f, a, L), Grown(g, b, M), \A n \in 1..L : a[n] = b[n]
  PROVE  \A n \in 0..L : f[n] = g[n]
<1> DEFINE T == {n \in 0..L : f[n] # g[n]}
<1>1. SUFFICES ASSUME T # {} PROVE FALSE
  OBVIOUS
<1>2. T \in SUBSET Nat
  OBVIOUS
<1>3. PICK n \in T : \A k \in T : n <= k
  BY <1>1, <1>2, LeastNat
<1>4. /\ f[0] = g[0]
      /\ \A k \in 1..L : f[k] = Extended(f[k - 1], a[k])
      /\ \A k \in 1..M : g[k] = Extended(g[k - 1], b[k])
  <2>1. f[0] = {Nothing} /\ \A k \in 1..L : f[k] = Extended(f[k - 1], a[k])
    BY GrownStep
  <2>2. g[0] = {Nothing} /\ \A k \in 1..M : g[k] = Extended(g[k - 1], b[k])
    BY GrownStep
  <2>. QED BY <2>1, <2>2
<1>5. n \in 1..L /\ n \in 1..M /\ n - 1 \in 0..L /\ ~(n <= n - 1)
  BY <1>3, <1>4
<1>6. f[n - 1] = g[n - 1]
  BY <1>3, <1>5
<1>7. f[n] = g[n]
  BY <1>4, <1>5, <1>6
<1>. QED BY <1>3, <1>7

LEMMA DisplaysValue ==
  ASSUME NEW cells, Len(cells) \in Nat, NEW f, Grown(f, cells, Len(cells))
  PROVE  Displays(cells) = f[Len(cells)]
<1> DEFINE upTo == CHOOSE g : Grown(g, cells, Len(cells))
<1>1. Displays(cells) = upTo[Len(cells)]
  BY Zenon DEF Displays, Grown, Nothing
<1>2. Grown(upTo, cells, Len(cells))
  OBVIOUS
<1> HIDE DEF upTo
<1>3. Len(cells) \in 0..Len(cells) /\ Len(cells) <= Len(cells)
  BY SMT
<1>4. \A n \in 0..Len(cells) : f[n] = upTo[n]
  BY <1>2, <1>3, GrownUnique
<1>. QED BY <1>1, <1>3, <1>4, Zenon

LEMMA DisplaysEmpty == Displays(<<>>) = {Nothing}
<1>1. Len(<<>>) = 0
  OBVIOUS
<1>2. PICK f : Grown(f, <<>>, 0)
  BY GrownExists
<1>3. f[0] = {Nothing}
  BY <1>2, GrownStep
<1>. QED BY <1>1, <1>2, <1>3, DisplaysValue

LEMMA DisplaysAppend ==
  ASSUME NEW cells \in Seq(Cells), NEW cell \in Cells
  PROVE  Displays(Append(cells, cell)) = Extended(Displays(cells), cell)
<1> DEFINE longer == Append(cells, cell)
           L == Len(cells)
<1>1. /\ L \in Nat /\ Len(longer) = L + 1 /\ longer[L + 1] = cell
      /\ \A n \in 1..L : cells[n] = longer[n]
  OBVIOUS
<1> HIDE DEF longer, L
<1>2. PICK f : Grown(f, cells, L)
  BY <1>1, GrownExists
<1>3. PICK g : Grown(g, longer, L + 1)
  BY <1>1, GrownExists
<1>4. f[L] = g[L]
  <2>1. L + 1 \in Nat /\ L <= L + 1 /\ L \in 0..L
    BY <1>1
  <2>. QED BY <1>1, <1>2, <1>3, <2>1, GrownUnique
<1>5. g[L + 1] = Extended(g[L], cell)
  <2>1. L + 1 \in Nat /\ L + 1 \in 1..(L + 1) /\ (L + 1) - 1 = L
    BY <1>1
  <2>. QED BY <1>1, <1>3, <2>1, GrownStep
<1>6. Displays(cells) = f[L]
  BY <1>1, <1>2, DisplaysValue DEF L
<1>7. Displays(longer) = g[L + 1]
  BY <1>1, <1>3, DisplaysValue
<1>. QED BY <1>4, <1>5, <1>6, <1>7 DEF longer

-----------------------------------------------------------------------------
(***************************************************************************)
(* One more byte of a display.                                             *)
(***************************************************************************)
Step(d, b, cell) ==
  [bytes |-> Append(d.bytes, b), state |-> Render(d.state, b).next,
   hidden |-> d.hidden + Hides(b, cell)]

DisplayTyped(d, n) ==
  /\ d.bytes \in Seq(Int) /\ Len(d.bytes) = n
  /\ d.state \in States
  /\ d.hidden \in Nat /\ d.hidden <= 200 * n

LEMMA StepFields ==
  ASSUME NEW d, NEW b, NEW cell
  PROVE  /\ Step(d, b, cell).bytes = Append(d.bytes, b)
         /\ Step(d, b, cell).state = Render(d.state, b).next
         /\ Step(d, b, cell).hidden = d.hidden + Hides(b, cell)
BY SMT DEF Step

LEMMA ExtendedSteps ==
  ASSUME NEW D, NEW cell, NEW x
  PROVE  x \in Extended(D, cell) <=>
           \E d \in D : \E b \in Choices(d.state, cell) : x = Step(d, b, cell)
<1> DEFINE After(d) == {Step(d, b, cell) : b \in Choices(d.state, cell)}
<1>1. Extended(D, cell) = UNION {After(d) : d \in D}
  BY Zenon DEF Extended, Choices, Looks, Step
<1>2. \A d : x \in After(d) <=> \E b \in Choices(d.state, cell) : x = Step(d, b, cell)
  BY Zenon
<1> HIDE DEF After
<1>3. x \in UNION {After(d) : d \in D} <=> \E d \in D : x \in After(d)
  BY Zenon
<1>. QED BY <1>1, <1>2, <1>3, Zenon

LEMMA BytesAreIntegers ==
  ASSUME NEW cell \in Cells, NEW b \in Bytes(cell)
  PROVE  b \in Int
<1>1. \A c \in Colours : c \in Int /\ 16 + c \in Int
  BY CompilerAssumption, SMT
<1>2. cell.glyph \in Int /\ cell.glyph + 128 \in Int /\ Blank \in Int /\ 28 \in Int /\ 29 \in Int
  BY CellTypes, SMT DEF Blank
<1>. QED BY <1>1, <1>2, Zenon DEF Bytes

LEMMA StepTyped ==
  ASSUME NEW d, NEW n \in Nat, DisplayTyped(d, n), NEW cell \in Cells,
         NEW b \in Choices(d.state, cell)
  PROVE  DisplayTyped(Step(d, b, cell), n + 1)
<1>1. b \in Bytes(cell) /\ d.state \in States
  BY Zenon DEF Choices, DisplayTyped
<1>2. b \in Int /\ Render(d.state, b).next \in States /\ Hides(b, cell) \in 0..200
  BY <1>1, BytesAreIntegers, ChoiceTypes, Zenon
<1>3. Append(d.bytes, b) \in Seq(Int) /\ Len(Append(d.bytes, b)) = n + 1
  BY <1>2, SMT DEF DisplayTyped
<1>4. d.hidden + Hides(b, cell) \in Nat /\ d.hidden + Hides(b, cell) <= 200 * (n + 1)
  <2> DEFINE h == d.hidden
             k == Hides(b, cell)
  <2>1. h \in Nat /\ h <= 200 * n
    BY Zenon DEF DisplayTyped
  <2>2. k \in Int /\ 0 <= k /\ k <= 200
    BY <1>2, SMT
  <2> HIDE DEF h, k
  <2>3. h + k \in Nat /\ h + k <= 200 * (n + 1)
    BY <2>1, <2>2, SMT
  <2>. QED BY <2>3 DEF h, k
<1>. QED BY <1>2, <1>3, <1>4, StepFields, Zenon DEF DisplayTyped

-----------------------------------------------------------------------------
(***************************************************************************)
(* The invariant: the displays of the row, the costs, and the history.     *)
(***************************************************************************)
\* f goes back from state i, by the history.
Path(f, h, L, i) ==
  f[L] = i /\ \A n \in 1..L : f[n - 1] = h[n][f[n]].previous

\* The bytes on it.
Written(f, h, L) == [n \in 1..L |-> h[n][f[n]].output]

RowTyped ==
  /\ row \in Seq(Cells) /\ Len(row) \in Nat /\ Len(row) <= Columns
  /\ Len(history) = Len(row) /\ \E S : history \in Seq(S)

\* No display hides less than the costs say,
NoCheaper ==
  \A d \in Displays(row) :
    /\ DisplayTyped(d, Len(row))
    /\ StateIndex(d.state) \in DOMAIN costs
    /\ costs[StateIndex(d.state)] <= d.hidden

\* and the one the history leads to hides as much.
Reached ==
  \A i \in DOMAIN costs :
    \E d \in Displays(row) : \E f :
      /\ StateIndex(d.state) = i /\ d.hidden = costs[i]
      /\ Path(f, history, Len(row), i)
      /\ d.bytes = Written(f, history, Len(row))

CompilerInv == RowTyped /\ NoCheaper /\ Reached

\* A candidate comes from a state reached and a byte that looks right.
Candidate(s, b, cell) ==
  [next |-> StateIndex(Render(s, b).next), previous |-> StateIndex(s), output |-> b,
   cost |-> costs[StateIndex(s)] + Hides(b, cell)]

LEMMA CandidateFields ==
  ASSUME NEW s, NEW b, NEW cell
  PROVE  /\ Candidate(s, b, cell).next = StateIndex(Render(s, b).next)
         /\ Candidate(s, b, cell).previous = StateIndex(s)
         /\ Candidate(s, b, cell).output = b
         /\ Candidate(s, b, cell).cost = costs[StateIndex(s)] + Hides(b, cell)
BY SMT DEF Candidate

LEMMA CostsReached ==
  ASSUME NoCheaper, Reached, NEW i \in DOMAIN costs
  PROVE  \E s \in States : i = StateIndex(s) /\ costs[i] \in Nat /\ costs[i] <= 200 * Len(row)
<1>1. PICK d \in Displays(row) : StateIndex(d.state) = i /\ d.hidden = costs[i]
  BY Zenon DEF Reached
<1>2. DisplayTyped(d, Len(row))
  BY Zenon DEF NoCheaper
<1>. QED BY <1>1, <1>2, Zenon DEF DisplayTyped

LEMMA CandidatesAre ==
  ASSUME NoCheaper, Reached, NEW cell \in Cells, NEW c
  PROVE  c \in Candidates(cell) <=>
           \E s \in States : /\ StateIndex(s) \in DOMAIN costs
                             /\ \E b \in Choices(s, cell) : c = Candidate(s, b, cell)
<1> DEFINE Relaxed(i, e) == [next |-> e.next, previous |-> i, output |-> e.output,
                             cost |-> costs[i] + e.cost]
<1>1. c \in Candidates(cell) <=>
        \E i \in DOMAIN costs : \E e \in Edges(i, cell) : c = Relaxed(i, e)
  <2> DEFINE From(i) == {Relaxed(i, e) : e \in Edges(i, cell)}
  <2>1. Candidates(cell) = UNION {From(i) : i \in DOMAIN costs}
    BY Zenon DEF Candidates
  <2> HIDE DEF Relaxed
  <2>2. \A i : c \in From(i) <=> \E e \in Edges(i, cell) : c = Relaxed(i, e)
    BY Zenon
  <2> HIDE DEF From
  <2>3. c \in UNION {From(i) : i \in DOMAIN costs} <=> \E i \in DOMAIN costs : c \in From(i)
    BY Zenon
  <2>. QED BY <2>1, <2>2, <2>3, Zenon
<1>2. \A i \in DOMAIN costs : \E s \in States : i = StateIndex(s)
  BY CostsReached, Zenon
<1>3. ASSUME NEW s \in States, NEW b
      PROVE  Relaxed(StateIndex(s), Choice(s, b, cell)) = Candidate(s, b, cell)
  <2>1. /\ Choice(s, b, cell).next = StateIndex(Render(s, b).next)
        /\ Choice(s, b, cell).output = b /\ Choice(s, b, cell).cost = Hides(b, cell)
    BY SMT DEF Choice, Edge
  <2>. QED BY <2>1, Zenon DEF Candidate
<1>4. ASSUME NEW s \in States
      PROVE  (\E e \in Edges(StateIndex(s), cell) : c = Relaxed(StateIndex(s), e))
               <=> \E b \in Choices(s, cell) : c = Candidate(s, b, cell)
  <2> HIDE DEF Relaxed
  <2>1. \A e : e \in Edges(StateIndex(s), cell) <=>
                 \E b \in Choices(s, cell) : e = Choice(s, b, cell)
    BY EdgesAreChoices, Zenon
  <2>2. \A b : Relaxed(StateIndex(s), Choice(s, b, cell)) = Candidate(s, b, cell)
    BY <1>3
  <2>3. ASSUME NEW e \in Edges(StateIndex(s), cell), c = Relaxed(StateIndex(s), e)
        PROVE  \E b \in Choices(s, cell) : c = Candidate(s, b, cell)
    <3>1. PICK b \in Choices(s, cell) : e = Choice(s, b, cell)
      BY <2>1
    <3>2. c = Candidate(s, b, cell)
      BY <2>2, <2>3, <3>1
    <3>. QED BY <3>2
  <2>4. ASSUME NEW b \in Choices(s, cell), c = Candidate(s, b, cell)
        PROVE  \E e \in Edges(StateIndex(s), cell) : c = Relaxed(StateIndex(s), e)
    <3>1. Choice(s, b, cell) \in Edges(StateIndex(s), cell)
      BY <2>1
    <3>2. c = Relaxed(StateIndex(s), Choice(s, b, cell))
      BY <2>2, <2>4
    <3>. QED BY <3>1, <3>2
  <2>. QED BY <2>3, <2>4
<1> HIDE DEF Relaxed
<1>. QED BY <1>1, <1>2, <1>4, Zenon

\* No cost comes near the infinite one, so every candidate is kept.
LEMMA CandidateCosts ==
  ASSUME RowTyped, NoCheaper, Reached, Len(row) < Columns, NEW cell \in Cells,
         NEW c \in Candidates(cell)
  PROVE  c.cost \in Nat /\ c.cost < Infinite
<1>0. PICK s \in States : /\ StateIndex(s) \in DOMAIN costs
                          /\ \E b \in Choices(s, cell) : c = Candidate(s, b, cell)
  BY CandidatesAre, Zenon
<1>1. PICK b \in Choices(s, cell) : c = Candidate(s, b, cell)
  BY <1>0
<1> DEFINE before == costs[StateIndex(s)]
           hides  == Hides(b, cell)
<1>2. before \in Nat /\ before <= 200 * Len(row)
  BY <1>0, CostsReached, Zenon
<1>3. hides \in 0..200
  BY ChoiceTypes, Zenon DEF Choices
<1>4. c.cost = before + hides
  <2>1. Candidate(s, b, cell).cost = before + hides
    BY CandidateFields
  <2>. QED BY <1>1, <2>1
<1> HIDE DEF before, hides
<1>5. Len(row) \in Nat /\ Columns \in Nat /\ 200 * Columns < Infinite /\ Infinite \in Nat
  BY CompilerAssumption, SMT DEF RowTyped, Infinite
<1>. QED BY <1>2, <1>3, <1>4, <1>5, SMT

\* The cheapest candidate for each state that has one.
LEMMA Compiled ==
  ASSUME RowTyped, NoCheaper, Reached, Len(row) < Columns, NEW cell \in Cells,
         CompileCell(cell)
  PROVE  /\ \A c \in Candidates(cell) : c.next \in DOMAIN costs' /\ costs'[c.next] <= c.cost
         /\ \E best : /\ history' = Append(history, best)
                      /\ \A j \in DOMAIN costs' : /\ best[j] \in Candidates(cell)
                                                  /\ best[j].next = j
                                                  /\ costs'[j] = best[j].cost
<1> DEFINE all     == Candidates(cell)
           kept    == {c \in all : c.cost < Infinite}
           Reaching(i) == {c \in all : c.next = i}
           Least(c, i) == /\ c.next = i
                          /\ \A d \in all : d.next = i => c.cost <= d.cost
           reached == {c.next : c \in all}
           best    == [i \in reached |-> CHOOSE c \in all : Least(c, i)]
<1>1. \A c \in all : c.cost \in Nat /\ c.cost < Infinite
  BY CandidateCosts, Zenon
<1>2. kept = all
  BY <1>1, Zenon
<1>3. costs' = [i \in reached |-> best[i].cost] /\ history' = Append(history, best)
  <2> DEFINE bestOf(K) == [i \in {c.next : c \in K} |->
                            CHOOSE c \in K : /\ c.next = i
                                             /\ \A d \in K : d.next = i => c.cost <= d.cost]
             costsOf(K) == [i \in {c.next : c \in K} |-> bestOf(K)[i].cost]
  <2>1. costs' = costsOf(kept) /\ history' = Append(history, bestOf(kept))
    BY Zenon DEF CompileCell
  <2>2. best = bestOf(all) /\ [i \in reached |-> best[i].cost] = costsOf(all)
    BY Zenon
  <2> HIDE DEF bestOf, costsOf, kept, best, reached
  <2>. QED BY <1>2, <2>1, <2>2
<1>4. ASSUME NEW i \in reached
      PROVE  \E c \in all : Least(c, i)
  <2> DEFINE T == {c.cost : c \in Reaching(i)}
  <2>1. T \in SUBSET Nat
    BY <1>1, Zenon
  <2>2. T # {}
    BY Zenon
  <2> HIDE DEF T
  <2>3. PICK m \in T : \A k \in T : m <= k
    BY <2>1, <2>2, LeastNat
  <2>4. PICK c \in Reaching(i) : m = c.cost
    BY <2>3, Zenon DEF T
  <2>5. \A d \in all : d.next = i => d.cost \in T
    BY Zenon DEF T
  <2>6. Least(c, i)
    BY <2>3, <2>4, <2>5, Zenon
  <2>. QED BY <2>4, <2>6, Zenon
<1>5. \A i \in reached : best[i] \in all /\ Least(best[i], i)
  <2> HIDE DEF Least, reached, all
  <2>. QED BY <1>4, Zenon
<1>6. DOMAIN costs' = reached /\ \A i \in reached : costs'[i] = best[i].cost
  BY <1>3, Zenon
<1>7. \A c \in all : c.next \in reached
  BY Zenon
<1> HIDE DEF best, reached, all
<1>8. ASSUME NEW c \in all PROVE c.next \in DOMAIN costs' /\ costs'[c.next] <= c.cost
  <2>1. c.next \in reached
    BY <1>7
  <2>2. best[c.next].cost <= c.cost
    BY <1>5, <2>1
  <2>. QED BY <1>6, <2>1, <2>2
<1>9. \A j \in DOMAIN costs' : best[j] \in all /\ best[j].next = j /\ costs'[j] = best[j].cost
  BY <1>5, <1>6
<1>. QED BY <1>3, <1>8, <1>9 DEF all

LEMMA HistoryAppend ==
  ASSUME RowTyped, NEW cell \in Cells, Len(row) < Columns, CompileCell(cell),
         NEW best, history' = Append(history, best)
  PROVE  /\ RowTyped'
         /\ Len(row') = Len(row) + 1
         /\ history'[Len(row) + 1] = best
         /\ \A n \in 1..Len(row) : history'[n] = history[n]
<1>1. row' = Append(row, cell)
  BY Zenon DEF CompileCell
<1>2. row' \in Seq(Cells) /\ Len(row') = Len(row) + 1
  BY <1>1, SMT DEF RowTyped
<1>3. PICK S : history \in Seq(S)
  BY Zenon DEF RowTyped
<1>4. history \in Seq(S \cup {best})
  BY <1>3, SMT
<1>5. /\ history' \in Seq(S \cup {best})
      /\ Len(history') = Len(history) + 1
      /\ history'[Len(history) + 1] = best
      /\ \A n \in 1..Len(history) : history'[n] = history[n]
  BY <1>4, SMT
<1>6. Len(row') \in Nat /\ Len(row') <= Columns
  BY <1>2, CompilerAssumption, SMT DEF RowTyped
<1>7. RowTyped'
  BY <1>2, <1>5, <1>6, Zenon DEF RowTyped
<1>. QED BY <1>2, <1>5, <1>7, Zenon DEF RowTyped

-----------------------------------------------------------------------------
(***************************************************************************)
(* A cell compiled.                                                        *)
(***************************************************************************)
LEMMA NoCheaperNext ==
  ASSUME RowTyped, NoCheaper, Reached, Len(row) < Columns, NEW cell \in Cells,
         CompileCell(cell)
  PROVE  NoCheaper'
<1>1. \A c \in Candidates(cell) : c.next \in DOMAIN costs' /\ costs'[c.next] <= c.cost
  BY Compiled
<1>2. row' = Append(row, cell) /\ Len(row') = Len(row) + 1 /\ row \in Seq(Cells)
  <2>1. row' = Append(row, cell)
    BY Zenon DEF CompileCell
  <2>. QED BY <2>1 DEF RowTyped
<1>3. Displays(row') = Extended(Displays(row), cell)
  BY <1>2, DisplaysAppend
<1>4. \A j \in DOMAIN costs' : costs'[j] \in Nat
  <2>1. PICK best : \A j \in DOMAIN costs' : best[j] \in Candidates(cell)
                                             /\ costs'[j] = best[j].cost
    BY Compiled
  <2>. QED BY <2>1, CandidateCosts
<1>5. ASSUME NEW x \in Displays(row')
      PROVE  /\ DisplayTyped(x, Len(row'))
             /\ StateIndex(x.state) \in DOMAIN costs'
             /\ costs'[StateIndex(x.state)] <= x.hidden
  <2>0. PICK d \in Displays(row) : \E b \in Choices(d.state, cell) : x = Step(d, b, cell)
    BY <1>3, ExtendedSteps
  <2>1. PICK b \in Choices(d.state, cell) : x = Step(d, b, cell)
    BY <2>0
  <2>2. /\ DisplayTyped(d, Len(row)) /\ StateIndex(d.state) \in DOMAIN costs
        /\ costs[StateIndex(d.state)] <= d.hidden
    BY Zenon DEF NoCheaper
  <2>3. d.state \in States /\ d.hidden \in Nat /\ b \in Bytes(cell)
    BY <2>2, Zenon DEF DisplayTyped, Choices
  <2>4. DisplayTyped(x, Len(row'))
    <3>1. Len(row) \in Nat
      BY DEF RowTyped
    <3>. QED BY <1>2, <2>1, <2>2, <3>1, StepTyped
  <2> DEFINE c == Candidate(d.state, b, cell)
  <2>5. c \in Candidates(cell)
    BY <2>2, <2>3, CandidatesAre, Zenon
  <2>6. c.next = StateIndex(x.state)
    <3>1. x.state = Render(d.state, b).next
      BY <2>1, StepFields
    <3>2. c.next = StateIndex(Render(d.state, b).next)
      BY CandidateFields
    <3>. QED BY <3>1, <3>2, Zenon
  <2>7. c.cost <= x.hidden
    <3> DEFINE before == costs[StateIndex(d.state)]
               hides  == Hides(b, cell)
    <3>1. c.cost = before + hides
      BY CandidateFields
    <3>2. x.hidden = d.hidden + hides
      BY <2>1, StepFields
    <3>3. before \in Nat /\ hides \in 0..200
      BY <2>2, <2>3, CostsReached, ChoiceTypes
    <3>4. before <= d.hidden
      BY <2>2
    <3> HIDE DEF before, hides, c
    <3>. QED BY <2>3, <3>1, <3>2, <3>3, <3>4, SMT
  <2>8. c.cost \in Nat /\ x.hidden \in Nat
    <3>1. c.cost \in Nat
      BY <2>5, CandidateCosts
    <3>. QED BY <2>4, <3>1, Zenon DEF DisplayTyped
  <2> HIDE DEF c
  <2>9. c.next \in DOMAIN costs' /\ costs'[c.next] <= c.cost
    BY <1>1, <2>5
  <2>10. costs'[c.next] <= x.hidden
    <3> DEFINE k == costs'[c.next]
    <3>1. k \in Nat /\ k <= c.cost
      BY <1>4, <2>9
    <3> HIDE DEF k
    <3>2. k <= x.hidden
      BY <2>7, <2>8, <3>1, SMT
    <3>. QED BY <3>2 DEF k
  <2>. QED BY <2>4, <2>6, <2>9, <2>10, Zenon
<1>. QED BY <1>5, Zenon DEF NoCheaper

LEMMA ReachedNext ==
  ASSUME RowTyped, NoCheaper, Reached, Len(row) < Columns, NEW cell \in Cells,
         CompileCell(cell)
  PROVE  Reached'
<1>1. PICK best : /\ history' = Append(history, best)
                  /\ \A j \in DOMAIN costs' : /\ best[j] \in Candidates(cell)
                                              /\ best[j].next = j
                                              /\ costs'[j] = best[j].cost
  BY Compiled
<1> DEFINE L == Len(row)
<1>2. /\ L \in Nat /\ Len(row') = L + 1 /\ history'[L + 1] = best
      /\ \A n \in 1..L : history'[n] = history[n]
  <2>1. L \in Nat
    BY DEF RowTyped
  <2>. QED BY <1>1, <2>1, HistoryAppend
<1>3. Displays(row') = Extended(Displays(row), cell)
  <2>1. row' = Append(row, cell) /\ row \in Seq(Cells)
    BY Zenon DEF CompileCell, RowTyped
  <2>. QED BY <2>1, DisplaysAppend
<1>4. ASSUME NEW j \in DOMAIN costs'
      PROVE  \E x \in Displays(row') : \E g :
               /\ StateIndex(x.state) = j /\ x.hidden = costs'[j]
               /\ Path(g, history', Len(row'), j)
               /\ x.bytes = Written(g, history', Len(row'))
  <2>1. best[j] \in Candidates(cell) /\ best[j].next = j /\ costs'[j] = best[j].cost
    BY <1>1
  <2>2. PICK s \in States : /\ StateIndex(s) \in DOMAIN costs
                            /\ \E b \in Choices(s, cell) : best[j] = Candidate(s, b, cell)
    BY <2>1, CandidatesAre
  <2>3. PICK b \in Choices(s, cell) : best[j] = Candidate(s, b, cell)
    BY <2>2
  <2> DEFINE i == StateIndex(s)
  <2>4. PICK d \in Displays(row) :
          \E f : /\ StateIndex(d.state) = i /\ d.hidden = costs[i]
                 /\ Path(f, history, L, i) /\ d.bytes = Written(f, history, L)
    BY <2>2, Zenon DEF Reached
  <2>5. PICK f : /\ StateIndex(d.state) = i /\ d.hidden = costs[i]
                 /\ Path(f, history, L, i) /\ d.bytes = Written(f, history, L)
    BY <2>4
  <2>6. DisplayTyped(d, L) /\ d.state = s
    <3>1. DisplayTyped(d, L)
      BY Zenon DEF NoCheaper
    <3>2. d.state \in States
      BY <3>1, Zenon DEF DisplayTyped
    <3>. QED BY <2>5, <3>1, <3>2, IndexOfState, Zenon
  <2> DEFINE x == Step(d, b, cell)
             g == [n \in 0..(L + 1) |-> IF n = L + 1 THEN j ELSE f[n]]
  <2>7. x \in Displays(row')
    BY <1>3, <2>3, <2>6, ExtendedSteps
  <2>8. /\ best[j].previous = i /\ best[j].output = b
        /\ j = StateIndex(Render(s, b).next) /\ costs'[j] = costs[i] + Hides(b, cell)
    <3>1. /\ Candidate(s, b, cell).next = StateIndex(Render(s, b).next)
          /\ Candidate(s, b, cell).previous = StateIndex(s)
          /\ Candidate(s, b, cell).output = b
          /\ Candidate(s, b, cell).cost = costs[StateIndex(s)] + Hides(b, cell)
      BY CandidateFields
    <3>. QED BY <2>1, <2>3, <3>1
  <2>9. StateIndex(x.state) = j /\ x.hidden = costs'[j] /\ x.bytes = Append(d.bytes, b)
    <3>1. /\ x.bytes = Append(d.bytes, b) /\ x.state = Render(d.state, b).next
          /\ x.hidden = d.hidden + Hides(b, cell)
      BY StepFields
    <3>. QED BY <2>5, <2>6, <2>8, <3>1
  <2> HIDE DEF x, i
  <2>10. g[L + 1] = j /\ \A n \in 0..L : g[n] = f[n]
    BY <1>2
  <2> HIDE DEF g
  <2>11. Path(g, history', L + 1, j)
    <3>1. f[L] = i /\ \A n \in 1..L : f[n - 1] = history[n][f[n]].previous
      BY <2>5, Zenon DEF Path
    <3>2. \A n \in 1..L : g[n - 1] = history'[n][g[n]].previous
      <4> SUFFICES ASSUME NEW n \in 1..L
                   PROVE  g[n - 1] = history'[n][g[n]].previous
        OBVIOUS
      <4>1. n \in 0..L /\ n - 1 \in 0..L
        BY <1>2
      <4>2. g[n] = f[n] /\ g[n - 1] = f[n - 1] /\ history'[n] = history[n]
        BY <1>2, <2>10, <4>1
      <4>. QED BY <3>1, <4>2
    <3>3. g[(L + 1) - 1] = history'[L + 1][g[L + 1]].previous
      <4>1. (L + 1) - 1 = L /\ L \in 0..L
        BY <1>2
      <4>. QED BY <1>2, <2>8, <2>10, <3>1, <4>1
    <3>4. \A n \in 1..(L + 1) : n \in 1..L \/ n = L + 1
      BY <1>2
    <3>5. \A n \in 1..(L + 1) : g[n - 1] = history'[n][g[n]].previous
      BY <3>2, <3>3, <3>4
    <3>. QED BY <2>10, <3>5, Zenon DEF Path
  <2>12. x.bytes = Written(g, history', L + 1)
    <3> DEFINE w == Written(g, history', L + 1)
               v == Append(d.bytes, b)
    <3>1. /\ d.bytes \in Seq(Int) /\ Len(d.bytes) = L /\ b \in Int
      BY <2>3, <2>6, BytesAreIntegers, Zenon DEF DisplayTyped, Choices
    <3>2. /\ v \in Seq(Int) /\ Len(v) = L + 1 /\ v[L + 1] = b
          /\ \A n \in 1..L : v[n] = d.bytes[n]
      BY <3>1
    <3>3. \A n \in 1..L : d.bytes[n] = history[n][f[n]].output
      BY <2>5, Zenon DEF Written
    <3>4. \A n \in 1..(L + 1) : w[n] = history'[n][g[n]].output
      BY Zenon DEF Written
    <3>5. ASSUME NEW n \in 1..(L + 1) PROVE w[n] = v[n]
      <4>1. CASE n \in 1..L
        <5>1. n \in 0..L
          BY <4>1
        <5>2. g[n] = f[n] /\ history'[n] = history[n]
          BY <1>2, <2>10, <4>1, <5>1
        <5>. QED BY <3>2, <3>3, <3>4, <4>1, <5>2
      <4>2. CASE n = L + 1
        <5>1. w[L + 1] = history'[L + 1][g[L + 1]].output
          BY <3>4, <4>2
        <5>. QED BY <1>2, <2>8, <2>10, <3>2, <4>2, <5>1
      <4>3. n \in 1..L \/ n = L + 1
        BY <1>2
      <4>. QED BY <4>1, <4>2, <4>3
    <3>6. w = [n \in 1..(L + 1) |-> w[n]]
      BY Zenon DEF Written
    <3> HIDE DEF v, w
    <3>7. v = [n \in 1..(L + 1) |-> v[n]]
      BY <1>2, <3>2
    <3>8. v = w
      BY <3>5, <3>6, <3>7
    <3>. QED BY <2>9, <3>8 DEF v, w
  <2>13. Path(g, history', Len(row'), j) /\ x.bytes = Written(g, history', Len(row'))
    BY <1>2, <2>11, <2>12
  <2>. QED BY <2>7, <2>9, <2>13
<1>. QED BY <1>4 DEF Reached

LEMMA CompilerInvInit == CompilerInit => CompilerInv
<1> SUFFICES ASSUME CompilerInit PROVE CompilerInv
  OBVIOUS
<1> DEFINE start == StateIndex(Initial)
<1>1. row = <<>> /\ history = <<>> /\ costs = [i \in {start} |-> 0]
  BY Zenon DEF CompilerInit
<1>2. Len(row) = 0 /\ RowTyped
  <2>1. <<>> \in Seq(Cells) /\ <<>> \in Seq({}) /\ Len(<<>>) = 0 /\ 0 \in Nat /\ 0 <= Columns
    BY CompilerAssumption
  <2>. QED BY <1>1, <2>1, Zenon DEF RowTyped
<1>3. Displays(row) = {Nothing}
  BY <1>1, DisplaysEmpty
<1>4. Nothing.bytes = <<>> /\ Nothing.state = Initial /\ Nothing.hidden = 0
  BY DEF Nothing
<1>5. DisplayTyped(Nothing, 0)
  <2>1. Initial \in States
    BY SMT DEF Initial, States, White, Black
  <2>2. <<>> \in Seq(Int) /\ Len(<<>>) = 0 /\ 0 \in Nat /\ 0 <= 200 * 0
    BY SMT
  <2>. QED BY <1>4, <2>1, <2>2, Zenon DEF DisplayTyped
<1> HIDE DEF start
<1>6. DOMAIN costs = {start} /\ costs[start] = 0
  BY <1>1
<1>7. NoCheaper
  <2>1. costs[start] <= Nothing.hidden /\ StateIndex(Nothing.state) = start
    BY <1>4, <1>6 DEF start
  <2>. QED BY <1>2, <1>3, <1>5, <1>6, <2>1 DEF NoCheaper
<1>8. Reached
  <2> DEFINE f == [n \in {0} |-> start]
  <2>1. Path(f, history, 0, start)
    <3>1. f[0] = start /\ 1..0 = {}
      BY SMT
    <3>. QED BY <3>1, Zenon DEF Path
  <2> HIDE DEF f
  <2>2. Nothing.bytes = Written(f, history, 0)
    <3> DEFINE w == Written(f, history, 0)
    <3>1. w = [n \in 1..0 |-> w[n]]
      BY Zenon DEF Written
    <3> HIDE DEF w
    <3>2. w = <<>>
      BY <3>1
    <3>. QED BY <1>4, <3>2 DEF w
  <2>3. StateIndex(Nothing.state) = start /\ Nothing.hidden = costs[start]
    BY <1>4, <1>6 DEF start
  <2>. QED BY <1>2, <1>3, <1>6, <2>1, <2>2, <2>3 DEF Reached
<1>. QED BY <1>2, <1>7, <1>8 DEF CompilerInv

LEMMA CompilerInvNext == CompilerInv /\ [CompilerNext]_compilerVars => CompilerInv'
<1> SUFFICES ASSUME CompilerInv, [CompilerNext]_compilerVars PROVE CompilerInv'
  OBVIOUS
<1> USE DEF CompilerInv
<1>1. ASSUME NEW cell \in Cells, Len(row) < Columns, CompileCell(cell) PROVE CompilerInv'
  <2>1. PICK best : history' = Append(history, best)
    BY <1>1, Compiled
  <2>2. RowTyped'
    BY <1>1, <2>1, HistoryAppend
  <2>3. NoCheaper' /\ Reached'
    BY <1>1, NoCheaperNext, ReachedNext
  <2>. QED BY <2>2, <2>3
<1>2. CASE UNCHANGED compilerVars
  BY <1>2 DEF compilerVars, RowTyped, NoCheaper, Reached
<1>. QED BY <1>1, <1>2 DEF CompilerNext

-----------------------------------------------------------------------------
(***************************************************************************)
(* The row traced back.                                                    *)
(***************************************************************************)
\* Going back from one state there is one path.
LEMMA PathUnique ==
  ASSUME NEW L \in Nat, NEW h, NEW i, NEW f, NEW g, Path(f, h, L, i), Path(g, h, L, i)
  PROVE  \A n \in 0..L : f[n] = g[n]
<1> DEFINE T == {k \in 0..L : f[L - k] # g[L - k]}
<1>1. SUFFICES ASSUME T # {} PROVE FALSE
  <2>1. ASSUME NEW n \in 0..L, T = {} PROVE f[n] = g[n]
    <3>1. L - n \in 0..L /\ L - (L - n) = n
      OBVIOUS
    <3>. QED BY <2>1, <3>1
  <2>. QED BY <2>1
<1>2. T \in SUBSET Nat
  OBVIOUS
<1>3. PICK k \in T : \A m \in T : k <= m
  BY <1>1, <1>2, LeastNat
<1>4. /\ f[L] = g[L]
      /\ \A n \in 1..L : f[n - 1] = h[n][f[n]].previous
      /\ \A n \in 1..L : g[n - 1] = h[n][g[n]].previous
  BY Zenon DEF Path
<1>5. k # 0
  BY <1>3, <1>4
<1> DEFINE n == L - (k - 1)
<1>6. k - 1 \in 0..L /\ ~(k - 1 \in T) /\ n \in 1..L /\ n - 1 = L - k
  BY <1>3, <1>5
<1>7. f[n] = g[n]
  BY <1>6
<1>8. f[n - 1] = g[n - 1]
  BY <1>4, <1>6, <1>7
<1>. QED BY <1>3, <1>6, <1>8

LEMMA TracedAlong ==
  ASSUME Len(row) \in Nat, NEW f, Path(f, history, Len(row), Final)
  PROVE  Traced = Written(f, history, Len(row))
<1> DEFINE L == Len(row)
<1> DEFINE Trace(t) == t = [n \in 0..L |-> IF n = L THEN Final
                                           ELSE history[n + 1][t[n + 1]].previous]
           trace == CHOOSE t : Trace(t)
           back  == [n \in 0..L |-> f[n]]
<1>1. Traced = [n \in 1..L |-> history[n][trace[n]].output]
  BY Zenon DEF Traced
<1> HIDE DEF L
<1>a. L \in Nat /\ Path(f, history, L, Final)
  BY DEF L
<1> USE <1>a
<1>2. Trace(back)
  <2>1. f[L] = Final /\ \A n \in 1..L : f[n - 1] = history[n][f[n]].previous
    BY Zenon DEF Path
  <2>2. ASSUME NEW n \in 0..L
        PROVE  f[n] = IF n = L THEN Final ELSE history[n + 1][back[n + 1]].previous
    <3>1. CASE n = L
      BY <2>1, <3>1, Zenon
    <3>2. CASE n # L
      <4>1. n + 1 \in 1..L /\ n + 1 \in 0..L /\ (n + 1) - 1 = n
        BY <3>2
      <4>2. f[n] = history[n + 1][f[n + 1]].previous
        BY <2>1, <4>1
      <4>3. back[n + 1] = f[n + 1]
        BY <4>1, Zenon
      <4>. QED BY <3>2, <4>2, <4>3, Zenon
    <3>. QED BY <3>1, <3>2
  <2>. QED BY <2>2, Zenon
<1>3. Trace(trace)
  <2> HIDE DEF back
  <2>1. \E t : Trace(t)
    BY <1>2
  <2> HIDE DEF Trace
  <2>. QED BY <2>1
<1> HIDE DEF trace
<1>4. Path(trace, history, L, Final)
  <2>1. trace[L] = Final
    <3>1. L \in 0..L
      OBVIOUS
    <3>. QED BY <1>3, <3>1, Zenon
  <2>2. ASSUME NEW n \in 1..L PROVE trace[n - 1] = history[n][trace[n]].previous
    <3>1. n - 1 \in 0..L /\ n - 1 # L /\ (n - 1) + 1 = n
      OBVIOUS
    <3>2. trace[n - 1] = history[(n - 1) + 1][trace[(n - 1) + 1]].previous
      BY <1>3, <3>1, Zenon
    <3>. QED BY <3>1, <3>2
  <2>. QED BY <2>1, <2>2, Zenon DEF Path
<1>5. \A n \in 0..L : f[n] = trace[n]
  BY <1>4, PathUnique
<1>6. \A n \in 1..L : f[n] = trace[n]
  BY <1>5
<1>. QED BY <1>1, <1>6, Zenon DEF Written, L

LEMMA CompilerInvHidesLeast == CompilerInv => HidesLeast
<1> SUFFICES ASSUME RowTyped, NoCheaper, Reached PROVE HidesLeast
  BY DEF CompilerInv
<1>1. Compiles <=> Displays(row) # {}
  BY DEF Compiles, NoCheaper, Reached
<1>2. ASSUME Compiles
      PROVE  \E d \in Displays(row) :
               /\ d.bytes = Traced
               /\ \A other \in Displays(row) : d.hidden <= other.hidden
  <2> DEFINE T == {costs[i] : i \in DOMAIN costs}
             Cheapest(i) == \A j \in DOMAIN costs : costs[i] <= costs[j]
  <2>1. \A i \in DOMAIN costs : costs[i] \in Nat
    BY CostsReached
  <2>2. T \in SUBSET Nat /\ T # {}
    BY <1>2, <2>1 DEF Compiles
  <2>3. PICK m \in T : \A k \in T : m <= k
    BY <2>2, LeastNat
  <2>4. PICK i \in DOMAIN costs : m = costs[i]
    BY <2>3
  <2>5. Cheapest(i)
    BY <2>3, <2>4
  <2>6. Final = CHOOSE j \in DOMAIN costs : Cheapest(j)
    BY Zenon DEF Final
  <2>7. Final \in DOMAIN costs /\ Cheapest(Final)
    <3> HIDE DEF Cheapest
    <3>. QED BY <2>5, <2>6, Zenon
  <2>8. PICK d \in Displays(row) :
          \E f : /\ StateIndex(d.state) = Final /\ d.hidden = costs[Final]
                 /\ Path(f, history, Len(row), Final)
                 /\ d.bytes = Written(f, history, Len(row))
    BY <2>7 DEF Reached
  <2>9. PICK f : /\ d.hidden = costs[Final] /\ Path(f, history, Len(row), Final)
                 /\ d.bytes = Written(f, history, Len(row))
    BY <2>8
  <2>10. d.bytes = Traced
    <3>1. Len(row) \in Nat
      BY DEF RowTyped
    <3>. QED BY <2>9, <3>1, TracedAlong
  <2>11. ASSUME NEW other \in Displays(row) PROVE d.hidden <= other.hidden
    <3> DEFINE k == StateIndex(other.state)
    <3>1. k \in DOMAIN costs /\ costs[k] <= other.hidden /\ DisplayTyped(other, Len(row))
      BY Zenon DEF NoCheaper
    <3>2. costs[Final] <= costs[k] /\ costs[Final] \in Nat /\ costs[k] \in Nat
      BY <2>1, <2>7, <3>1
    <3>3. other.hidden \in Nat
      BY <3>1, Zenon DEF DisplayTyped
    <3> HIDE DEF k
    <3>. QED BY <2>9, <3>1, <3>2, <3>3
  <2>. QED BY <2>10, <2>11
<1>. QED BY <1>1, <1>2, Zenon DEF HidesLeast

\* The bytes a row is compiled to show its cells, and hide as little as any bytes
\* that do; a row is refused only when none do.  For rows of every length whose
\* cost stays below the infinite one, as 40 columns do (compile_row).
THEOREM HidesLeastHolds == CompilerSpec => []HidesLeast
<1>. QED
  BY CompilerInvInit, CompilerInvNext, CompilerInvHidesLeast, PTL DEF CompilerSpec

-----------------------------------------------------------------------------
(***************************************************************************)
(* The calendar.                                                           *)
(***************************************************************************)
Months == 1..12

YearStart(y) ==
  365 * (y - 1970) + (y - 1969) \div 4 - (y - 1901) \div 100 + (y - 1601) \div 400

LEMMA YearStartNext ==
  \A y \in Years : YearStart(y + 1) = YearStart(y) + YearDays(y)
BY DEF YearStart, YearDays, Leap, Years

LEMMA YearTypes ==
  \A y \in Years : YearStart(y) \in Nat /\ YearDays(y) \in 365..366
BY DEF YearStart, YearDays, Leap, Years

\* The loop over the years finds the first day of each.
LEMMA FirstDayValue == \A y \in Years : FirstDay[y] = YearStart(y)
<1> DEFINE Counted(f) ==
      f = [year \in Years |->
             IF year = 1970 THEN 0 ELSE f[year - 1] + YearDays(year - 1)]
           closed == [year \in Years |-> YearStart(year)]
<1>1. Counted(closed)
  <2>1. YearStart(1970) = 0
    BY DEF YearStart
  <2>2. ASSUME NEW y \in Years, y # 1970
        PROVE  YearStart(y) = closed[y - 1] + YearDays(y - 1)
    <3>1. y - 1 \in Years /\ (y - 1) + 1 = y
      BY <2>2 DEF Years
    <3>2. closed[y - 1] = YearStart(y - 1)
      BY <3>1
    <3>3. \A z \in Years : YearStart(z + 1) = YearStart(z) + YearDays(z)
      BY YearStartNext
    <3>4. YearStart((y - 1) + 1) = YearStart(y - 1) + YearDays(y - 1)
      BY <3>1, <3>3
    <3> HIDE DEF closed
    <3>. QED BY <3>1, <3>2, <3>4
  <2>. QED BY <2>1, <2>2
<1>2. Counted(FirstDay)
  <2>1. FirstDay = CHOOSE f : Counted(f)
    BY DEF FirstDay, Years
  <2> HIDE DEF closed
  <2>2. \E f : Counted(f)
    BY <1>1
  <2> HIDE DEF Counted
  <2>. QED BY <2>1, <2>2
<1> DEFINE T == {n \in Nat : 1970 + n \in Years =>
                               FirstDay[1970 + n] = YearStart(1970 + n)}
<1>3. 0 \in T
  BY <1>2 DEF YearStart, Years
<1>4. ASSUME NEW n \in Nat, n \in T PROVE n + 1 \in T
  <2> SUFFICES ASSUME 1970 + (n + 1) \in Years
               PROVE  FirstDay[1970 + (n + 1)] = YearStart(1970 + (n + 1))
    OBVIOUS
  <2> DEFINE y == 1970 + n
  <2>1. y \in Years /\ FirstDay[y] = YearStart(y)
    BY <1>4 DEF Years
  <2>2. 1970 + (n + 1) = y + 1 /\ y + 1 \in Years /\ y + 1 # 1970
        /\ (y + 1) - 1 = y
    BY DEF Years
  <2> HIDE DEF y, T
  <2>3. FirstDay[y + 1] = FirstDay[y] + YearDays(y)
    BY <1>2, <2>2
  <2>4. \A z \in Years : YearStart(z + 1) = YearStart(z) + YearDays(z)
    BY YearStartNext
  <2>. QED BY <2>1, <2>2, <2>3, <2>4
<1> HIDE DEF T
<1>5. Nat \subseteq T
  BY <1>3, <1>4, NatSetInduction
<1>6. ASSUME NEW y \in Years PROVE FirstDay[y] = YearStart(y)
  <2>1. y - 1970 \in T /\ 1970 + (y - 1970) = y
    BY <1>5 DEF Years
  <2>. QED BY <2>1 DEF T
<1>. QED BY <1>6

\* ... and the loop over the months the days before each.
UpTo(m, y) == DaysUpTo[m] + IF m > 2 /\ Leap(y) THEN 1 ELSE 0

LEMMA MonthRanges ==
  ASSUME NEW y \in Years, NEW m \in Months
  PROVE  /\ DaysInMonth(m, y) \in 28..31
         /\ UpTo(m, y) \in 0..335
         /\ DaysInMonth(m, y) = MonthDays[m] + IF m = 2 /\ Leap(y) THEN 1 ELSE 0
<1>1. Leap(y) \in BOOLEAN
  BY DEF Leap
<1>2. m \in {1, 2, 3, 4, 5, 6, 7, 8, 9, 10, 11, 12}
  BY DEF Months
<1>. QED BY <1>1, <1>2 DEF UpTo, DaysInMonth, DaysUpTo, MonthDays

LEMMA MonthNext ==
  ASSUME NEW y \in Years
  PROVE  /\ UpTo(1, y) = 0
         /\ \A m \in 1..11 : UpTo(m + 1, y) = UpTo(m, y) + DaysInMonth(m, y)
         /\ UpTo(12, y) + 31 = YearDays(y)
<1>1. Leap(y) \in BOOLEAN
  BY DEF Leap
<1>2. 1..11 = {1, 2, 3, 4, 5, 6, 7, 8, 9, 10, 11}
  OBVIOUS
<1>. QED BY <1>1, <1>2 DEF UpTo, DaysInMonth, DaysUpTo, MonthDays, YearDays

LEMMA DaysBeforeValue ==
  ASSUME NEW y \in Years
  PROVE  \A m \in Months : DaysBefore(m, y) = UpTo(m, y)
<1> DEFINE Counted(f) ==
      f = [m \in Months |-> IF m = 1 THEN 0 ELSE f[m - 1] + DaysInMonth(m - 1, y)]
           closed == [m \in Months |-> UpTo(m, y)]
           upTo   == CHOOSE f : Counted(f)
<1>1. Counted(closed)
  <2>1. ASSUME NEW m \in Months, m # 1
        PROVE  UpTo(m, y) = closed[m - 1] + DaysInMonth(m - 1, y)
    <3>1. m - 1 \in 1..11 /\ m - 1 \in Months /\ (m - 1) + 1 = m
      BY <2>1 DEF Months
    <3>2. closed[m - 1] = UpTo(m - 1, y)
      BY <3>1
    <3> HIDE DEF closed
    <3>3. UpTo((m - 1) + 1, y) = UpTo(m - 1, y) + DaysInMonth(m - 1, y)
      BY <3>1, MonthNext
    <3>. QED BY <3>1, <3>2, <3>3
  <2>2. UpTo(1, y) = 0
    BY DEF UpTo, DaysUpTo
  <2>. QED BY <2>1, <2>2
<1>2. Counted(upTo)
  <2> HIDE DEF closed
  <2>1. \E f : Counted(f)
    BY <1>1
  <2>2. upTo = CHOOSE f : Counted(f)
    OBVIOUS
  <2> HIDE DEF Counted, upTo
  <2>. QED BY <2>1, <2>2
<1>3. \A m \in Months : DaysBefore(m, y) = upTo[m]
  BY DEF DaysBefore, Months
<1> HIDE DEF upTo
<1>4. \A m \in Months : upTo[m] = IF m = 1 THEN 0 ELSE upTo[m - 1] + DaysInMonth(m - 1, y)
  BY <1>2
<1>6. UpTo(1, y) = 0
  BY DEF UpTo, DaysUpTo
<1> DEFINE T == {n \in Nat : n + 1 \in Months => upTo[n + 1] = UpTo(n + 1, y)}
<1>7. 0 \in T
  BY <1>4, <1>6 DEF Months
<1>8. ASSUME NEW n \in Nat, n \in T PROVE n + 1 \in T
  <2> SUFFICES ASSUME n + 2 \in Months PROVE upTo[n + 2] = UpTo(n + 2, y)
    OBVIOUS
  <2>1. n + 1 \in 1..11 /\ upTo[n + 1] = UpTo(n + 1, y)
    BY <1>8 DEF Months
  <2>2. upTo[n + 2] = upTo[n + 1] + DaysInMonth(n + 1, y)
    BY <1>4, (n + 2) - 1 = n + 1, n + 2 # 1
  <2> HIDE DEF T
  <2>3. UpTo((n + 1) + 1, y) = UpTo(n + 1, y) + DaysInMonth(n + 1, y)
    BY MonthNext, <2>1
  <2>4. (n + 1) + 1 = n + 2
    OBVIOUS
  <2>. QED BY <2>1, <2>2, <2>3, <2>4
<1> HIDE DEF T
<1>9. Nat \subseteq T
  BY <1>7, <1>8, NatSetInduction
<1>10. ASSUME NEW m \in Months PROVE upTo[m] = UpTo(m, y)
  <2>1. m - 1 \in T /\ (m - 1) + 1 = m
    BY <1>9 DEF Months
  <2>. QED BY <2>1 DEF T
<1>. QED BY <1>3, <1>10

-----------------------------------------------------------------------------
(***************************************************************************)
(* Dates and days.                                                         *)
(***************************************************************************)
LEMMA DayNumberValue ==
  ASSUME NEW y \in Years, NEW m \in Months, NEW d \in Int
  PROVE  DayNumber(y, m, d) = YearStart(y) + UpTo(m, y) + d - 1
<1>1. DaysUpTo[m] \in Int
  <2>1. m \in {1, 2, 3, 4, 5, 6, 7, 8, 9, 10, 11, 12}
    BY DEF Months
  <2>. QED BY <2>1 DEF DaysUpTo
<1> DEFINE days == 365 * (y - 1970) + (y - 1969) \div 4 - (y - 1901) \div 100
                   + (y - 1601) \div 400
<1>2. days \in Int
  BY DEF Years
<1>3. YearStart(y) = days
  BY DEF YearStart
<1>4. DayNumber(y, m, d) = days + DaysUpTo[m] + d - (IF m > 2 /\ Leap(y) THEN 0 ELSE 1)
  BY DEF DayNumber
<1> HIDE DEF days
<1>. QED BY <1>1, <1>2, <1>3, <1>4 DEF UpTo

\* The first and the last day of the century, and the day the weekdays are
\* counted from.
LEMMA DaysOfCentury ==
  /\ Century = YearStart(2000)..(YearStart(2100) - 2)
  /\ YearStart(2000) = 10957 /\ YearStart(2100) = 47482
  /\ DayNumber(2024, 1, 7) = 19729
<1>1. YearStart(2000) = 10957 /\ YearStart(2100) = 47482
  BY DEF YearStart
<1>2. DayNumber(2000, 1, 1) = 10957 /\ DayNumber(2099, 12, 30) = 47480
      /\ DayNumber(2024, 1, 7) = 19729
  BY DEF DayNumber, DaysUpTo, Leap
<1>. QED BY <1>1, <1>2 DEF Century

\* The days of local time: it is ahead of Unix time.
LocalDays == YearStart(2000)..(YearStart(2100) - 1)

LEMMA CenturyDays ==
  ASSUME NEW d \in Century
  PROVE  /\ d \in Int /\ 10957 <= d /\ d <= 47480
         /\ d \in LocalDays
         /\ d + 1 \in LocalDays
BY DaysOfCentury DEF LocalDays

LEMMA YearsInOrder ==
  \A y, z \in Years : y < z => YearStart(y) + YearDays(y) <= YearStart(z)
BY DEF YearStart, YearDays, Leap, Years

LEMMA YearBounds ==
  \A y \in Years : /\ 365 * (y - 1970) <= YearStart(y)
                        /\ YearStart(y) + YearDays(y) <= 366 * (y - 1969)
BY DEF YearStart, YearDays, Leap, Years

\* clock_local_components finds the year of a day.
LEMMA YearOfDay ==
  ASSUME NEW y \in Years, y <= 2100, NEW d \in Int,
         YearStart(y) <= d, d < YearStart(y) + YearDays(y)
  PROVE  YearOf(d) = y
<1> DEFINE Holds(z) == FirstDay[z] <= d /\ d < FirstDay[z] + YearDays(z)
           Guesses == (1970 + d \div 366)..(1970 + d \div 365)
<1>1. y \in Years /\ YearStart(y) \in Nat /\ YearDays(y) \in 365..366
  BY YearTypes DEF Years
<1>2. 365 * (y - 1970) <= d /\ d < 366 * (y - 1969) /\ d < 366 * 131 /\ d \in Nat
  <2>1. 365 * (y - 1970) <= YearStart(y) /\ YearStart(y) + YearDays(y) <= 366 * (y - 1969)
    BY <1>1, YearBounds
  <2>. QED BY <1>1, <2>1 DEF Years
<1>3. y \in Guesses
  BY <1>2 DEF Years
<1>4. Holds(y)
  BY <1>1, FirstDayValue DEF Years
<1>5. ASSUME NEW z \in Guesses, Holds(z) PROVE z = y
  <2>1. z \in Years
    BY <1>2 DEF Years
  <2>2. FirstDay[z] = YearStart(z) /\ YearStart(z) \in Nat /\ YearDays(z) \in 365..366
    BY <2>1, FirstDayValue, YearTypes
  <2>3. z < y => YearStart(z) + YearDays(z) <= YearStart(y)
    BY <2>1, <1>1, YearsInOrder
  <2>4. y < z => YearStart(y) + YearDays(y) <= YearStart(z)
    BY <2>1, <1>1, YearsInOrder
  <2>. QED BY <1>1, <1>5, <2>1, <2>2, <2>3, <2>4 DEF Years
<1>6. YearOf(d) = CHOOSE z \in Guesses : Holds(z)
  BY DEF YearOf
<1> HIDE DEF Guesses, Holds
<1>. QED BY <1>3, <1>4, <1>5, <1>6

LEMMA YearThereIs ==
  ASSUME NEW d \in LocalDays
  PROVE  \E y \in 2000..2099 : YearStart(y) <= d /\ d < YearStart(y) + YearDays(y)
<1>. d \in Int /\ 10957 <= d /\ d < 47482
  BY DaysOfCentury DEF LocalDays
<1> DEFINE Later == {n \in Nat : n \in 1..100 /\ d < YearStart(2000 + n)}
<1>1. 100 \in Later
  BY DaysOfCentury DEF LocalDays
<1>2. PICK n \in Later : \A k \in Later : n <= k
  <2>1. Later \in SUBSET Nat
    OBVIOUS
  <2> HIDE DEF Later
  <2>. QED BY <1>1, <2>1, LeastNat
<1> DEFINE y == 2000 + (n - 1)
<1>3. y \in 2000..2099 /\ y \in Years /\ y + 1 = 2000 + n /\ n \in 1..100
  BY <1>2 DEF Years
<1>4. YearStart(y) <= d
  <2>1. CASE n = 1
    BY <2>1, DaysOfCentury DEF LocalDays
  <2>2. CASE n # 1
    <3>1. n - 1 \in Nat /\ n - 1 \in 1..100 /\ ~(n <= n - 1)
      BY <2>2, <1>3
    <3>2. n - 1 \notin Later
      BY <3>1, <1>2
    <3>3. YearStart(y) \in Nat
      BY <1>3, YearTypes
    <3>. QED BY <3>1, <3>2, <3>3
  <2>. QED BY <2>1, <2>2
<1>5. d < YearStart(y) + YearDays(y)
  <2>1. d < YearStart(2000 + n)
    BY <1>2
  <2>2. \A z \in Years : YearStart(z + 1) = YearStart(z) + YearDays(z)
    BY YearStartNext
  <2> HIDE DEF y, Later
  <2>. QED BY <2>1, <2>2, <1>3
<1>. QED BY <1>3, <1>4, <1>5

\* The month and the day it finds are those of a date of the calendar.
LEMMA MonthThereIs ==
  ASSUME NEW y \in Years, NEW rest \in 0..(YearDays(y) - 1)
  PROVE  \E m \in Months : UpTo(m, y) <= rest /\ rest < UpTo(m, y) + DaysInMonth(m, y)
<1>1. Leap(y) \in BOOLEAN
  BY DEF Leap
<1>2. UpTo(1, y) <= rest
  BY <1>1 DEF UpTo, DaysUpTo
<1>3. /\ DaysInMonth(1, y) = 31 /\ UpTo(1, y) = 0
      /\ UpTo(2, y) = 31 /\ DaysInMonth(2, y) = YearDays(y) - 337
      /\ UpTo(3, y) = YearDays(y) - 306 /\ DaysInMonth(3, y) = 31
      /\ UpTo(4, y) = YearDays(y) - 275 /\ DaysInMonth(4, y) = 30
      /\ UpTo(5, y) = YearDays(y) - 245 /\ DaysInMonth(5, y) = 31
      /\ UpTo(6, y) = YearDays(y) - 214 /\ DaysInMonth(6, y) = 30
      /\ UpTo(7, y) = YearDays(y) - 184 /\ DaysInMonth(7, y) = 31
      /\ UpTo(8, y) = YearDays(y) - 153 /\ DaysInMonth(8, y) = 31
      /\ UpTo(9, y) = YearDays(y) - 122 /\ DaysInMonth(9, y) = 30
      /\ UpTo(10, y) = YearDays(y) - 92 /\ DaysInMonth(10, y) = 31
      /\ UpTo(11, y) = YearDays(y) - 61 /\ DaysInMonth(11, y) = 30
      /\ UpTo(12, y) = YearDays(y) - 31 /\ DaysInMonth(12, y) = 31
  BY <1>1 DEF UpTo, DaysUpTo, DaysInMonth, MonthDays, YearDays
<1>4. YearDays(y) \in 365..366
  BY YearTypes
<1> DEFINE Holds(m) == UpTo(m, y) <= rest /\ rest < UpTo(m, y) + DaysInMonth(m, y)
<1>5. Holds(1) \/ Holds(2) \/ Holds(3) \/ Holds(4) \/ Holds(5) \/ Holds(6)
      \/ Holds(7) \/ Holds(8) \/ Holds(9) \/ Holds(10) \/ Holds(11) \/ Holds(12)
  BY <1>3, <1>4
<1> HIDE DEF Holds
<1>6. \E m \in Months : Holds(m)
  BY <1>5 DEF Months
<1>. QED BY <1>6 DEF Holds

LEMMA MonthOfDay ==
  ASSUME NEW y \in Years, NEW rest \in 0..(YearDays(y) - 1)
  PROVE  /\ MonthOf(rest, y) \in Months
         /\ UpTo(MonthOf(rest, y), y) <= rest
         /\ rest < UpTo(MonthOf(rest, y), y) + DaysInMonth(MonthOf(rest, y), y)
<1> DEFINE Holds(m) == /\ DaysBefore(m, y) <= rest
                       /\ rest < DaysBefore(m, y) + DaysInMonth(m, y)
<1>1. \A m \in Months : DaysBefore(m, y) = UpTo(m, y)
  BY DaysBeforeValue
<1>2. PICK m \in Months : UpTo(m, y) <= rest /\ rest < UpTo(m, y) + DaysInMonth(m, y)
  BY MonthThereIs
<1>3. Holds(m)
  BY <1>1, <1>2
<1>4. MonthOf(rest, y) = CHOOSE k \in Months : Holds(k)
  BY DEF MonthOf, Months
<1> HIDE DEF Holds
<1>5. MonthOf(rest, y) \in Months /\ Holds(MonthOf(rest, y))
  BY <1>3, <1>4
<1>. QED BY <1>1, <1>5 DEF Holds

LEMMA DateOfDay ==
  ASSUME NEW d \in LocalDays,
         NEW year, year = YearOf(d),
         NEW rest, rest = d - FirstDay[year],
         NEW month, month = MonthOf(rest, year),
         NEW date, date = rest - DaysBefore(month, year) + 1
  PROVE  /\ year \in 2000..2099
         /\ YearStart(year) <= d /\ d < YearStart(year) + YearDays(year)
         /\ month \in Months
         /\ date \in 1..DaysInMonth(month, year)
         /\ DayNumber(year, month, date) = d
<1>1. PICK y \in 2000..2099 : YearStart(y) <= d /\ d < YearStart(y) + YearDays(y)
  BY YearThereIs
<1>2. y \in Years /\ y <= 2100 /\ d \in Int
  BY DaysOfCentury DEF Years, LocalDays
<1>3. year = y
  BY <1>1, <1>2, YearOfDay
<1>4. FirstDay[y] = YearStart(y) /\ YearStart(y) \in Nat /\ YearDays(y) \in 365..366
  BY <1>2, FirstDayValue, YearTypes
<1>5. rest = d - YearStart(y) /\ rest \in 0..(YearDays(y) - 1)
  BY <1>1, <1>2, <1>3, <1>4
<1>6. /\ month \in Months
      /\ UpTo(month, y) <= rest /\ rest < UpTo(month, y) + DaysInMonth(month, y)
  BY <1>2, <1>3, <1>5, MonthOfDay
<1>7. UpTo(month, y) \in 0..335 /\ DaysInMonth(month, y) \in 28..31
  BY <1>2, <1>6, MonthRanges
<1>8. DaysBefore(month, y) = UpTo(month, y)
  BY <1>2, <1>6, DaysBeforeValue
<1>9. date = rest - UpTo(month, y) + 1
  BY <1>3, <1>8
<1>10. date \in 1..DaysInMonth(month, y)
  BY <1>2, <1>4, <1>5, <1>6, <1>7, <1>9
<1>11. DayNumber(y, month, date) = YearStart(y) + UpTo(month, y) + date - 1
  <2>1. date \in Int
    BY <1>7, <1>10
  <2>. QED BY <1>2, <1>6, <2>1, DayNumberValue
<1>. QED BY <1>1, <1>2, <1>3, <1>4, <1>5, <1>6, <1>7, <1>9, <1>10, <1>11

-----------------------------------------------------------------------------
(***************************************************************************)
(* Summer time.                                                            *)
(***************************************************************************)
LEMMA LastSundayValue ==
  ASSUME NEW n \in Int
  PROVE  /\ LastSunday(n) \in (n - 6)..n
         /\ \A k \in (n - 6)..n : (k + 4) % 7 = 0 <=> k = LastSunday(n)
BY DEF LastSunday

LEMMA WeekdayOfDay == \A n \in Int : (n - 19729) % 7 = (n + 4) % 7
OBVIOUS

\* The law's Sundays of March and October are Sundays of the code.
LEMMA LegalSunday ==
  ASSUME NEW y \in Years, NEW m \in Months
  PROVE  DayNumber(y, m, LastSundayOf(y, m)) = LastSunday(YearStart(y) + UpTo(m, y) + 30)
<1> DEFINE before == YearStart(y) + UpTo(m, y) - 1
           l      == LastSundayOf(y, m)
<1>1. YearStart(y) \in Nat /\ UpTo(m, y) \in 0..335
  BY YearTypes, MonthRanges
<1>2. before \in Int /\ YearStart(y) + UpTo(m, y) + 30 = before + 31
  BY <1>1
<1>3. ASSUME NEW d \in Int PROVE DayNumber(y, m, d) = before + d
  <2>1. DayNumber(y, m, d) = YearStart(y) + UpTo(m, y) + d - 1
    BY DayNumberValue
  <2>. QED BY <2>1, <1>1
<1> HIDE DEF before
<1>4. ASSUME NEW d \in Int PROVE Weekday(y, m, d) = (before + d + 4) % 7
  <2>1. Weekday(y, m, d) = ((before + d) - 19729) % 7
    BY <1>3, DaysOfCentury DEF Weekday
  <2>2. before + d \in Int
    BY <1>2
  <2>. QED BY <2>1, <2>2, WeekdayOfDay
<1>5. \E d \in 25..31 : Weekday(y, m, d) = 0
  <2> DEFINE d == 31 - ((before + 35) % 7)
  <2>1. d \in 25..31 /\ (before + d + 4) % 7 = 0
    BY <1>2
  <2> HIDE DEF d
  <2>. QED BY <2>1, <1>4
<1>6. l \in 25..31 /\ Weekday(y, m, l) = 0
  BY <1>5 DEF LastSundayOf
<1> HIDE DEF l
<1>7. (before + l + 4) % 7 = 0 /\ DayNumber(y, m, l) = before + l
  BY <1>3, <1>4, <1>6
<1>8. before + l = LastSunday(before + 31)
  <2>1. before + l \in ((before + 31) - 6)..(before + 31) /\ ((before + l) + 4) % 7 = 0
    BY <1>2, <1>6, <1>7
  <2>. QED BY <1>2, <2>1, LastSundayValue
<1>. QED BY <1>2, <1>7, <1>8 DEF l

\* The offset is the one of the law, but in the week of MissedOctober.
LEMMA OffsetOfYear ==
  ASSUME NEW y \in Years, y <= 2100, NEW d \in Int, NEW s \in Int,
         YearStart(y) <= d, d < YearStart(y) + YearDays(y),
         ~MissedOctober(d, s, y)
  PROVE  Offset(d, s) = IF InSummer(d, s, y) THEN 7200 ELSE 3600
<1> DEFINE first == YearStart(y)
           leap  == IF Leap(y) THEN 1 ELSE 0
           mar31 == first + 89 + leap
           oct31 == first + 303 + leap
           start == LastSunday(mar31)
           end   == LastSunday(first + 304)
<1>1. y \in Years /\ 3 \in Months /\ 10 \in Months /\ 11 \in Months
  BY DEF Years, Months
<1>2. YearOf(d) = y /\ FirstDay[y] = first /\ first \in Nat
  <2>1. YearOf(d) = y
    BY YearOfDay
  <2>. QED BY <1>1, <2>1, FirstDayValue, YearTypes
<1>3. UpTo(3, y) = 59 + leap /\ UpTo(10, y) = 273 + leap /\ UpTo(11, y) = 304 + leap
  BY DEF UpTo, DaysUpTo
<1>4. DayNumber(y, 3, LastSundayOf(y, 3)) = start
  <2>1. first + UpTo(3, y) + 30 = mar31
    BY <1>2, <1>3
  <2>. QED BY <2>1, <1>1, LegalSunday
<1>5. DayNumber(y, 10, LastSundayOf(y, 10)) = LastSunday(oct31)
  <2>1. first + UpTo(10, y) + 30 = oct31
    BY <1>2, <1>3
  <2>. QED BY <2>1, <1>1, LegalSunday
<1>6. Offset(d, s) = IF ~Before(d, s, start, 3600) /\ Before(d, s, end, 3600)
                       THEN 7200 ELSE 3600
  <2>1. first + 31 + 28 + leap + 30 = mar31
    BY <1>2
  <2>. QED BY <1>2, <2>1 DEF Offset
<1>7. Before(d, s, end, 3600) <=> Before(d, s, LastSunday(oct31), 3600)
  <2>1. CASE Leap(y)
    <3>1. oct31 = first + 304
      BY <2>1, <1>2
    <3>. QED BY <3>1
  <2>2. CASE ~Leap(y)
    <3>1. oct31 \in Int /\ first + 304 = oct31 + 1 /\ leap = 0
      BY <2>2, <1>2
    <3>2. DayNumber(y, 11, 1) = oct31 + 1 /\ DayNumber(y, 10, 25) = oct31 - 6
      <4>1. /\ DayNumber(y, 11, 1) = first + UpTo(11, y) + 1 - 1
            /\ DayNumber(y, 10, 25) = first + UpTo(10, y) + 25 - 1
        BY <1>1, DayNumberValue
      <4>. QED BY <4>1, <3>1, <1>2, <1>3
    <3>3. Weekday(y, 11, 1) = ((oct31 + 1) + 4) % 7
      <4>1. Weekday(y, 11, 1) = ((oct31 + 1) - 19729) % 7
        BY <3>2, DaysOfCentury DEF Weekday
      <4>. QED BY <3>1, <4>1, WeekdayOfDay
    <3> HIDE DEF oct31
    <3>4. CASE ((oct31 + 1) + 4) % 7 # 0
      <4>1. LastSunday(oct31 + 1) = LastSunday(oct31)
        BY <3>1, <3>4 DEF LastSunday
      <4>. QED BY <4>1, <3>1
    <3>5. CASE ((oct31 + 1) + 4) % 7 = 0
      <4>1. LastSunday(oct31 + 1) = oct31 + 1 /\ LastSunday(oct31) = oct31 - 6
        BY <3>1, <3>5 DEF LastSunday
      <4>2. ~(~Before(d, s, oct31 - 6, 3600) /\ Before(d, s, oct31 + 1, 3600))
        BY <2>2, <3>2, <3>3, <3>5 DEF MissedOctober
      <4>. QED BY <3>1, <4>1, <4>2 DEF Before
    <3>. QED BY <3>4, <3>5
  <2>. QED BY <2>1, <2>2
<1>. QED BY <1>4, <1>5, <1>6, <1>7 DEF InSummer

-----------------------------------------------------------------------------
(***************************************************************************)
(* The fields of the clock at a fetch.                                     *)
(***************************************************************************)
Hours == 0..23
Sixty == 0..59
Clocks == [hour : Hours, minute : Sixty, second : Sixty, day : 1..31,
           month : Months, year : 0..99, weekday : 0..6]

SecondOf(h, m, e) == h * 3600 + m * 60 + e

\* The clock shows date and time local to a day and a second of it.
Shows(c, d, s) ==
  LET year == 2000 + c.year
  IN /\ c \in Clocks
     /\ c.day <= DaysInMonth(c.month, year)
     /\ c.weekday = Weekday(year, c.month, c.day)
     /\ d = DayNumber(year, c.month, c.day)
     /\ s = SecondOf(c.hour, c.minute, c.second)

LEMMA DayAndSecond ==
  ASSUME NEW n \in Int, 0 <= n, n <= 93599
  PROVE  /\ n \div 86400 \in {0, 1}
         /\ n % 86400 \in Int /\ 0 <= n % 86400 /\ n % 86400 <= 86399
         /\ n = (n \div 86400) * 86400 + (n % 86400)
BY SMT

LEMMA HourMinuteSecond ==
  ASSUME NEW n \in Int, 0 <= n, n <= 86399
  PROVE  /\ n \div 3600 \in Hours
         /\ (n \div 60) % 60 \in Sixty
         /\ n % 60 \in Sixty
         /\ n = (n \div 3600) * 3600 + ((n \div 60) % 60) * 60 + (n % 60)
BY SMT DEF Hours, Sixty

LEMMA ComponentsShow ==
  ASSUME NEW d \in Century, NEW s \in Int, 0 <= s, s < DaySeconds
  PROVE  LET local == s + Offset(d, s)
         IN Shows(Components(d, s), d + local \div DaySeconds, local % DaySeconds)
<1> DEFINE local == s + Offset(d, s)
           ld    == d + local \div DaySeconds
           ls    == local % DaySeconds
           year  == YearOf(ld)
           rest  == ld - FirstDay[year]
           month == MonthOf(rest, year)
           date  == rest - DaysBefore(month, year) + 1
           c     == Components(d, s)
<1>1. local \in Int /\ 0 <= local /\ local <= 93599
  <2>1. Offset(d, s) = 3600 \/ Offset(d, s) = 7200
    BY SMT DEF Offset
  <2>. QED BY <2>1, SMT DEF DaySeconds
<1>4. c = [hour |-> ls \div 3600, minute |-> (ls \div 60) % 60, second |-> ls % 60,
           day |-> date, month |-> month, year |-> year - 2000, weekday |-> (ld + 4) % 7]
  BY DEF Components
<1> HIDE DEF local
<1>2. local \div DaySeconds \in {0, 1} /\ ls \in Int /\ 0 <= ls /\ ls <= 86399
  BY <1>1, DayAndSecond, SMT DEF DaySeconds
<1> HIDE DEF ls
<1>3. ld \in LocalDays /\ ld \in Int
  BY <1>2, CenturyDays, SMT
<1> HIDE DEF ld, year, rest, month, date, c
<1>5. /\ year \in 2000..2099
      /\ month \in Months
      /\ date \in 1..DaysInMonth(month, year)
      /\ DayNumber(year, month, date) = ld
  BY <1>3, DateOfDay DEF year, rest, month, date
<1>6. year \in Years /\ 2000 + (year - 2000) = year /\ year - 2000 \in 0..99
  BY <1>5 DEF Years
<1>7. DaysInMonth(month, year) \in 28..31
  BY <1>5, <1>6, MonthRanges
<1>8. /\ ls \div 3600 \in Hours /\ (ls \div 60) % 60 \in Sixty /\ ls % 60 \in Sixty
      /\ ls = (ls \div 3600) * 3600 + ((ls \div 60) % 60) * 60 + (ls % 60)
  BY <1>2, HourMinuteSecond, SMT
<1>9. (ld + 4) % 7 \in 0..6 /\ (ld + 4) % 7 = Weekday(year, month, date)
  BY <1>3, <1>5, WeekdayOfDay, DaysOfCentury, SMT DEF Weekday
<1>10. date \in 1..31 /\ date <= DaysInMonth(month, year)
  BY <1>5, <1>7
<1>11. c \in Clocks
  BY <1>4, <1>5, <1>6, <1>8, <1>9, <1>10 DEF Clocks
<1>12. Shows(c, ld, ls)
  <2>1. ls = SecondOf(ls \div 3600, (ls \div 60) % 60, ls % 60)
    BY <1>8, SMT DEF SecondOf
  <2>. QED BY <1>4, <1>5, <1>6, <1>9, <1>10, <1>11, <2>1, SMT DEF Shows
<1>. QED BY <1>12 DEF c, ld, ls, local

\* ... with the offset of the law, unless October was missed.
LEMMA OffsetLegal ==
  ASSUME NEW d \in Century, NEW s \in Int, 0 <= s, s < DaySeconds,
         \A y \in Years : ~MissedOctober(d, s, y)
  PROVE  Offset(d, s) = IF InSummer(d, s, 2000 + Components(d, s).year) THEN 7200 ELSE 3600
<1> DEFINE local == s + Offset(d, s)
           ld    == d + local \div 86400
           utc   == YearOf(d)
           year  == YearOf(ld)
<1>1. local \in Int /\ 0 <= local /\ local <= 93599
  <2>1. Offset(d, s) = 3600 \/ Offset(d, s) = 7200
    BY SMT DEF Offset
  <2>. QED BY <2>1, SMT DEF DaySeconds
<1>2. Components(d, s).year = year - 2000
  BY DEF Components, DaySeconds
<1> HIDE DEF local
<1>3. local \div 86400 \in {0, 1}
  BY <1>1, DayAndSecond, SMT
<1>4. /\ d \in LocalDays /\ d \in Int
      /\ ld \in LocalDays /\ (ld = d \/ ld = d + 1)
  <2>1. /\ d \in Int
        /\ d \in LocalDays
        /\ d + 1 \in LocalDays
    BY CenturyDays
  <2>2. ld = d \/ ld = d + 1
    BY <1>3, <2>1, SMT
  <2> HIDE DEF ld
  <2>. QED BY <2>1, <2>2
<1> HIDE DEF ld
<1>5. /\ utc \in 2000..2099
      /\ YearStart(utc) <= d /\ d < YearStart(utc) + YearDays(utc)
  BY <1>4, DateOfDay
<1>6. /\ year \in 2000..2099
      /\ YearStart(year) <= ld /\ ld < YearStart(year) + YearDays(year)
  BY <1>4, DateOfDay
<1> HIDE DEF utc, year
<1>7. utc \in Years /\ utc <= 2100 /\ year \in Years
  BY <1>5, <1>6 DEF Years
<1>8. Offset(d, s) = IF InSummer(d, s, utc) THEN 7200 ELSE 3600
  BY <1>4, <1>5, <1>7, OffsetOfYear
<1>9. CASE utc = year
  BY <1>2, <1>6, <1>8, <1>9
<1>10. CASE utc # year
  <2>1. YearStart(utc) \in Nat /\ YearDays(utc) \in 365..366
        /\ YearStart(year) \in Nat /\ YearDays(year) \in 365..366
    BY <1>7, YearTypes
  <2>2. utc < year => YearStart(utc) + YearDays(utc) <= YearStart(year)
    BY <1>7, YearsInOrder
  <2>3. year < utc => YearStart(year) + YearDays(year) <= YearStart(utc)
    BY <1>7, YearsInOrder
  <2>4. d = YearStart(utc) + YearDays(utc) - 1 /\ d + 1 = YearStart(year)
    BY <1>4, <1>5, <1>6, <1>10, <2>1, <2>2, <2>3
  <2>5. 3 \in Months /\ 10 \in Months
    BY DEF Months
  <2>6. UpTo(3, year) \in 0..335 /\ UpTo(10, utc) + 31 <= 305
    BY DEF UpTo, DaysUpTo
  <2>7. /\ DayNumber(year, 3, LastSundayOf(year, 3))
             = LastSunday(YearStart(year) + UpTo(3, year) + 30)
        /\ DayNumber(utc, 10, LastSundayOf(utc, 10))
             = LastSunday(YearStart(utc) + UpTo(10, utc) + 30)
    BY <1>7, <2>5, LegalSunday
  <2>8. Before(d, s, DayNumber(year, 3, LastSundayOf(year, 3)), 3600)
    <3> DEFINE n == YearStart(year) + UpTo(3, year) + 30
    <3>1. n \in Int /\ n >= YearStart(year) + 30
      BY <2>1, <2>6
    <3> HIDE DEF n
    <3>2. LastSunday(n) \in (n - 6)..n
      BY <3>1, LastSundayValue
    <3>3. d < LastSunday(n)
      BY <1>4, <2>1, <2>4, <3>1, <3>2
    <3>. QED BY <2>7, <3>3 DEF Before, n
  <2>9. ~Before(d, s, DayNumber(utc, 10, LastSundayOf(utc, 10)), 3600)
    <3> DEFINE n == YearStart(utc) + UpTo(10, utc) + 30
    <3>1. n \in Int /\ n <= YearStart(utc) + 304
      BY <2>1, <2>6 DEF UpTo, DaysUpTo
    <3> HIDE DEF n
    <3>2. LastSunday(n) \in (n - 6)..n
      BY <3>1, LastSundayValue
    <3>3. LastSunday(n) < d
      BY <1>4, <2>1, <2>4, <3>1, <3>2
    <3>. QED BY <1>4, <2>7, <3>2, <3>3, <3>1 DEF Before, n
  <2>. QED BY <1>2, <1>6, <1>8, <2>8, <2>9 DEF InSummer
<1>. QED BY <1>9, <1>10

-----------------------------------------------------------------------------
(***************************************************************************)
(* Counting on: a second later the clock shows the next second.            *)
(***************************************************************************)
\* In the century the cartridge's leap years are the calendar's.
LEMMA LeapOfCentury == \A y \in 0..99 : Leap(2000 + y) <=> y % 4 = 0
BY DEF Leap

LEMMA DateShows ==
  ASSUME NEW c \in Clocks, NEW d \in Int, NEW s,
         NEW y \in Years, y \in 2000..2099, NEW m \in Months,
         NEW e \in Int, 1 <= e, e <= DaysInMonth(m, y),
         d = YearStart(y) + UpTo(m, y) + e - 1,
         NEW w, w = (d + 4) % 7,
         s = SecondOf(c.hour, c.minute, c.second),
         NEW n, n = [hour |-> c.hour, minute |-> c.minute, second |-> c.second, day |-> e,
                     month |-> m, year |-> y - 2000, weekday |-> w]
  PROVE  Shows(n, d, s)
<1>1. DaysInMonth(m, y) \in 28..31
  BY MonthRanges
<1>2. e \in 1..31 /\ w \in 0..6 /\ y - 2000 \in 0..99 /\ 2000 + (y - 2000) = y
  BY <1>1
<1>3. n \in Clocks
  <2>1. c.hour \in Hours /\ c.minute \in Sixty /\ c.second \in Sixty
    BY DEF Clocks
  <2>. QED BY <1>2, <2>1 DEF Clocks
<1>4. DayNumber(y, m, e) = d
  BY DayNumberValue
<1>5. Weekday(y, m, e) = w
  BY <1>4, WeekdayOfDay, DaysOfCentury DEF Weekday
<1>. QED BY <1>2, <1>3, <1>4, <1>5 DEF Shows

LEMMA AdvanceDateFields ==
  ASSUME NEW c \in Clocks
  PROVE  LET days    == MonthDays[c.month] + IF c.month = 2 /\ c.year % 4 = 0 THEN 1 ELSE 0
             wrapped == c.day + 1 > days
         IN AdvanceDate(c) =
              [hour |-> c.hour, minute |-> c.minute, second |-> c.second,
               day |-> IF wrapped THEN 1 ELSE c.day + 1,
               month |-> IF ~wrapped THEN c.month ELSE (c.month % 12) + 1,
               year |-> IF wrapped /\ c.month = 12 THEN c.year + 1 ELSE c.year,
               weekday |-> (c.weekday + 1) % 7]
<1> DEFINE days    == MonthDays[c.month] + IF c.month = 2 /\ c.year % 4 = 0 THEN 1 ELSE 0
           wrapped == c.day + 1 > days
           date    == IF wrapped THEN 1 ELSE c.day + 1
           month   == IF ~wrapped THEN c.month ELSE (c.month % 12) + 1
           year    == IF wrapped /\ c.month = 12 THEN c.year + 1 ELSE c.year
           weekday == (c.weekday + 1) % 7
<1>1. AdvanceDate(c) = [c EXCEPT !.weekday = weekday, !.day = date,
                                 !.month = month, !.year = year]
  BY DEF AdvanceDate
<1> HIDE DEF date, month, year, weekday
<1> DEFINE Fields(e, k, z, w) ==
             [hour |-> c.hour, minute |-> c.minute, second |-> c.second, day |-> e,
              month |-> k, year |-> z, weekday |-> w]
<1>2. [c EXCEPT !.weekday = weekday] = Fields(c.day, c.month, c.year, weekday)
  BY DEF Clocks
<1>3. [Fields(c.day, c.month, c.year, weekday) EXCEPT !.day = date]
      = Fields(date, c.month, c.year, weekday)
  OBVIOUS
<1>4. [Fields(date, c.month, c.year, weekday) EXCEPT !.month = month]
      = Fields(date, month, c.year, weekday)
  OBVIOUS
<1>5. [Fields(date, month, c.year, weekday) EXCEPT !.year = year]
      = Fields(date, month, year, weekday)
  OBVIOUS
<1>6. [c EXCEPT !.weekday = weekday, !.day = date, !.month = month, !.year = year]
      = [[[[c EXCEPT !.weekday = weekday] EXCEPT !.day = date]
                                          EXCEPT !.month = month] EXCEPT !.year = year]
  OBVIOUS
<1> HIDE DEF Fields
<1>7. AdvanceDate(c) = Fields(date, month, year, weekday)
  BY <1>1, <1>2, <1>3, <1>4, <1>5, <1>6
<1>. QED BY <1>7 DEF Fields, date, month, year, weekday

LEMMA NextDate ==
  ASSUME NEW d \in Int, NEW c \in Clocks, NEW s, Shows(c, d, s),
         d + 1 < YearStart(2100)
  PROVE  Shows(AdvanceDate(c), d + 1, s)
<1> DEFINE y    == 2000 + c.year
           m    == c.month
           days == DaysInMonth(m, y)
           n    == AdvanceDate(c)
<1>1. /\ y \in Years /\ y \in 2000..2099 /\ m \in Months /\ c.day \in 1..31
      /\ c.year \in 0..99 /\ c.weekday \in 0..6
  BY DEF Clocks, Years
<1>2. /\ c.day <= days
      /\ c.weekday = Weekday(y, m, c.day)
      /\ d = DayNumber(y, m, c.day)
      /\ s = SecondOf(c.hour, c.minute, c.second)
  BY DEF Shows
<1> DEFINE length  == MonthDays[m] + IF m = 2 /\ c.year % 4 = 0 THEN 1 ELSE 0
           wrapped == c.day + 1 > length
           weekday == (c.weekday + 1) % 7
<1>3. n = [hour |-> c.hour, minute |-> c.minute, second |-> c.second,
           day |-> IF wrapped THEN 1 ELSE c.day + 1,
           month |-> IF ~wrapped THEN m ELSE (m % 12) + 1,
           year |-> IF wrapped /\ m = 12 THEN c.year + 1 ELSE c.year,
           weekday |-> weekday]
  BY AdvanceDateFields
<1>4. days = length
  BY <1>1, LeapOfCentury DEF DaysInMonth
<1>5. days \in 28..31 /\ UpTo(m, y) \in 0..335 /\ YearStart(y) \in Nat
  BY <1>1, MonthRanges, YearTypes
<1>6. d = YearStart(y) + UpTo(m, y) + c.day - 1
  BY <1>1, <1>2, DayNumberValue
<1>7. c.weekday = (d + 4) % 7
  BY <1>2, WeekdayOfDay, DaysOfCentury DEF Weekday
<1>8. weekday = ((d + 1) + 4) % 7
  BY <1>7
<1>9. c.year = y - 2000 /\ c.year + 1 = (y + 1) - 2000 /\ d + 1 \in Int
  BY <1>1
<1>. wrapped <=> c.day + 1 > days
  BY <1>4
<1> HIDE DEF y, m, days, n, length, weekday, wrapped
<1>10. ASSUME ~wrapped PROVE Shows(n, d + 1, s)
  <2>1. n = [hour |-> c.hour, minute |-> c.minute, second |-> c.second, day |-> c.day + 1,
             month |-> m, year |-> y - 2000, weekday |-> weekday]
    BY <1>3, <1>9, <1>10
  <2>2. c.day + 1 \in Int /\ 1 <= c.day + 1 /\ c.day + 1 <= days
    BY <1>1, <1>5, <1>10
  <2>3. d + 1 = YearStart(y) + UpTo(m, y) + (c.day + 1) - 1
    <3>1. YearStart(y) \in Int /\ UpTo(m, y) \in Int /\ c.day \in Int
      BY <1>1, <1>5
    <3>. QED BY <1>6, <3>1
  <2>. QED BY <1>1, <1>2, <1>8, <1>9, <2>1, <2>2, <2>3, DateShows DEF days
<1>11. ASSUME wrapped /\ m # 12 PROVE Shows(n, d + 1, s)
  <2>1. m \in 1..11 /\ m + 1 \in Months /\ (m % 12) + 1 = m + 1
    BY <1>1, <1>11 DEF Months
  <2>2. n = [hour |-> c.hour, minute |-> c.minute, second |-> c.second, day |-> 1,
             month |-> m + 1, year |-> y - 2000, weekday |-> weekday]
    BY <1>3, <1>9, <1>11, <2>1
  <2>3. UpTo(m + 1, y) = UpTo(m, y) + days
    BY <1>1, <2>1, MonthNext DEF days
  <2>4. d + 1 = YearStart(y) + UpTo(m + 1, y) + 1 - 1 /\ c.day = days
    BY <1>1, <1>2, <1>4, <1>5, <1>6, <1>11, <2>3
  <2>5. DaysInMonth(m + 1, y) \in 28..31
    BY <1>1, <2>1, MonthRanges
  <2>6. 1 <= DaysInMonth(m + 1, y)
    BY <2>5
  <2>. QED BY <1>1, <1>2, <1>8, <1>9, <2>1, <2>2, <2>4, <2>6, DateShows
<1>12. ASSUME wrapped /\ m = 12 PROVE Shows(n, d + 1, s)
  <2>1. (m % 12) + 1 = 1 /\ 1 \in Months /\ 12 \in Months
    BY <1>12 DEF Months
  <2>2. n = [hour |-> c.hour, minute |-> c.minute, second |-> c.second, day |-> 1,
             month |-> 1, year |-> (y + 1) - 2000, weekday |-> weekday]
    BY <1>3, <1>9, <1>12, <2>1
  <2>3. UpTo(12, y) + 31 = YearDays(y) /\ UpTo(1, y + 1) = 0
    BY <1>1, MonthNext DEF UpTo, DaysUpTo
  <2>4. days = 31
    BY <1>12 DEF days, DaysInMonth, MonthDays
  <2>5. d + 1 = YearStart(y) + YearDays(y)
    BY <1>1, <1>2, <1>4, <1>5, <1>6, <1>12, <2>3, <2>4
  <2>6. YearStart(y + 1) = YearStart(y) + YearDays(y)
    BY <1>1, YearStartNext
  <2>7. y + 1 \in 2000..2099 /\ y + 1 \in Years
    <3>1. y # 2099
      BY <2>5, <2>6
    <3>. QED BY <1>1, <3>1 DEF Years
  <2>8. d + 1 = YearStart(y + 1) + UpTo(1, y + 1) + 1 - 1
    BY <2>3, <2>5, <2>6, <1>9
  <2>9. 1 <= DaysInMonth(1, y + 1)
    BY DEF DaysInMonth, MonthDays
  <2>. QED BY <1>1, <1>2, <1>8, <1>9, <2>1, <2>2, <2>7, <2>8, <2>9, DateShows
<1>. QED BY <1>10, <1>11, <1>12 DEF n

LEMMA TimeShows ==
  ASSUME NEW c \in Clocks, NEW d, NEW s, Shows(c, d, s),
         NEW h \in Hours, NEW m \in Sixty, NEW e \in Sixty,
         NEW n, n = [hour |-> h, minute |-> m, second |-> e, day |-> c.day,
                     month |-> c.month, year |-> c.year, weekday |-> c.weekday]
  PROVE  Shows(n, d, SecondOf(h, m, e))
<1>1. /\ c.day \in 1..31 /\ c.month \in Months /\ c.year \in 0..99
      /\ c.weekday \in 0..6
  BY SMT DEF Clocks
<1>2. n \in Clocks
  BY <1>1, SMT DEF Clocks
<1>3. /\ n.hour = h /\ n.minute = m /\ n.second = e /\ n.day = c.day
      /\ n.month = c.month /\ n.year = c.year /\ n.weekday = c.weekday
  BY SMT
<1> DEFINE y == 2000 + c.year
<1>4. /\ c.day <= DaysInMonth(c.month, y)
      /\ c.weekday = Weekday(y, c.month, c.day)
      /\ d = DayNumber(y, c.month, c.day)
  BY SMT DEF Shows
<1>5. 2000 + n.year = y
  BY <1>3, SMT
<1> HIDE DEF y
<1>. QED BY <1>2, <1>3, <1>4, <1>5, SMT DEF Shows

\* The last second of a day is the only one with all three fields at their end.
LEMMA SecondsCount ==
  ASSUME NEW h \in Hours, NEW m \in Sixty, NEW e \in Sixty
  PROVE  /\ SecondOf(h, m, e) \in Int
         /\ e < 59 => SecondOf(h, m, e + 1) = SecondOf(h, m, e) + 1
         /\ m < 59 => SecondOf(h, m + 1, 0) = SecondOf(h, m, 59) + 1
         /\ SecondOf(h + 1, 0, 0) = SecondOf(h, 59, 59) + 1
         /\ SecondOf(h, m, e) < DaySeconds
         /\ SecondOf(h, m, e) + 1 = DaySeconds <=> h = 23 /\ m = 59 /\ e = 59
BY SMT DEF SecondOf, DaySeconds, Hours, Sixty

SetMinute(c, m, e)  == [c EXCEPT !.second = e, !.minute = m]
SetHour(c, h, m, e) == [c EXCEPT !.second = e, !.minute = m, !.hour = h]

LEMMA SecondAndMinute ==
  ASSUME NEW c \in Clocks, NEW m, NEW e
  PROVE  SetMinute(c, m, e)
         = [hour |-> c.hour, minute |-> m, second |-> e, day |-> c.day,
            month |-> c.month, year |-> c.year, weekday |-> c.weekday]
<1> DEFINE Time(k, n, f) ==
             [hour |-> k, minute |-> n, second |-> f, day |-> c.day,
              month |-> c.month, year |-> c.year, weekday |-> c.weekday]
<1>1. [c EXCEPT !.second = e] = Time(c.hour, c.minute, e)
  BY DEF Clocks
<1>2. [Time(c.hour, c.minute, e) EXCEPT !.minute = m] = Time(c.hour, m, e)
  OBVIOUS
<1>3. [c EXCEPT !.second = e, !.minute = m] = [[c EXCEPT !.second = e] EXCEPT !.minute = m]
  OBVIOUS
<1> HIDE DEF Time
<1>4. [c EXCEPT !.second = e, !.minute = m] = Time(c.hour, m, e)
  BY <1>1, <1>2, <1>3
<1>. QED BY <1>4 DEF Time, SetMinute

LEMMA WholeTime ==
  ASSUME NEW c \in Clocks, NEW h, NEW m, NEW e
  PROVE  SetHour(c, h, m, e)
         = [hour |-> h, minute |-> m, second |-> e, day |-> c.day,
            month |-> c.month, year |-> c.year, weekday |-> c.weekday]
<1> DEFINE Time(k, n, f) ==
             [hour |-> k, minute |-> n, second |-> f, day |-> c.day,
              month |-> c.month, year |-> c.year, weekday |-> c.weekday]
<1>1. [c EXCEPT !.second = e, !.minute = m] = Time(c.hour, m, e)
  BY SecondAndMinute DEF SetMinute
<1>2. [Time(c.hour, m, e) EXCEPT !.hour = h] = Time(h, m, e)
  OBVIOUS
<1>3. [c EXCEPT !.second = e, !.minute = m, !.hour = h]
      = [[c EXCEPT !.second = e, !.minute = m] EXCEPT !.hour = h]
  OBVIOUS
<1> HIDE DEF Time
<1>4. [c EXCEPT !.second = e, !.minute = m, !.hour = h] = Time(h, m, e)
  BY <1>1, <1>2, <1>3
<1>. QED BY <1>4 DEF Time, SetHour

LEMMA NextSecond ==
  ASSUME NEW d \in Int, NEW s \in Int, NEW c \in Clocks, Shows(c, d, s),
         s + 1 = DaySeconds => d + 1 < YearStart(2100)
  PROVE  IF s + 1 = DaySeconds THEN Shows(AdvanceSecond(c), d + 1, 0)
                               ELSE Shows(AdvanceSecond(c), d, s + 1)
<1> DEFINE Time(h, m, e) ==
             [hour |-> h, minute |-> m, second |-> e, day |-> c.day,
              month |-> c.month, year |-> c.year, weekday |-> c.weekday]
<1>1. /\ c.hour \in Hours /\ c.minute \in Sixty /\ c.second \in Sixty
      /\ s = SecondOf(c.hour, c.minute, c.second)
  BY SMT DEF Clocks, Shows
<1>2. ASSUME NEW h \in Hours, NEW m \in Sixty, NEW e \in Sixty
      PROVE  Shows(Time(h, m, e), d, SecondOf(h, m, e))
  BY TimeShows, SMT
<1> DEFINE e1 == c.second + 1
           m1 == c.minute + 1
           h1 == c.hour + 1
<1> HIDE DEF e1, m1, h1
<1>3. [c EXCEPT !.second = e1] = Time(c.hour, c.minute, e1)
  BY SMT DEF Clocks
<1>4. [c EXCEPT !.second = 0, !.minute = m1] = Time(c.hour, m1, 0)
  <2>1. SetMinute(c, m1, 0) = Time(c.hour, m1, 0)
    BY SecondAndMinute, SMT
  <2> HIDE DEF Time
  <2>. QED BY <2>1, SMT DEF SetMinute
<1>5. [c EXCEPT !.second = 0, !.minute = 0, !.hour = h1] = Time(h1, 0, 0)
  <2>1. SetHour(c, h1, 0, 0) = Time(h1, 0, 0)
    BY WholeTime, SMT
  <2> HIDE DEF Time
  <2>. QED BY <2>1, SMT DEF SetHour
<1>6. [c EXCEPT !.second = 0, !.minute = 0, !.hour = 0] = Time(0, 0, 0)
  <2>1. SetHour(c, 0, 0, 0) = Time(0, 0, 0)
    BY WholeTime, SMT
  <2> HIDE DEF Time
  <2>. QED BY <2>1, SMT DEF SetHour
<1> HIDE DEF Time
<1>7. ASSUME c.second < 59
      PROVE  s + 1 # DaySeconds /\ Shows(AdvanceSecond(c), d, s + 1)
  <2>1. AdvanceSecond(c) = Time(c.hour, c.minute, c.second + 1)
    <3>1. AdvanceSecond(c) = [c EXCEPT !.second = c.second + 1]
      BY <1>1, <1>7, SMT DEF AdvanceSecond, Hours, Sixty
    <3>. QED BY <1>3, <3>1, SMT DEF e1
  <2>2. c.second + 1 \in Sixty
    BY <1>1, <1>7, SMT DEF Sixty
  <2>3. s + 1 # DaySeconds /\ s + 1 = SecondOf(c.hour, c.minute, c.second + 1)
    BY <1>1, <1>7, SecondsCount, SMT
  <2>. QED BY <1>1, <1>2, <2>1, <2>2, <2>3, SMT
<1>8. ASSUME c.second = 59, c.minute < 59
      PROVE  s + 1 # DaySeconds /\ Shows(AdvanceSecond(c), d, s + 1)
  <2>1. AdvanceSecond(c) = Time(c.hour, c.minute + 1, 0)
    <3>1. AdvanceSecond(c) = [c EXCEPT !.second = 0, !.minute = c.minute + 1]
      BY <1>1, <1>8, SMT DEF AdvanceSecond, Hours, Sixty
    <3>. QED BY <1>4, <3>1, SMT DEF m1
  <2>2. c.minute + 1 \in Sixty /\ 0 \in Sixty
    BY <1>1, <1>8, SMT DEF Sixty
  <2>3. s + 1 # DaySeconds /\ s + 1 = SecondOf(c.hour, c.minute + 1, 0)
    BY <1>1, <1>8, SecondsCount, SMT
  <2>. QED BY <1>1, <1>2, <2>1, <2>2, <2>3, SMT
<1>9. ASSUME c.second = 59, c.minute = 59, c.hour < 23
      PROVE  s + 1 # DaySeconds /\ Shows(AdvanceSecond(c), d, s + 1)
  <2>1. AdvanceSecond(c) = Time(c.hour + 1, 0, 0)
    <3>1. AdvanceSecond(c) = [c EXCEPT !.second = 0, !.minute = 0, !.hour = c.hour + 1]
      BY <1>1, <1>9, SMT DEF AdvanceSecond, Hours, Sixty
    <3>. QED BY <1>5, <3>1, SMT DEF h1
  <2>2. c.hour + 1 \in Hours /\ 0 \in Sixty
    BY <1>1, <1>9, SMT DEF Hours, Sixty
  <2>3. s + 1 # DaySeconds /\ s + 1 = SecondOf(c.hour + 1, 0, 0)
    BY <1>1, <1>9, SecondsCount, SMT
  <2>. QED BY <1>1, <1>2, <2>1, <2>2, <2>3, SMT
<1>10. ASSUME c.second = 59, c.minute = 59, c.hour = 23
      PROVE  s + 1 = DaySeconds /\ Shows(AdvanceSecond(c), d + 1, 0)
  <2>1. AdvanceSecond(c) = AdvanceDate(Time(0, 0, 0))
    <3>1. AdvanceSecond(c) = AdvanceDate([c EXCEPT !.second = 0, !.minute = 0, !.hour = 0])
      BY <1>1, <1>10, SMT DEF AdvanceSecond, Hours, Sixty
    <3>. QED BY <1>6, <3>1, SMT
  <2>2. s + 1 = DaySeconds
    BY <1>1, <1>10, SecondsCount, SMT
  <2>3. Shows(Time(0, 0, 0), d, 0)
    <3>1. 0 \in Sixty /\ 0 \in Hours /\ SecondOf(0, 0, 0) = 0
      BY SMT DEF SecondOf, Hours, Sixty
    <3>. QED BY <1>2, <3>1, SMT
  <2>4. Time(0, 0, 0) \in Clocks
    BY <2>3, SMT DEF Shows
  <2>5. d + 1 < YearStart(2100)
    BY <2>2, SMT
  <2>. QED BY <2>1, <2>2, <2>3, <2>4, <2>5, NextDate, SMT
<1>11. \/ c.second < 59
       \/ c.second = 59 /\ c.minute < 59
       \/ c.second = 59 /\ c.minute = 59 /\ c.hour < 23
       \/ c.second = 59 /\ c.minute = 59 /\ c.hour = 23
  BY <1>1, SMT DEF Hours, Sixty
<1>. QED BY <1>7, <1>8, <1>9, <1>10, <1>11, SMT

-----------------------------------------------------------------------------
(***************************************************************************)
(* The clock tells local time.                                             *)
(***************************************************************************)
ClockInv ==
  /\ day \in Century
  /\ second \in Int /\ 0 <= second /\ second < DaySeconds
  /\ offset = 3600 \/ offset = 7200
  /\ halves \in Nat
  /\ Shows(clock, day + (second + offset) \div DaySeconds, (second + offset) % DaySeconds)
  /\ OffsetIsLegal

LEMMA ClockInvInit ==
  ASSUME \A t \in Fetches, y \in Years : ~MissedOctober(t[1], t[2], y), ClockInit
  PROVE  ClockInv
<1>1. PICK t \in Fetches : ClockStart(t)
  BY SMT DEF ClockInit
<1>2. t[1] \in Century /\ t[2] \in 0..(DaySeconds - 1)
  BY ClockAssumption, SMT
<1>3. /\ day = t[1] /\ second = t[2] /\ offset = Offset(day, second)
      /\ clock = Components(day, second) /\ halves = 0
  BY <1>1, SMT DEF ClockStart
<1>4. /\ day \in Century
      /\ second \in Int /\ 0 <= second /\ second < DaySeconds
  <2>1. t[2] \in 0..(DaySeconds - 1) /\ DaySeconds \in Int
    <3>1. DaySeconds \in Int
      BY SMT DEF DaySeconds
    <3>. QED BY <1>2, <3>1, SMT
  <2>2. t[2] \in Int /\ 0 <= t[2] /\ t[2] < DaySeconds
    BY <2>1, SMT
  <2>. QED BY <1>2, <1>3, <2>2, SMT
<1>5. \A y \in Years : ~MissedOctober(day, second, y)
  BY <1>3, SMT
<1>6. offset = 3600 \/ offset = 7200
  BY <1>3, SMT DEF Offset
<1>7. Shows(clock, day + (second + offset) \div DaySeconds, (second + offset) % DaySeconds)
  BY <1>3, <1>4, ComponentsShow, SMT
<1>8. offset = IF InSummer(day, second, 2000 + clock.year) THEN 7200 ELSE 3600
  BY <1>3, <1>4, <1>5, OffsetLegal, SMT
<1>. QED BY <1>3, <1>4, <1>6, <1>7, <1>8, SMT DEF ClockInv, OffsetIsLegal

LEMMA ClockInvNext ==
  ASSUME ClockInv, [HalfSecond /\ day' \in Century]_clockVars
  PROVE  ClockInv'
<1>1. CASE UNCHANGED clockVars
  BY <1>1, SMT DEF ClockInv, clockVars, OffsetIsLegal, Shows
<1>2. ASSUME HalfSecond, day' \in Century PROVE ClockInv'
  <2> DEFINE local == second + offset
             ld    == day + local \div DaySeconds
             ls    == local % DaySeconds
  <2>1. /\ day \in Int /\ second \in Int /\ 0 <= second /\ second < DaySeconds
        /\ offset = 3600 \/ offset = 7200
        /\ halves \in Nat /\ halves' = halves + 1 /\ offset' = offset
        /\ Shows(clock, ld, ls)
    BY <1>2, CenturyDays, SMT DEF ClockInv, HalfSecond
  <2>2. halves' \in Nat /\ OffsetIsLegal'
    BY <2>1, SMT DEF OffsetIsLegal
  <2>3. CASE halves % 2 # 1
    BY <1>2, <2>1, <2>2, <2>3, SMT DEF HalfSecond, ClockInv
  <2>4. CASE halves % 2 = 1
    <3>1. /\ clock' = AdvanceSecond(clock)
          /\ second' = (second + 1) % DaySeconds
          /\ day' = day + (second + 1) \div DaySeconds
      BY <1>2, <2>4, SMT DEF HalfSecond
    <3> DEFINE newLocal == second' + offset
               newLd    == day' + newLocal \div DaySeconds
               newLs    == newLocal % DaySeconds
    <3>2. second' \in Int /\ 0 <= second' /\ second' < DaySeconds
      BY <2>1, <3>1, SMT DEF DaySeconds
    <3>3. /\ ls \in Int /\ ld \in Int
          /\ newLd = IF ls + 1 = DaySeconds THEN ld + 1 ELSE ld
          /\ newLs = IF ls + 1 = DaySeconds THEN 0 ELSE ls + 1
      BY <2>1, <3>1, SMT DEF DaySeconds
    <3>4. newLd = day' \/ newLd = day' + 1
      BY <1>2, <2>1, <3>2, CenturyDays, SMT DEF DaySeconds
    <3>5. newLd < YearStart(2100)
      <4>1. day' \in Int /\ day' <= 47480 /\ YearStart(2100) = 47482
        BY <1>2, CenturyDays, DaysOfCentury, SMT
      <4> HIDE DEF newLd
      <4>. QED BY <3>4, <4>1, SMT
    <3>6. clock \in Clocks
      BY <2>1, SMT DEF Shows
    <3> HIDE DEF newLocal, newLd, newLs, ld, ls
    <3>7. Shows(clock', newLd, newLs)
      BY <2>1, <3>1, <3>3, <3>5, <3>6, NextSecond, SMT
    <3>. QED BY <1>2, <2>1, <2>2, <3>2, <3>7, SMT DEF ClockInv, newLd, newLs, newLocal
  <2>. QED BY <2>3, <2>4, SMT
<1>. QED BY <1>1, <1>2, SMT

LEMMA ClockInvTells == ClockInv => ClockTellsLocalTime
<1> SUFFICES ASSUME ClockInv PROVE ClockTellsLocalTime
  OBVIOUS
<1> DEFINE local == second + offset
           year  == 2000 + clock.year
           shown == DayNumber(year, clock.month, clock.day)
<1>1. /\ day \in Int /\ second \in Int /\ 0 <= second /\ second < DaySeconds
      /\ offset = 3600 \/ offset = 7200
      /\ Shows(clock, day + local \div DaySeconds, local % DaySeconds)
      /\ OffsetIsLegal
  BY CenturyDays, SMT DEF ClockInv
<1>2. local \in Int /\ local = (local \div DaySeconds) * DaySeconds + (local % DaySeconds)
      /\ local \div DaySeconds \in Int /\ local % DaySeconds \in Int
  BY <1>1, SMT DEF DaySeconds
<1>3. /\ clock \in Clocks
      /\ clock.day <= DaysInMonth(clock.month, year)
      /\ clock.weekday = Weekday(year, clock.month, clock.day)
      /\ day + local \div DaySeconds = shown
      /\ local % DaySeconds = SecondOf(clock.hour, clock.minute, clock.second)
  BY <1>1, SMT DEF Shows
<1>4. /\ clock.month \in Months /\ clock.day \in 1..31 /\ year \in Years
      /\ clock.hour \in Int /\ clock.minute \in Int /\ clock.second \in Int
  BY <1>3, SMT DEF Clocks, Hours, Sixty, Years
<1>5. clock.month \in 1..12 /\ clock.day \in 1..DaysInMonth(clock.month, year)
  <2>1. DaysInMonth(clock.month, year) \in 28..31
    BY <1>4, MonthRanges, SMT
  <2>. QED BY <1>3, <1>4, <2>1, SMT DEF Months
<1> DEFINE q == local \div DaySeconds
           r == local % DaySeconds
<1>6. (shown - day) * DaySeconds + clock.hour * 3600 + clock.minute * 60
        + clock.second - second = offset
  <2>1. q \in Int /\ r \in Int /\ second + offset = q * 86400 + r
        /\ shown = day + q /\ r = SecondOf(clock.hour, clock.minute, clock.second)
    BY <1>2, <1>3, SMT DEF DaySeconds
  <2> HIDE DEF q, r, shown
  <2>2. shown - day = q
    BY <1>1, <2>1, SMT
  <2>. QED BY <1>1, <1>4, <2>1, <2>2, SMT DEF SecondOf, DaySeconds
<1> HIDE DEF local, shown
<1>. QED BY <1>1, <1>3, <1>5, <1>6, SMT DEF ClockTellsLocalTime, shown

\* The clock of the page header shows a date there is, its weekday and the local
\* time of the Netherlands, from any fetch of the century that is not in an
\* October the code misses, through every midnight, end of a month and leap day
\* that the cartridge counts through by itself (_platform_advance_clock).
THEOREM ClockTellsLocalTimeHolds ==
  ASSUME \A t \in Fetches, y \in Years : ~MissedOctober(t[1], t[2], y)
  PROVE  ClockSpec => []ClockTellsLocalTime
<1>1. ClockInit => ClockInv
  BY ClockInvInit
<1>2. ClockInv /\ [HalfSecond /\ day' \in Century]_clockVars => ClockInv'
  BY ClockInvNext
<1>. QED BY <1>1, <1>2, ClockInvTells, PTL DEF ClockSpec
=============================================================================
