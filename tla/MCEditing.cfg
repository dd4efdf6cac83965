\* Left out or excepted, for findings of README.md, section 4:
\* text_saves_retyped: LastTypedWins excepts a text typed back to the one shown over a command under way.
\* gestures_selection: CancelRestores looks at the cards still on the brane.
\* table_shown, table_loop: TableHolds excepts tables with a card shown elsewhere, and with a group made by hand.
\* table_tray: whose output a slot is fed after a retry is not said.
\* Each scope of the table is without some operations: only copies has cards shown elsewhere, groups made by hand and retries.
CONSTANTS
    c1 = c1  c2 = c2  g1 = g1  g2 = g2  f1 = f1  f2 = f2  Mouse = Mouse  Frame = Frame
    m1 = m1  m2 = m2  OnTable = OnTable
    Blocks = {b1, b2}
    MaxTyped = 2
    MaxElse = 1
    Cards = {c1, c2}
    MaxSaves = 3
    MaxElsewhere = 1
    MaxFaults = 1
    MaxPressed = 1
    MaxQueue = 3
SPECIFICATION MCSpec
SYMMETRY Symmetry
INVARIANTS TextsKept MovesKept
PROPERTIES GesturesWhole TableKept
CHECK_DEADLOCK FALSE
