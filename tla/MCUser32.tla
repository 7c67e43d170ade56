------------------------------ MODULE MCUser32 ------------------------------
(* TLC instances of the parts of user32: windows and messages (User32),    *)
(* the edit control (Edit), the common controls (Controls), menus (Menu)   *)
(* and dialogs (Dialog).  They share no state: a behaviour is one part's.  *)
EXTENDS User32, Edit, Dialog

VARIABLES part,
  kind, fit, lv, tb, sb, bar, tv, put,
  items, clean, top, hi, state, chosen

controls == << kind, fit, lv, tb, sb, bar, tv, put >>
menu     == << items, clean, top, hi, state, chosen >>
PartVars == << part, vars, evars, controls, menu, dvars >>

(* Texts that fit, and one that does not.                                  *)
Texts == {<< >>, << "a" >>, << "a", "n", "b" >>, << "a", "b", "n", "a", "n", "b" >>}
C == INSTANCE Controls WITH Names <- {"a", "b"}, Sizes <- {1, 2}, LvItems <- 3, LvCols <- 1,
       TbMax <- 3, SbMax <- 2, TvMax <- 3, Width <- 20, Heights <- {1, 2},
       Widths <- {-1, 0, 5, 12}, Spots <- {0, 5, 7, 10}
Entry(type, ends, letter) == [type |-> type, ends |-> ends, letter |-> letter]
M == INSTANCE Menu WITH Letters <- {"f", "o", "c", "x"}, Resources <-
       {<< Entry("pop", FALSE, "f"), Entry("cmd", FALSE, "o"), Entry("sep", FALSE, "-"),
           Entry("cmd", TRUE, "x"), Entry("pop", TRUE, "o"), Entry("cmd", FALSE, "c"),
           Entry("pop", TRUE, "o"), Entry("cmd", TRUE, "f") >>,
        << Entry("pop", FALSE, "f"), Entry("pop", TRUE, "o"), Entry("sep", FALSE, "-"),
           Entry("cmd", TRUE, "c"), Entry("pop", TRUE, "f"), Entry("sep", TRUE, "-") >>,
        << Entry("pop", TRUE, "f"), Entry("pop", TRUE, "o"), Entry("pop", TRUE, "o"),
           Entry("cmd", TRUE, "c") >>}
Ctl(cls, default) == [cls |-> cls, default |-> default]
Dialogs ==
  {<< Ctl("edit", FALSE), Ctl("button", TRUE) >>, << Ctl("button", FALSE), Ctl("button", TRUE) >>}

PartInit == /\ part \in {"windows", "edit", "controls", "menu", "dialog"}
            /\ Init /\ EditInit /\ M!Init /\ DialogInit /\ C!Init
            /\ part # "windows"  => peeks /\ next = 1
            /\ part # "controls" => kind = "list" /\ fit = [shown |-> 1, page |-> 1]
            /\ part # "menu"     => Len(items) = 4
PartNext ==
  /\ UNCHANGED part
  /\ \/ part = "windows" /\ Next /\ UNCHANGED << evars, controls, menu, dvars >>
     \/ part = "edit" /\ EditNext /\ UNCHANGED << vars, controls, menu, dvars >>
     \/ part = "controls" /\ C!Next /\ UNCHANGED << vars, evars, menu, dvars >>
     \/ part = "menu" /\ M!Next /\ UNCHANGED << vars, evars, controls, dvars >>
     \/ part = "dialog" /\ DialogNext /\ UNCHANGED << vars, evars, controls, menu >>
PartSpec == PartInit /\ [][PartNext]_PartVars /\ (part = "windows" => Fair)

(* What each part keeps, beside the windows, edit controls (EditKept) and  *)
(* dialogs (DialogsKept); its module says what the conjuncts mean.  Lists, *)
(* trees, toolbars, status bars and track bars: rows are those that were   *)
(* put in, the selection is in sight, nothing is drawn outside, no row is  *)
(* skipped and the thumb goes where the position goes.  Menus: they have   *)
(* the levels of their resource, the highlight is in the popup and what is *)
(* picked is a command.                                                    *)
ControlsKept ==
  /\ [](part = "controls" => /\ C!ControlsTypeOK /\ C!SelectionShows
                             /\ C!RowsAsPut /\ C!DrawnInside)
  /\ C!NoRowSkipped /\ C!ThumbFollows
  /\ [](part = "menu" => /\ M!MenuTypeOK /\ M!LevelsKept
                         /\ M!HighlightInPopup /\ M!PicksACommand)
=============================================================================
