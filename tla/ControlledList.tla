--------------------------- MODULE ControlledList ---------------------------
(***************************************************************************)
(* m::gtk::Controlled_list: a list whose selected row three buttons move   *)
(* up, down and out.  The buttons are grey when they would do nothing;     *)
(* they are brought up to date by update_buttons(), which runs when the    *)
(* selection changes, when a row is moved and when the buttons are set,    *)
(* and not when the owner of the model adds or drops a row.                *)
(*                                                                         *)
(* GTK is modelled from how the class uses it: one row is selected at      *)
(* most, the selection follows its row when rows are swapped, and erasing  *)
(* the selected row clears the selection, which is a change of it.         *)
(***************************************************************************)
EXTENDS Integers, SequencesExt

CONSTANTS
  Row,        \* the rows that exist
  NoRow       \* the value of an empty selection

ASSUME NoRowIsNone == NoRow \notin Row

VARIABLES
  rows,       \* the rows of the model, in order
  selected,   \* the selected row, or NoRow
  buttons,    \* [button -> sensitive], for the buttons that were given
  outdated    \* history: the owner has changed the model since update_buttons()

listVars == <<rows, selected, buttons, outdated>>

Button == {"remove", "up", "down"}

\* What update_buttons() gives to the buttons it has.
update_buttons(given, model, row) ==
  [b \in given |->
    /\ row # NoRow
    /\ b = "up" => row # Head(model)
    /\ b = "down" => row # Last(model)]

ListInit ==
  /\ rows = <<>> /\ selected = NoRow /\ outdated = FALSE
  /\ buttons \in {update_buttons(given, rows, selected) : given \in SUBSET Button}

set_buttons(given) ==
  /\ buttons' = update_buttons(given, rows, selected)
  /\ outdated' = FALSE
  /\ UNCHANGED <<rows, selected>>

\* The signal of the selection calls on_selection_changed_cb().
select(row) ==
  /\ row # selected
  /\ selected' = row
  /\ buttons' = update_buttons(DOMAIN buttons, rows, row)
  /\ outdated' = FALSE
  /\ UNCHANGED rows

Swapped(model, i, j) == [model EXCEPT ![i] = model[j], ![j] = model[i]]

\* Fault in push: the buttons are not updated.
push_only(direction) ==
  /\ selected # NoRow
  /\ LET at == CHOOSE i \in DOMAIN rows : rows[i] = selected
         target == IF direction = "up" THEN at - 1 ELSE at + 1
     IN  rows' = IF target \in DOMAIN rows THEN Swapped(rows, at, target) ELSE rows
  /\ UNCHANGED <<selected, buttons, outdated>>

\* push(): the selected row changes places with its neighbour, if there is one.
push(direction) ==
  /\ selected # NoRow
  /\ LET at == CHOOSE i \in DOMAIN rows : rows[i] = selected
         target == IF direction = "up" THEN at - 1 ELSE at + 1
     IN  rows' = IF target \in DOMAIN rows THEN Swapped(rows, at, target) ELSE rows
  /\ buttons' = update_buttons(DOMAIN buttons, rows', selected)
  /\ outdated' = FALSE
  /\ UNCHANGED selected

up == push("up")
down == push("down")

\* remove(): the row that took the place of the erased one is selected, or the
\* last one; the last change of the selection updates the buttons.
remove ==
  /\ selected # NoRow
  /\ LET at == CHOOSE i \in DOMAIN rows : rows[i] = selected
     IN  /\ rows' = RemoveAt(rows, at)
         /\ selected' = IF rows' = <<>> THEN NoRow
                        ELSE IF at \in DOMAIN rows' THEN rows'[at] ELSE Last(rows')
  /\ buttons' = update_buttons(DOMAIN buttons, rows', selected')
  /\ outdated' = FALSE

\* The owner of the model adds a row anywhere.
OwnerInserts(row, i) ==
  /\ row \notin Range(rows)
  /\ rows' = InsertAt(rows, i, row)
  /\ outdated' = TRUE
  /\ UNCHANGED <<selected, buttons>>

\* The owner drops a row: only the loss of the selected one is a change of the selection.
OwnerErases(i) ==
  /\ rows' = RemoveAt(rows, i)
  /\ IF rows[i] = selected
       THEN /\ selected' = NoRow
            /\ buttons' = update_buttons(DOMAIN buttons, rows', NoRow)
            /\ outdated' = FALSE
       ELSE outdated' = TRUE /\ UNCHANGED <<selected, buttons>>

ListNext ==
  \/ \E given \in SUBSET Button : set_buttons(given)
  \/ \E row \in Range(rows) \cup {NoRow} : select(row)
  \/ up
  \/ down
  \/ remove
  \/ \E row \in Row, i \in 1 .. Len(rows) + 1 : OwnerInserts(row, i)
  \/ \E i \in DOMAIN rows : OwnerErases(i)

ListSpec == ListInit /\ [][ListNext]_listVars

-----------------------------------------------------------------------------
\* What pressing a button would change.
WouldDo(b) ==
  /\ selected # NoRow
  /\ b = "up" => rows[1] # selected
  /\ b = "down" => rows[Len(rows)] # selected

\* A button is sensitive exactly when pressing it would do something, as long
\* as the owner has not changed the model behind the widget's back; then the
\* buttons are still of the last update, until the selection or a row moves.
ButtonsMatch ==
  /\ selected = NoRow => \A b \in DOMAIN buttons : ~buttons[b]
  /\ selected # NoRow => selected \in Range(rows)
  /\ ~outdated => \A b \in DOMAIN buttons : buttons[b] <=> WouldDo(b)
=============================================================================
