------------------------------ MODULE TreeView ------------------------------
(***************************************************************************)
(* m::gtk::Tree_view: the columns of a list, which its user drags, hides   *)
(* and resizes, and the settings that carry them from one session of the   *)
(* application to the next, whose version may have other columns.          *)
(*                                                                         *)
(* A column is a number: identifiers are compared as std::map compares     *)
(* them.  GTK keeps the order of the columns, their visibility and their   *)
(* widths; what it does is modelled from how the class uses it.  The text  *)
(* of menus and tooltips and the selection of rows are left out.           *)
(***************************************************************************)
EXTENDS Integers, SequencesExt

CONSTANTS
  Versions,         \* the column lists that versions of the application have
  Resizable,        \* the columns added with resizable = true
  SortId,           \* [column -> the model column it sorts by, or -1]
  Widths,           \* the widths the user may give to a column
  Configurations    \* settings files met on the disk, possibly outdated

Columns == UNION {Range(v) : v \in Versions}
FakeColumn == 0
Ascending == "ascending"
Descending == "descending"
DefaultWidth == 100

Order == {Ascending, Descending}
SavedColumn == [name : Nat, visible : BOOLEAN, width : Nat]

ASSUME TreeViewAssumption ==
  /\ \A all \in Versions :
       /\ all \in Seq(Nat \ {FakeColumn}) /\ all # <<>>
       /\ \A i, j \in DOMAIN all : all[i] = all[j] => i = j
  /\ SortId \in [Columns -> Int]
  /\ Widths \subseteq Nat
  /\ \A s \in Configurations : s.columns \in Seq(SavedColumn) /\ s.sort_order \in Order

NoSettings == [columns |-> <<>>, sort_column |-> FakeColumn, sort_order |-> Ascending]

VARIABLES
  tree,       \* the widget: order, visible, fixed_width, width, sort, all
  menu,       \* the header menu that is shown: [column -> handler], or none
  settings,   \* what save_settings() stored at the end of the session
  running

treeVars == <<tree, menu, settings, running>>

\* The columns but one, in their order.
Without(order, c) ==
  LET left[n \in 0 .. Len(order)] ==
        IF n = 0 THEN <<>>
        ELSE IF order[n] = c THEN left[n - 1] ELSE Append(left[n - 1], order[n])
  IN  left[Len(order)]

Real(order) == Without(order, FakeColumn)
Known(t, c) == c \in Range(t.all)
SomeVisible(t) == \E c \in Range(t.order) \ {FakeColumn} : t.visible[c]
NoMenu == <<>>

-----------------------------------------------------------------------------
\* Tree_view_columns::add() for every column, and the widget of the constructor.
NewColumns(all) ==
  [all |-> all,
   order |-> Append(all, FakeColumn),
   visible |-> [c \in Columns |-> TRUE],
   fixed_width |-> [c \in Columns |-> DefaultWidth],
   width |-> [c \in Columns |-> 0],      \* nothing has been laid out
   sort |-> [id |-> -1, order |-> Ascending]]

\* A real column is left visible: the preferred one, or the first.
check_columns_visibility(t, preferred) ==
  IF SomeVisible(t) THEN t
  ELSE [t EXCEPT !.visible[IF preferred = FakeColumn THEN t.all[1] ELSE preferred] = TRUE]

\* Fault in hide_column: whether a column is left is not looked at.
hide_column_unchecked(t, c) == [t EXCEPT !.visible[c] = FALSE]

hide_column(t, c) == check_columns_visibility([t EXCEPT !.visible[c] = FALSE], c)
show_column(t, c) == [t EXCEPT !.visible[c] = TRUE]

\* GTK's move_column_to_start().
move_column_to_start(order, c) == <<c>> \o Without(order, c)

\* One element of settings.columns; GTK refuses a fixed width that is not positive.
load_column(s, t) ==
  IF ~Known(t, s.name) THEN t
  ELSE [t EXCEPT
         !.order = move_column_to_start(@, s.name),
         !.visible[s.name] = s.visible,
         !.fixed_width[s.name] = IF s.name \in Resizable /\ s.width > 0 THEN s.width ELSE @]

load_sort(t, s) ==
  IF Known(t, s.sort_column) /\ SortId[s.sort_column] >= 0
    THEN [t EXCEPT !.sort = [id |-> SortId[s.sort_column], order |-> s.sort_order]]
    ELSE t

\* Fault in load_columns: the columns are taken in the order they are saved in.
load_columns_forward(t, s) == FoldLeft(LAMBDA u, c : load_column(c, u), t, s.columns)

\* The columns are taken from the last to the first, each moved to the start.
load_columns(t, s) ==
  LET last == Len(s.columns)
      loaded[n \in 0 .. last] ==
        IF n = 0 THEN t ELSE load_column(s.columns[last + 1 - n], loaded[n - 1])
  IN  loaded[last]

load_settings(t, s) == check_columns_visibility(load_columns(load_sort(t, s), s), FakeColumn)

Tree_view(all, s) == load_settings(NewColumns(all), s)

saved_columns(t) ==
  LET real == Real(t.order)
  IN  [i \in DOMAIN real |->
        [name |-> real[i],
         visible |-> t.visible[real[i]],
         width |-> IF real[i] \in Resizable THEN t.width[real[i]] ELSE DefaultWidth]]

\* The model knows the column it sorts by; the first of columns_by_ids that
\* sorts by it stands for it in the settings.
saved_sort(t) ==
  LET by == {c \in Range(t.all) : t.sort.id >= 0 /\ SortId[c] = t.sort.id}
  IN  IF by = {} THEN [column |-> FakeColumn, order |-> Ascending]
      ELSE [column |-> CHOOSE c \in by : \A d \in by : c <= d, order |-> t.sort.order]

save_settings(t) ==
  [columns |-> saved_columns(t),
   sort_column |-> saved_sort(t).column,
   sort_order |-> saved_sort(t).order]

-----------------------------------------------------------------------------
TreeInit ==
  /\ \E all \in Versions, s \in Configurations \cup {NoSettings} : tree = Tree_view(all, s)
  /\ menu = NoMenu
  /\ settings = NoSettings
  /\ running = TRUE

\* A right click on a header: the menu binds each column to the handler that
\* its visibility asks for at this moment.
HeaderMenu ==
  /\ running
  /\ menu' = [c \in Range(tree.all) |-> IF tree.visible[c] THEN "hide_column" ELSE "show_column"]
  /\ UNCHANGED <<tree, settings, running>>

ActivateMenuItem(c) ==
  /\ running /\ c \in DOMAIN menu
  /\ tree' = IF menu[c] = "hide_column" THEN hide_column(tree, c) ELSE show_column(tree, c)
  /\ menu' = NoMenu
  /\ UNCHANGED <<settings, running>>

\* column_drag_function(): no drop to the right of the last column.
column_drag_function(right) == right # 0

\* The user drops column c before the column at place "right", 0 for the end.
DragColumn(c, right) ==
  /\ running
  /\ column_drag_function(right) /\ tree.order[right] # c
  /\ tree' = [tree EXCEPT !.order =
                 Without(SubSeq(@, 1, right - 1), c) \o <<c>> \o Without(SubSeq(@, right, Len(@)), c)]
  /\ UNCHANGED <<menu, settings, running>>

\* GTK lays the window out: the columns in sight get their width.
Layout ==
  /\ running
  /\ tree' = [tree EXCEPT !.width =
               [c \in Columns |-> IF c \in Range(tree.order) /\ tree.visible[c]
                                    THEN tree.fixed_width[c] ELSE @[c]]]
  /\ UNCHANGED <<menu, settings, running>>

ResizeColumn(c, w) ==
  /\ running
  /\ c \in Resizable /\ tree.visible[c] /\ tree.width[c] > 0
  /\ tree' = [tree EXCEPT !.fixed_width[c] = w, !.width[c] = w]
  /\ UNCHANGED <<menu, settings, running>>

\* A click on the header of a column that can be sorted by.
SortBy(c, order) ==
  /\ running
  /\ SortId[c] >= 0
  /\ tree' = [tree EXCEPT !.sort = [id |-> SortId[c], order |-> order]]
  /\ UNCHANGED <<menu, settings, running>>

\* Public: the application drops a column, visible or not.
RemoveColumn(c) ==
  /\ running
  /\ Len(tree.all) > 1
  /\ tree' = [tree EXCEPT !.order = Without(@, c), !.all = Without(@, c)]
  /\ UNCHANGED <<menu, settings, running>>

LoadSettings(s) ==
  /\ running
  /\ tree' = load_settings(tree, s)
  /\ UNCHANGED <<menu, settings, running>>

EndSession ==
  /\ running
  /\ settings' = save_settings(tree)
  /\ running' = FALSE
  /\ menu' = NoMenu
  /\ UNCHANGED tree

NextSession(all) ==
  /\ ~running
  /\ tree' = Tree_view(all, settings)
  /\ running' = TRUE
  /\ settings' = NoSettings
  /\ UNCHANGED menu

TreeNext ==
  \/ HeaderMenu
  \/ \E c \in Columns : ActivateMenuItem(c)
  \/ \E c \in Range(tree.all), right \in 0 .. Len(tree.order) : DragColumn(c, right)
  \/ Layout
  \/ \E c \in Range(tree.all), w \in Widths : ResizeColumn(c, w)
  \/ \E c \in Range(tree.all), order \in Order : SortBy(c, order)
  \/ \E c \in Range(tree.all) : RemoveColumn(c)
  \/ \E s \in Configurations : LoadSettings(s)
  \/ EndSession
  \/ \E all \in Versions : NextSession(all)

TreeSpec == TreeInit /\ [][TreeNext]_treeVars

-----------------------------------------------------------------------------
\* Hiding columns through a menu, however old, and loading settings, however
\* outdated, never leave a list without a column (and so without a header to
\* open the menu on).  Only the application itself, by remove_column(), can.  And
\* the fake column, which keeps the last real one from being stretched to the
\* border of the list, stays the last one whatever is dragged and loaded.
HeaderStays ==
  [][/\ SomeVisible(tree) /\ ~SomeVisible(tree)' => Len(tree.all') < Len(tree.all)
     /\ Last(tree.order) = FakeColumn => Last(tree.order)' = FakeColumn]_treeVars

Before(order, c, d) == \E i, j \in DOMAIN order : i < j /\ order[i] = c /\ order[j] = d

\* What the next session shows of what the last one had: for the columns both
\* versions have, the order, the visibility, the width of each that was ever
\* in sight, and the sorting if every column that sorts this way is left.
Restored(old, new) ==
  LET both == Range(old.all) \cap Range(new.all)
      Left(t) == {c \in Range(t.all) : t.sort.id = SortId[c]}
  IN  /\ both \subseteq Range(new.order)
      /\ \A c, d \in both : Before(new.order, c, d) <=> Before(old.order, c, d)
      /\ \A c \in both :
           \/ new.visible[c] = old.visible[c]
           \/ c = new.all[1] /\ \A d \in Range(new.all) : d = c \/ ~new.visible[d]
      /\ \A c \in both \cap Resizable : old.width[c] > 0 => new.fixed_width[c] = old.width[c]
      /\ Left(old) \subseteq both /\ (Left(old) # {} \/ old.sort.id = -1) => new.sort = old.sort

\* save_settings() and the constructor of the next version undo each other.
SettingsSurvive == [][~running /\ running' => Restored(tree, tree')]_treeVars
=============================================================================
