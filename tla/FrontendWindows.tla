-------------------------- MODULE FrontendWindows --------------------------
(***************************************************************************)
(* The windows of the two front ends over the same fields, texts, columns  *)
(* and templates.  They never run together: Spec is the Quick one, and     *)
(* WidgetsSpec is the Widgets one, whose window and commands have the same *)
(* names and which keeps four variables more.  What is true of the rows,   *)
(* the queries and the columns is then stated once for both.               *)
(***************************************************************************)
EXTENDS QuickConfiguration

CONSTANT Projections    \* the columns the user of the Widgets window may choose

(* EventProjectionDialog is accepted only while a column is selected.      *)
ASSUME FrontendWindowsAssumption ==
    \A projection \in Projections : projection \in ValidProjections

VARIABLES dialog, export, bundle, file

Widgets == INSTANCE WidgetsWindow

WidgetsSpec == Widgets!Spec

(* Every copy that the Widgets window keeps of the filter, the columns,    *)
(* the templates, the document's state and the busy state agrees whenever  *)
(* its main loop is idle: see WidgetsWindow.                               *)
WindowAgrees == Widgets!WindowAgrees

(* The Widgets window replaces a file only when the user was asked about   *)
(* it, as the user guide has it: see WidgetsWindow.                        *)
ReplacementIsConfirmed == Widgets!ReplacementIsConfirmed

(* It does so, and has the authority the user gave it, but for what other  *)
(* programs do between its two looks at the destination.                   *)
OnlyAFileThatLeftIsReplacedUnasked ==
    Widgets!OnlyAFileThatLeftIsReplacedUnasked

(* The view of the Widgets window reads the document it was given only     *)
(* while the view model has one: see WidgetsWindow.                        *)
ViewReadsAvailableDocument == Widgets!ViewReadsAvailableDocument
=============================================================================
