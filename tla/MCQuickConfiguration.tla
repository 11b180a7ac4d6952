------------------------ MODULE MCQuickConfiguration ------------------------
(***************************************************************************)
(* Two templates, one filter field, with a text that does not compile as a *)
(* regular expression, two conditions and two columns; the service accepts *)
(* one command, after starting with one template, whose filter has two     *)
(* conditions and does not compile.                                        *)
(***************************************************************************)
EXTENDS QuickConfiguration

CONSTANTS t1, t2

MCFrames == [text \in {} |-> ""]
MCTrackKinds == <<"video">>
MCEditTypes == <<"cut">>
MCEventFields == <<"event", "initialFrame">>

BrokenFilter ==
    LET row == [DefaultRow EXCEPT !.text = "("]
    IN  QueryOf(<<[row EXCEPT !.options = {"regex"}], row>>, "any")

MCInitialCatalogs ==
    {[identifier \in {t1, t2} |->
         IF identifier = t1
         THEN [name |-> "a", filter |-> BrokenFilter,
               projection |-> <<"initialFrame">>]
         ELSE NoTemplate]}

(* What is read back from the rows a query fills is the query, for every   *)
(* field, whatever the rows it was read from had left unfinished.          *)
AllRows ==
    {[DefaultRow EXCEPT !.field = field, !.text = text, !.options = options] :
        field \in {"reel", "clip", "trackKind", "editType", "sourceIn",
                   "recordIn", "duration"},
        text \in Texts, options \in SUBSET {"case", "word", "regex"}}

ASSUME RowsHoldTheQuery ==
    \A first, second \in AllRows, combination \in {"all", "any"} :
       LET query == QueryOf(<<first, second>>, combination)
       IN  QueryOf(RowsOf(query), combination) = query
=============================================================================
