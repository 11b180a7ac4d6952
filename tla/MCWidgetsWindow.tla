--------------------------- MODULE MCWidgetsWindow ---------------------------
(***************************************************************************)
(* Two templates, one filter field with a text that does not compile, two  *)
(* choices of columns and one accepted command.                            *)
(***************************************************************************)
EXTENDS FrontendWindows

CONSTANTS t1, t2

MCFrames == [text \in {} |-> ""]
MCTrackKinds == <<"video">>
MCEditTypes == <<"cut">>
MCEventFields == <<"event", "initialFrame">>
MCProjections == {<<"event">>, <<"initialFrame", "event">>}

NoTemplates == [identifier \in {t1, t2} |-> NoTemplate]

BrokenFilter ==
    QueryOf(<<[DefaultRow EXCEPT !.text = "(", !.options = {"regex"}]>>, "any")

MCInitialCatalogs ==
    {NoTemplates,
     [NoTemplates EXCEPT ![t1] = [name |-> "a", filter |-> BrokenFilter,
                                  projection |-> <<"initialFrame", "event">>]]}
=============================================================================
