---------------------------- MODULE MCClipboard ----------------------------
(* Values for the constants of Clipboard.                                  *)
EXTENDS Clipboard

Before == [client |-> "mine", server |-> "yours"]
AtBoth == [client |-> {"new", "lf"}, server |-> {"newer", "wide"}]
AnyForm == [client |-> {"new", "lf", "wide", "huge"}, server |-> {"newer"}]
=============================================================================
