--------------------------- MODULE MCStickyFormat ---------------------------
(* Instances of StickyFormat for TLC.                                      *)
EXTENDS StickyFormat

=============================================================================
