------------------------------ MODULE MCUmbraRemap ------------------------------
(***************************************************************************)
(* UmbraRemap for TLC.                                                     *)
(***************************************************************************)
EXTENDS UmbraRemap

\* A run goes no further once every page has met an exposure: the properties
\* say nothing of such pages, and no page is ever cleared of one.
UntilExposed == \E p \in Pages : Sheltered(p)
=============================================================================
