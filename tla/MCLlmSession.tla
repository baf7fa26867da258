--------------------------- MODULE MCLlmSession ---------------------------
(***************************************************************************)
(* Instances of LlmSession for TLC.                                        *)
(***************************************************************************)
EXTENDS LlmSession

\* HEAD gives no size, the right one, or a smaller one.
SomeSize == {0, 1, 2}
RightSize == {0, 2}
\* Every answer says where it ends, or some end where the connection is closed.
AlwaysFramed == {TRUE}
FramedOrNot == {TRUE, FALSE}
\* Every server knows Range requests, or some do not.
AlwaysRanges == {TRUE}
RangesOrNot == {TRUE, FALSE}

=============================================================================
