----------------------------- MODULE MCZipStream -----------------------------
(***************************************************************************)
(* ZipStream at sizes TLC can reach: limits a member or two away, so that  *)
(* every field of every header is on both sides of its limit and at it.    *)
(***************************************************************************)
EXTENDS ZipStream

\* DeflateBound(180) is one short of the limit, DeflateBound(181) is at it.
MCU32Limit == 255
MCSizes    == {0, 180, 181, 255, 256}
\* Headers of one member with a name of 2 bytes, and the compressor's bound.
MCHeadroom == 148 + 2 * 2 + 74
MCSlack    == End64Length + LocatorLength + EndLength
=============================================================================
