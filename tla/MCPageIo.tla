------------------------------ MODULE MCPageIo ------------------------------
(***************************************************************************)
(* PageIo under names that differ from those of FaultHandling, where a     *)
(* file is all there is of a page outside RAM.                             *)
(***************************************************************************)
EXTENDS Integers

CONSTANTS NPages, PageSize, Width, Contents

VARIABLES io_file, m_tmp_page, room, broken, op, last

Io == INSTANCE PageIo WITH file <- io_file

ASSUME SizesAssumption == Io!Sized

IoSpec == Io!FairSpec

\* swap_out_page_data, init_file: a byte of a page is only ever written to its own place.
WrittenInPlace == Io!WrittenInPlace

\* swap_out_page_data, swap_in_page: a write loop in which no call failed has written
\* its page, and a page that was read in one call is what the file holds.
CompleteUnlessFailed == Io!CompleteUnlessFailed

\* Every loop ends if from some time on the device has room, or fails for good.
LoopsEnd == Io!LoopsEnd
=============================================================================
