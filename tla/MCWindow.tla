------------------------------ MODULE MCWindow ------------------------------
(***************************************************************************)
(* Window with one version that two sources can list, so that it has two   *)
(* rows, and the files a window can find: none, one that cannot be read,   *)
(* and one edited by hand that lacks a key, with two sources of one        *)
(* priority, an interval the dialog does not offer and a value it does not *)
(* show.                                                                   *)
(***************************************************************************)
EXTENDS Window

MCSources   == 0..1
MCIntervals == {0, 360}
MCThemes    == {"system", "dark"}
MCRest      == {"default", "edited"}

EditedFile == [priorities |-> [s \in MCSources |-> 0], interval |-> 45, unshown |-> "edited"]

MCFiles == {Missing, Unreadable, EditedFile}

MCNotes == {"", "bad"}

=============================================================================
