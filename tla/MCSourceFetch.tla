--------------------------- MODULE MCSourceFetch ---------------------------
(***************************************************************************)
(* SourceAnswers for every kind of source, with programs that may fail to  *)
(* start and a few fetches one after the other: each one starts from the   *)
(* stage and the active request any earlier one can have left behind.      *)
(* The outputs list packages of two kernels in any order, some without a   *)
(* date, a version or a checksum, and packages the source does not look    *)
(* for.                                                                    *)
(***************************************************************************)
EXTENDS SourceAnswers

Line(name, version, seconds, columns) ==
    [name |-> name, version |-> version, seconds |-> seconds, columns |-> columns]

MCLines == {
    Line("kernel-core", 1, 10, 3),
    Line("kernel-core", 2, 20, 3),
    Line("kernel-core", 0, 5, 3),
    Line("kernel-modules", 2, 15, 3),
    Line("kernel-devel", 2, 0, 3),
    Line("kernel-headers", 1, 5, 2),
    Line("kernel-tools", 1, 5, 3),
    Line("Last metadata expiration check", 0, 0, 1) }

Element(name, version, seconds, checksum) ==
    [name |-> name, version |-> version, seconds |-> seconds, checksum |-> checksum]

MCElements == {
    Element("kernel-core", 2, 15, "a"),
    Element("kernel-devel", 2, 20, "b"),
    Element("kernel-cachyos-core", 1, 15, ""),
    Element("kernel-cachyos-devel", 1, 20, "a"),
    Element("kernel-cachyos-core", 2, 0, "b"),
    Element("kernel-cachyos-lts-core", 1, 20, "a"),
    Element("kernel-cachyos-lts-devel", 1, 15, "b") }

=============================================================================
